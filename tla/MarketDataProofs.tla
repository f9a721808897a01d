-------------------------- MODULE MarketDataProofs --------------------------
(***************************************************************************)
(* Market data is what it is taken for: the catalog's marker, the heals'   *)
(* one download at a time, the month file with its index row, and the      *)
(* names of the registry, for any number of builders, files, backtests,    *)
(* smoke runs, jobs, instruments and clients. Each part has an inductive   *)
(* invariant in its module; one lemma per action shows it kept.            *)
(***************************************************************************)
EXTENDS Services, TLAPS, FiniteSetTheorems

-----------------------------------------------------------------------------
(* CatalogBuild.  v1: raw, v2: catalog, v3: marker, v4: build, v5: used,     *)
(* v6: overlap.                                                              *)

LEMMA CatalogInit == Catalog!Init => Catalog!SoundMarker
<1> SUFFICES ASSUME Catalog!Init PROVE Catalog!SoundMarker
  OBVIOUS
<1>1. Catalog!None \in [Files -> Nat] /\ \A f \in Files : Catalog!None[f] = 0
  BY DEF Catalog!None
<1>2. v1 \in [Files -> Nat] /\ v2 = {} /\ v3 = Catalog!None /\ v6 = FALSE
  BY DEF Catalog!Init
<1>3. v4 = [b \in Builders |-> Catalog!Idle] /\ Catalog!Idle.pc = "idle"
  BY DEF Catalog!Init, Catalog!Idle
<1>4. Catalog!Idle \in [pc : {"idle", "purge", "write"}, hash : [Files -> Nat], todo : SUBSET Files]
  BY <1>1 DEF Catalog!Idle
<1>5. \A b \in Builders : ~Catalog!Busy(b)
  BY <1>3 DEF Catalog!Busy
<1>6. v3 = v1 => Catalog!Bars = {}
  BY <1>1, <1>2 DEF Catalog!Bars, Catalog!Raw
<1>7. Catalog!BuildsAreTyped
  <2>1. v4 \in [Builders -> [pc : {"idle", "purge", "write"}, hash : [Files -> Nat],
                                todo : SUBSET Files]]
    BY <1>3, <1>4
  <2>2. \A b \in Builders : v4[b] = Catalog!Idle
    BY <1>3
  <2> QED
    BY <1>1, <1>2, <2>1, <2>2 DEF Catalog!BuildsAreTyped
<1>8. Catalog!Below(v3, v1)
  BY <1>1, <1>2 DEF Catalog!Below
<1>9. v3 = v1 => v2 = Catalog!Bars
  BY <1>2, <1>6
<1> QED
  BY <1>5, <1>7, <1>8, <1>9 DEF Catalog!SoundMarker, Catalog!VersionsGrow, Catalog!MarkerIsAlone

\* While a build goes on the marker does not name the raw files.
LEMMA NotYetMarked ==
    ASSUME Catalog!SoundMarker, ~v6, NEW b \in Builders, Catalog!Busy(b)
    PROVE  v3 # v1
<1>1. Catalog!Below(v3, v4[b].hash) /\ Catalog!Below(v4[b].hash, v1) /\ v3 # v4[b].hash
  BY DEF Catalog!SoundMarker, Catalog!VersionsGrow, Catalog!MarkerIsAlone, Catalog!Building
<1>2. v3 \in [Files -> Nat] /\ v1 \in [Files -> Nat] /\ v4[b].hash \in [Files -> Nat]
  BY DEF Catalog!SoundMarker, Catalog!BuildsAreTyped
<1>3. v3 = v1 => \A f \in Files : v3[f] = v4[b].hash[f]
  BY <1>1, <1>2 DEF Catalog!Below
<1> QED
  BY <1>1, <1>2, <1>3

\* build_catalog_for_symbol begins.
LEMMA BeginKeeps == ASSUME Catalog!SoundMarker, NEW b \in Builders, Catalog!Begin(b) PROVE Catalog!SoundMarker'
<1> USE DEF Catalog!SoundMarker
<1> DEFINE new == [pc |-> "purge", hash |-> v1, todo |-> Catalog!Raw]
           fresh == [pc |-> "write", hash |-> v1, todo |-> Catalog!Raw]
<1>1. v1' = v1 /\ v2' = v2
  BY DEF Catalog!Begin
<1>2. \/ v3' = Catalog!None /\ v4' = [v4 EXCEPT ![b] = new]
      \/ UNCHANGED <<v3, v4>>
      \/ /\ v3' = v3 /\ ~(v3 = v1 /\ v2 # {})
         /\ v4' = [v4 EXCEPT ![b] = new]
      \/ /\ v3' = v3 /\ v3 \in {Catalog!None, v1} /\ v2 = {} /\ ~(v3 = v1 /\ v2 # {})
         /\ v4' = [v4 EXCEPT ![b] = fresh]
  <2>1. CASE Catalog!Forced(b)
    BY <2>1 DEF Catalog!Forced, Catalog!SourceHash
  <2>2. CASE v3 = Catalog!SourceHash /\ v2 # {} /\ UNCHANGED <<v3, v4>>
    BY <2>2
  <2>3. CASE /\ ~(v3 = Catalog!SourceHash /\ v2 # {}) /\ UNCHANGED v3
             /\ v4' = [v4 EXCEPT ![b] =
                    [pc |-> IF (v3 # Catalog!None /\ v3 # Catalog!SourceHash) \/ v2 # {}
                            THEN "purge" ELSE "write",
                     hash |-> Catalog!SourceHash, todo |-> Catalog!Raw]]
    BY <2>3 DEF Catalog!SourceHash
  <2> QED
    BY <2>1, <2>2, <2>3 DEF Catalog!Begin
<1>3. ~v6' => ~v6 /\ (\A c \in Builders : ~Catalog!Busy(c))
  <2>1. v6' = (v6 \/ \E c \in Builders : v4[c] # Catalog!Idle)
    BY DEF Catalog!Begin
  <2>2. ~v6' => ~v6 /\ \A c \in Builders : v4[c] = Catalog!Idle
    BY <2>1, Zenon
  <2>3. Catalog!Idle.pc = "idle"
    BY DEF Catalog!Idle
  <2> QED
    BY <2>2, <2>3 DEF Catalog!Busy
<1>4. Catalog!Raw # {} /\ Catalog!Raw \subseteq Files /\ v6' \in BOOLEAN
  BY DEF Catalog!Begin, Catalog!Raw, Catalog!BuildsAreTyped
<1>5. Catalog!None \in [Files -> Nat] /\ Catalog!Below(Catalog!None, v1) /\ Catalog!None # v1
  <2>1. Catalog!None \in [Files -> Nat] /\ \A f \in Files : Catalog!None[f] = 0
    BY DEF Catalog!None
  <2>2. \E f \in Files : v1[f] # 0
    BY <1>4 DEF Catalog!Raw
  <2> QED
    BY <2>1, <2>2 DEF Catalog!Below, Catalog!BuildsAreTyped
<1>6. Catalog!Below(v1, v1)
  BY DEF Catalog!Below, Catalog!BuildsAreTyped
<1>7. Catalog!Bars # {}
  BY <1>4 DEF Catalog!Bars
<1>8. Catalog!BuildsAreTyped'
  <2> DEFINE Rec == [pc : {"idle", "purge", "write"}, hash : [Files -> Nat], todo : SUBSET Files]
  <2>1. new \in Rec /\ fresh \in Rec /\ new.pc # "idle" /\ fresh.pc # "idle"
    BY <1>4 DEF Catalog!BuildsAreTyped
  <2>2. Catalog!Idle' = Catalog!Idle
    BY DEF Catalog!Idle, Catalog!None
  <2>3. \/ v4' = v4
        \/ \E r \in Rec : r.pc # "idle" /\ v4' = [v4 EXCEPT ![b] = r]
    BY <1>2, <2>1
  <2>4. v4 \in [Builders -> Rec] /\ \A c \in Builders : v4[c].pc = "idle" => v4[c] = Catalog!Idle
    BY DEF Catalog!BuildsAreTyped, Catalog!Busy
  <2> HIDE DEF Rec, new, fresh
  <2>5. v4' \in [Builders -> Rec]
    BY <2>3, <2>4
  <2>6. \A c \in Builders : v4'[c].pc = "idle" => v4'[c] = Catalog!Idle
    BY <2>3, <2>4
  <2>7. v1' \in [Files -> Nat] /\ v3' \in [Files -> Nat] /\ v6' \in BOOLEAN
    BY <1>1, <1>2, <1>4, <1>5 DEF Catalog!BuildsAreTyped
  <2> QED
    BY <2>2, <2>5, <2>6, <2>7 DEF Catalog!BuildsAreTyped, Catalog!Busy, Rec
<1>9. Catalog!VersionsGrow'
  <2>1. Catalog!Below(v3', v1')
    BY <1>1, <1>2, <1>5 DEF Catalog!VersionsGrow, Catalog!Below
  <2>2. \A c \in Builders : v4'[c] = v4[c] \/ v4'[c].hash = v1
    BY <1>2 DEF Catalog!BuildsAreTyped
  <2>3. \A c \in Builders : Catalog!Busy(c)' => Catalog!Below(v4'[c].hash, v1')
    BY <1>1, <1>6, <2>2 DEF Catalog!VersionsGrow, Catalog!Busy
  <2> QED
    BY <2>1, <2>3 DEF Catalog!VersionsGrow, Catalog!Below
<1>10. Catalog!MarkerIsAlone'
  <2> SUFFICES ASSUME ~v6' PROVE Catalog!MarkerIsAlone'
    BY DEF Catalog!MarkerIsAlone
  <2>1. v3 = v1 => v2 = Catalog!Bars
    BY <1>3 DEF Catalog!MarkerIsAlone
  <2>2. \A c \in Builders \ {b} : ~Catalog!Busy(c)'
    BY <1>2, <1>3 DEF Catalog!Busy, Catalog!BuildsAreTyped
  <2>3. v3' = v1' => v2' = Catalog!Bars'
    BY <1>1, <1>2, <1>5, <2>1 DEF Catalog!Bars, Catalog!Raw
  <2>4. Catalog!Busy(b)' => Catalog!Building(b)'
    <3>1. CASE v4' = [v4 EXCEPT ![b] = new] /\ v3' \in {Catalog!None, v3} /\ v3' # v1
      <4>1. v4'[b] = new /\ Catalog!Below(v3', v1)
        BY <3>1, <1>5 DEF Catalog!BuildsAreTyped, Catalog!VersionsGrow
      <4> QED
        BY <4>1, <3>1, <1>1 DEF Catalog!Building, Catalog!Found, Catalog!Raw
    <3>2. CASE /\ v3' = v3 /\ v3 # v1 /\ v2 = {}
               /\ v4' = [v4 EXCEPT ![b] = fresh]
      <4>1. v4'[b] = fresh /\ Catalog!Below(v3', v1)
        BY <3>2 DEF Catalog!BuildsAreTyped, Catalog!VersionsGrow
      <4>2. {<<f, v1[f]>> : f \in Catalog!Raw \ Catalog!Raw} = {}
        OBVIOUS
      <4>3. Catalog!Raw' = Catalog!Raw
        BY <1>1 DEF Catalog!Raw
      <4> QED
        BY <4>1, <4>2, <4>3, <3>2, <1>1 DEF Catalog!Building
    <3>3. CASE UNCHANGED <<v3, v4>>
      BY <3>3, <1>3 DEF Catalog!Busy
    <3>4. v3 = v1 => v2 # {}
      BY <2>1, <1>7
    <3> QED
      BY <1>2, <1>5, <3>1, <3>2, <3>3, <3>4
  <2> QED
    BY <2>2, <2>3, <2>4 DEF Catalog!MarkerIsAlone
<1> QED
  BY <1>8, <1>9, <1>10

\* The step of a build that is under way.
LEMMA BuildStepKeeps ==
    ASSUME Catalog!SoundMarker, NEW b \in Builders,
           Catalog!Purge(b) \/ Catalog!WriteData(b) \/ Catalog!SetMarker(b) \/ Catalog!Crash(b)
    PROVE  Catalog!SoundMarker'
<1> USE DEF Catalog!SoundMarker
<1>1. v1' = v1 /\ v6' = v6 /\ Catalog!Busy(b)
  BY DEF Catalog!Purge, Catalog!WriteData, Catalog!SetMarker, Catalog!Crash, Catalog!Busy, Catalog!BuildsAreTyped
<1>2. Catalog!Bars' = Catalog!Bars /\ Catalog!Raw' = Catalog!Raw
  BY <1>1 DEF Catalog!Bars, Catalog!Raw
<1>3. ~v6 => v3 # v1 /\ Catalog!Building(b) /\ \A c \in Builders \ {b} : ~Catalog!Busy(c)
  BY <1>1, NotYetMarked DEF Catalog!MarkerIsAlone
<1>4. CASE Catalog!Purge(b)
  <2>1. \/ v4' = v4
        \/ v2' = {} /\ v4[b].pc = "purge" /\ v4' = [v4 EXCEPT ![b].pc = "write"]
    BY <1>4 DEF Catalog!Purge
  <2>2. v3' = v3 /\ v4[b].pc = "purge"
    BY <1>4 DEF Catalog!Purge
  <2>3. Catalog!BuildsAreTyped' /\ Catalog!VersionsGrow'
    BY <1>1, <2>1, <2>2, ZenonT(60) DEF Catalog!BuildsAreTyped, Catalog!VersionsGrow, Catalog!Below, Catalog!Busy
  <2>4. ~v6 => Catalog!Building(b)'
    <3> SUFFICES ASSUME ~v6 PROVE Catalog!Building(b)'
      OBVIOUS
    <3>1. CASE v4' = v4
      BY <3>1, <1>1, <1>3, <2>2 DEF Catalog!Building, Catalog!Found
    <3>2. CASE v2' = {} /\ v4' = [v4 EXCEPT ![b].pc = "write"]
      <4>1. /\ v4'[b].pc = "write" /\ v4'[b].hash = v4[b].hash
            /\ v4'[b].todo = v4[b].todo
        BY <3>2 DEF Catalog!BuildsAreTyped
      <4>2. v4[b].hash = v1 => v4[b].todo = Catalog!Raw
        BY <1>3, <2>2 DEF Catalog!Building, Catalog!Found, Catalog!Raw
      <4>3. {<<f, v1[f]>> : f \in Catalog!Raw \ Catalog!Raw} = {}
        OBVIOUS
      <4> QED
        BY <3>2, <4>1, <4>2, <4>3, <1>1, <1>2, <1>3, <2>2 DEF Catalog!Building
    <3> QED
      BY <2>1, <3>1, <3>2
  <2>5. \A c \in Builders \ {b} : Catalog!Busy(c)' = Catalog!Busy(c)
    BY <2>1 DEF Catalog!Busy, Catalog!BuildsAreTyped
  <2> QED
    BY <1>1, <1>3, <2>2, <2>3, <2>4, <2>5 DEF Catalog!MarkerIsAlone
<1>5. CASE Catalog!WriteData(b)
  <2>1. PICK f \in v4[b].todo : /\ v2' = v2 \cup {<<f, v1[f]>>}
                                   /\ v4' = [v4 EXCEPT ![b].todo = @ \ {f}]
    BY <1>5 DEF Catalog!WriteData
  <2>2. v3' = v3 /\ v4[b].pc = "write"
    BY <1>5 DEF Catalog!WriteData
  <2>3. Catalog!BuildsAreTyped' /\ Catalog!VersionsGrow'
    BY <1>1, <2>1, <2>2 DEF Catalog!BuildsAreTyped, Catalog!VersionsGrow, Catalog!Below, Catalog!Busy
  <2>4. ~v6 => Catalog!Building(b)'
    <3> SUFFICES ASSUME ~v6 PROVE Catalog!Building(b)'
      OBVIOUS
    <3>1. /\ v4'[b].pc = "write" /\ v4'[b].hash = v4[b].hash
          /\ v4'[b].todo = v4[b].todo \ {f}
      BY <2>1, <2>2 DEF Catalog!BuildsAreTyped
    <3>2. v4[b].hash = v1 => v4[b].todo \subseteq Catalog!Raw
                                 /\ v2 = {<<g, v1[g]>> : g \in Catalog!Raw \ v4[b].todo}
      BY <1>3, <2>2 DEF Catalog!Building
    <3>3. ASSUME v4[b].hash = v1
          PROVE  v2' = {<<g, v1[g]>> : g \in Catalog!Raw \ (v4[b].todo \ {f})}
      BY <2>1, <3>2, <3>3
    <3> QED
      BY <3>1, <3>2, <3>3, <1>1, <1>2, <1>3, <2>2 DEF Catalog!Building
  <2>5. \A c \in Builders \ {b} : Catalog!Busy(c)' = Catalog!Busy(c)
    BY <2>1 DEF Catalog!Busy, Catalog!BuildsAreTyped
  <2> QED
    BY <1>1, <1>3, <2>2, <2>3, <2>4, <2>5 DEF Catalog!MarkerIsAlone
<1>6. CASE Catalog!SetMarker(b)
  <2>1. /\ v3' = v4[b].hash /\ v4' = [v4 EXCEPT ![b] = Catalog!Idle] /\ v2' = v2
        /\ v4[b].pc = "write" /\ v4[b].todo = {}
    BY <1>6 DEF Catalog!SetMarker, Catalog!HashOf
  <2>2. Catalog!BuildsAreTyped'
    BY <1>1, <2>1 DEF Catalog!BuildsAreTyped, Catalog!Busy, Catalog!Idle, Catalog!None
  <2>3. Catalog!VersionsGrow'
    BY <1>1, <2>1 DEF Catalog!VersionsGrow, Catalog!BuildsAreTyped, Catalog!Busy, Catalog!Idle
  <2>4. ~v6 => (v3' = v1 => v2' = Catalog!Bars)
    BY <1>3, <2>1 DEF Catalog!Building, Catalog!Bars
  <2>5. ~v6 => \A c \in Builders : ~Catalog!Busy(c)'
    BY <1>3, <2>1 DEF Catalog!Busy, Catalog!BuildsAreTyped, Catalog!Idle
  <2> QED
    BY <1>1, <1>2, <2>2, <2>3, <2>4, <2>5 DEF Catalog!MarkerIsAlone
<1>7. CASE Catalog!Crash(b)
  <2>1. v3' = v3 /\ v4' = [v4 EXCEPT ![b] = Catalog!Idle] /\ v2' = v2
    BY <1>7 DEF Catalog!Crash
  <2>2. Catalog!BuildsAreTyped'
    BY <1>1, <2>1 DEF Catalog!BuildsAreTyped, Catalog!Busy, Catalog!Idle, Catalog!None
  <2>3. Catalog!VersionsGrow'
    BY <1>1, <2>1 DEF Catalog!VersionsGrow, Catalog!BuildsAreTyped, Catalog!Busy, Catalog!Idle
  <2>4. ~v6 => \A c \in Builders : ~Catalog!Busy(c)'
    BY <1>3, <2>1 DEF Catalog!Busy, Catalog!BuildsAreTyped, Catalog!Idle
  <2> QED
    BY <1>1, <1>3, <2>1, <2>2, <2>3, <2>4 DEF Catalog!MarkerIsAlone
<1> QED
  BY <1>4, <1>5, <1>6, <1>7

\* A raw file is replaced: what was hashed before is older from now on.
LEMMA WriteRawKeeps == ASSUME Catalog!SoundMarker, NEW f \in Files, Catalog!WriteRaw(f) PROVE Catalog!SoundMarker'
<1> USE DEF Catalog!SoundMarker
<1>1. v1' = [v1 EXCEPT ![f] = @ + 1] /\ UNCHANGED <<v2, v3, v4, v6>>
  BY DEF Catalog!WriteRaw
<1>2. v1 \in [Files -> Nat] /\ v1' \in [Files -> Nat] /\ v1'[f] = v1[f] + 1
  BY <1>1 DEF Catalog!BuildsAreTyped
<1>3. Catalog!BuildsAreTyped'
  BY <1>1, <1>2 DEF Catalog!BuildsAreTyped, Catalog!Busy, Catalog!Idle, Catalog!None
<1>4. Catalog!VersionsGrow'
  BY <1>1, <1>2 DEF Catalog!VersionsGrow, Catalog!BuildsAreTyped, Catalog!Below, Catalog!Busy
<1>5. v3' # v1' /\ \A b \in Builders : Catalog!Busy(b) => v4[b].hash # v1'
  BY <1>1, <1>2 DEF Catalog!VersionsGrow, Catalog!Below, Catalog!BuildsAreTyped
<1>6. \A b \in Builders : ~v6 /\ Catalog!Busy(b) => Catalog!Building(b)'
  BY <1>1, <1>5 DEF Catalog!MarkerIsAlone, Catalog!Building, Catalog!Found
<1> QED
  BY <1>1, <1>3, <1>4, <1>5, <1>6 DEF Catalog!MarkerIsAlone, Catalog!Busy

LEMMA CatalogStep ==
    ASSUME Catalog!SoundMarker, [Catalog!Next]_(Catalog!vars) PROVE Catalog!SoundMarker'
<1>1. CASE UNCHANGED Catalog!vars
  BY <1>1 DEF Catalog!vars, Catalog!SoundMarker, Catalog!BuildsAreTyped, Catalog!VersionsGrow,
     Catalog!MarkerIsAlone, Catalog!Building, Catalog!Below, Catalog!Busy, Catalog!Found, Catalog!Bars,
     Catalog!Raw, Catalog!Idle, Catalog!None
<1> QED BY <1>1, BeginKeeps, BuildStepKeeps, WriteRawKeeps DEF Catalog!Next

LEMMA CatalogMarker == Catalog!SoundMarker => Catalog!MarkerIsTrue
  BY DEF Catalog!SoundMarker, Catalog!MarkerIsAlone, Catalog!MarkerIsTrue, Catalog!SourceHash

-----------------------------------------------------------------------------
(* AutoHeal.  v1: lock, v2: heal, v3: ingest, v4: covered, v5: used.         *)

\* The part's own copies of the operators on finite sets are those of FiniteSets.
LEMMA HealCounts == \A S : Heal!Cardinality(S) = Cardinality(S)
  BY Zenon DEF Heal!Cardinality, Cardinality

LEMMA HealStart == Heal!Init => Heal!HealsAreAlone
<1> SUFFICES ASSUME Heal!Init PROVE Heal!HealsAreAlone
  OBVIOUS
<1> DEFINE rest == [pc |-> "guard", waits |-> Heal!None, acquired |-> FALSE, outcome |-> Heal!None]
<1>1. /\ v1 = Heal!Free /\ v5 = [crashes |-> 0, timeouts |-> 0]
      /\ v2 = [b \in Heals |-> rest] /\ v3 = [b \in Heals |-> Heal!None]
  BY DEF Heal!Init
<1>2. Heal!Free \in Heal!LockType /\ ~Heal!Free.swapped /\ Heal!Free.holder \notin Heals
  BY HealAssumption DEF Heal!Free, Heal!LockType, Heal!None
<1>3. rest \in Heal!HealType /\ ~rest.acquired /\ rest.pc = "guard"
  BY DEF Heal!HealType
<1>4. \A b \in Heals : v2[b] = rest /\ v3[b] = "none"
  BY <1>1 DEF Heal!None
<1> HIDE DEF rest
<1>5. Heal!HealsAreTyped
  BY <1>1, <1>2, <1>3 DEF Heal!HealsAreTyped, Heal!None
<1>6. \A b \in Heals : Heal!HolderAcquired(b)
  BY <1>1, <1>2, <1>3, <1>4 DEF Heal!HolderAcquired
<1>7. \A b \in Heals : Heal!JobIsWatched(b)
  BY <1>3, <1>4 DEF Heal!JobIsWatched, Heal!Unfinished
<1> QED BY <1>5, <1>6, <1>7 DEF Heal!HealsAreAlone

\* What a step of one backtest, or of its ingest job, has to keep: the other backtests'
\* hold on the lock and their jobs.
LEMMA HealKeeps ==
    ASSUME Heal!HealsAreAlone, NEW b \in Heals, NEW h \in Heal!HealType,
           v2' = [v2 EXCEPT ![b] = h],
           v1' \in Heal!LockType, v1'.swapped => v1'.holder # Heal!None,
           v3' \in [Heals -> {Heal!None, "queued", "running", "ok", "error", "notFound"}],
           v5' \in [crashes : Nat, timeouts : Nat],
           v5'.crashes = 0 /\ v5'.timeouts = 0 => v5.crashes = 0 /\ v5.timeouts = 0,
           \A c \in Heals \ {b} : v1'.holder = c <=> v1.holder = c,
           \A c \in Heals \ {b} : v3'[c] = v3[c],
           v1'.holder = b => h.acquired,
           h.acquired => h.pc \notin {"guard", "acquire", "holder", "holderAgain"},
           v5'.crashes = 0 /\ v5'.timeouts = 0 => Heal!JobIsWatched(b)'
    PROVE  Heal!HealsAreAlone'
<1>1. v2 \in [Heals -> Heal!HealType]
  BY DEF Heal!HealsAreAlone, Heal!HealsAreTyped
<1>2. v2' \in [Heals -> Heal!HealType] /\ v2'[b] = h /\ \A c \in Heals \ {b} : v2'[c] = v2[c]
  BY <1>1
<1>3. Heal!HealsAreTyped'
  BY <1>2 DEF Heal!HealsAreTyped, Heal!LockType, Heal!HealType
<1>4. ASSUME NEW c \in Heals PROVE Heal!HolderAcquired(c)'
  <2>1. CASE c = b
    BY <1>2, <2>1 DEF Heal!HolderAcquired
  <2>2. CASE c # b
    BY <1>2, <2>2 DEF Heal!HolderAcquired, Heal!HealsAreAlone
  <2> QED BY <2>1, <2>2
<1>5. ASSUME v5'.crashes = 0 /\ v5'.timeouts = 0, NEW c \in Heals PROVE Heal!JobIsWatched(c)'
  <2>1. CASE c = b
    BY <1>5, <2>1
  <2>2. CASE c # b
    <3>1. Heal!JobIsWatched(c)
      BY <1>5 DEF Heal!HealsAreAlone
    <3> QED BY <1>2, <2>2, <3>1 DEF Heal!JobIsWatched, Heal!Unfinished
  <2> QED BY <2>1, <2>2
<1> QED BY <1>3, <1>4, <1>5 DEF Heal!HealsAreAlone

LEMMA HealFacts ==
    ASSUME Heal!HealsAreAlone
    PROVE  /\ v1 \in Heal!LockType /\ (v1.swapped => v1.holder # Heal!None)
           /\ v1.holder \in Heals \cup {Heal!None} /\ v1.swapped \in BOOLEAN
           /\ v2 \in [Heals -> Heal!HealType] /\ \A b \in Heals : v2[b] \in Heal!HealType
           /\ v3 \in [Heals -> {Heal!None, "queued", "running", "ok", "error", "notFound"}]
           /\ v5 \in [crashes : Nat, timeouts : Nat] /\ v5.crashes \in Nat /\ v5.timeouts \in Nat
           /\ Heal!None \notin Heals
           /\ v1 # Heal!Free <=> v1.holder \in Heals
           /\ \A b \in Heals : Heal!HolderAcquired(b)
           /\ v5.crashes = 0 /\ v5.timeouts = 0 => \A b \in Heals : Heal!JobIsWatched(b)
<1>1. /\ v1 \in Heal!LockType /\ (v1.swapped => v1.holder # Heal!None)
      /\ v2 \in [Heals -> Heal!HealType]
      /\ v3 \in [Heals -> {Heal!None, "queued", "running", "ok", "error", "notFound"}]
      /\ v5 \in [crashes : Nat, timeouts : Nat] /\ \A b \in Heals : Heal!HolderAcquired(b)
      /\ v5.crashes = 0 /\ v5.timeouts = 0 => \A b \in Heals : Heal!JobIsWatched(b)
  BY DEF Heal!HealsAreAlone, Heal!HealsAreTyped
<1>2. Heal!None \notin Heals
  BY HealAssumption DEF Heal!None
<1>3. v1.holder \in Heals \cup {Heal!None} /\ v1.swapped \in BOOLEAN
  BY <1>1 DEF Heal!LockType
<1>4. v1 # Heal!Free <=> v1.holder \in Heals
  BY <1>1, <1>2, <1>3 DEF Heal!LockType, Heal!Free
<1>5. v5.crashes \in Nat /\ v5.timeouts \in Nat
  BY <1>1
<1>6. \A b \in Heals : v2[b] \in Heal!HealType
  BY <1>1
<1> QED BY <1>1, <1>2, <1>3, <1>4, <1>5, <1>6

\* A backtest that only moves on keeps the lock it holds; none that holds the lock goes back.
LEMMA HealMoves ==
    ASSUME Heal!HealsAreAlone, NEW b \in Heals, NEW h \in Heal!HealType,
           v2' = [v2 EXCEPT ![b] = h], h.acquired = v2[b].acquired,
           h.pc \notin {"guard", "enqueue", "swap"},
           h.pc \in {"acquire", "holder", "holderAgain"} =>
               v2[b].pc \in {"guard", "acquire", "holder", "holderAgain"},
           UNCHANGED <<v1, v3>>, v5' \in [crashes : Nat, timeouts : Nat],
           v5'.crashes = 0 /\ v5'.timeouts = 0 =>
               /\ v5.crashes = 0 /\ v5.timeouts = 0
               /\ Heal!Unfinished(b) => v2[b].pc = "swap" /\ h.pc = "poll" /\ h.waits = b
    PROVE  Heal!HealsAreAlone'
<1>1. Heal!HolderAcquired(b)
  BY HealFacts
<1>2. v1'.holder = b => h.acquired
  BY <1>1 DEF Heal!HolderAcquired
<1>3. h.acquired => h.pc \notin {"guard", "acquire", "holder", "holderAgain"}
  BY <1>1 DEF Heal!HolderAcquired
<1>4. v2'[b] = h
  BY HealFacts
<1>5. ASSUME v5'.crashes = 0 /\ v5'.timeouts = 0 PROVE Heal!JobIsWatched(b)'
  <2>1. Heal!JobIsWatched(b)
    BY <1>5, HealFacts
  <2> QED BY <1>4, <1>5, <2>1 DEF Heal!JobIsWatched, Heal!Unfinished
<1> QED BY <1>2, <1>3, <1>5, HealFacts, HealKeeps

\* A backtest whose job is unfinished is still in step with it.
LEMMA HealWatches ==
    ASSUME Heal!HealsAreAlone, NEW b \in Heals, v5.crashes = 0 /\ v5.timeouts = 0,
           Heal!Unfinished(b)
    PROVE  v2[b].pc = "swap" \/ (v2[b].pc = "poll" /\ v2[b].waits = b)
  BY HealFacts DEF Heal!JobIsWatched

\* The record that a backtest's step leaves.
LEMMA HealRecord ==
    ASSUME Heal!HealsAreAlone, NEW b \in Heals,
           NEW p \in {"guard", "acquire", "enqueue", "swap", "holder", "holderAgain", "poll", "verify", "finally",
                      "done"},
           NEW o \in {Heal!None, "rejected", "ingest_failed", "timeout", "success", "coverage_still_missing"},
           NEW k \in Heals,
           \/ v2' = [v2 EXCEPT ![b].pc = p]
           \/ v2' = [v2 EXCEPT ![b].pc = p, ![b].outcome = o]
           \/ v2' = [v2 EXCEPT ![b].pc = p, ![b].waits = k]
    PROVE  \E h \in Heal!HealType :
              v2' = [v2 EXCEPT ![b] = h] /\ h.pc = p /\ h.acquired = v2[b].acquired
<1> DEFINE r == v2[b]
<1>1. r \in Heal!HealType
  BY HealFacts
<1>2. \/ v2' = [v2 EXCEPT ![b] = [r EXCEPT !.pc = p]]
      \/ v2' = [v2 EXCEPT ![b] = [r EXCEPT !.pc = p, !.outcome = o]]
      \/ v2' = [v2 EXCEPT ![b] = [r EXCEPT !.pc = p, !.waits = k]]
  BY HealFacts
<1> HIDE DEF r
<1>3. /\ [r EXCEPT !.pc = p] \in Heal!HealType /\ [r EXCEPT !.pc = p].pc = p
      /\ [r EXCEPT !.pc = p].acquired = r.acquired
  BY <1>1 DEF Heal!HealType
<1>4. /\ [r EXCEPT !.pc = p, !.outcome = o] \in Heal!HealType
      /\ [r EXCEPT !.pc = p, !.outcome = o].pc = p
      /\ [r EXCEPT !.pc = p, !.outcome = o].acquired = r.acquired
  BY <1>1 DEF Heal!HealType
<1>5. /\ [r EXCEPT !.pc = p, !.waits = k] \in Heal!HealType
      /\ [r EXCEPT !.pc = p, !.waits = k].pc = p
      /\ [r EXCEPT !.pc = p, !.waits = k].acquired = r.acquired
  BY <1>1 DEF Heal!HealType
<1> QED BY <1>2, <1>3, <1>4, <1>5 DEF r

\* Guardrails, the looks at the holder, and the check of the coverage.
LEMMA HealQuiet ==
    ASSUME Heal!HealsAreAlone, NEW b \in Heals,
           Heal!Guardrails(b) \/ Heal!ReadHolder(b) \/ Heal!Verify(b)
    PROVE  Heal!HealsAreAlone'
<1>1. UNCHANGED <<v1, v3, v5>>
  BY DEF Heal!Guardrails, Heal!ReadHolder, Heal!Verify
<1>2. v2[b].pc \in {"guard", "holder", "holderAgain", "verify"}
  BY DEF Heal!Guardrails, Heal!ReadHolder, Heal!Verify, Heal!At
<1>3. ~(Heal!Unfinished(b) /\ v5.crashes = 0 /\ v5.timeouts = 0)
  BY <1>2, HealWatches
<1>4. PICK h \in Heal!HealType :
        /\ v2' = [v2 EXCEPT ![b] = h] /\ h.acquired = v2[b].acquired
        /\ h.pc \in {"acquire", "holderAgain", "finally", "poll", "done"}
        /\ h.pc \in {"acquire", "holderAgain"} => v2[b].pc \in {"guard", "holder"}
  <2>1. CASE v2' = [v2 EXCEPT ![b].pc = "acquire"] /\ v2[b].pc = "guard"
    <3>1. \E h \in Heal!HealType :
            v2' = [v2 EXCEPT ![b] = h] /\ h.pc = "acquire" /\ h.acquired = v2[b].acquired
      BY <2>1, HealRecord
    <3> QED BY <2>1, <3>1
  <2>2. CASE v2' = [v2 EXCEPT ![b].pc = "done", ![b].outcome = "rejected"]
    BY <2>2, HealRecord
  <2>3. CASE v2' = [v2 EXCEPT ![b].pc = "finally", ![b].outcome = "success"]
    BY <2>3, HealRecord
  <2>4. CASE v2' = [v2 EXCEPT ![b].pc = "finally", ![b].outcome = "coverage_still_missing"]
    BY <2>4, HealRecord
  <2>5. CASE v2' = [v2 EXCEPT ![b].pc = "finally", ![b].outcome = "ingest_failed"]
    BY <2>5, HealRecord
  <2>6. CASE v2' = [v2 EXCEPT ![b].pc = "holderAgain"] /\ v2[b].pc = "holder"
    <3>1. \E h \in Heal!HealType :
            v2' = [v2 EXCEPT ![b] = h] /\ h.pc = "holderAgain" /\ h.acquired = v2[b].acquired
      BY <2>6, HealRecord
    <3> QED BY <2>6, <3>1
  <2>7. CASE v2' = [v2 EXCEPT ![b].pc = "poll", ![b].waits = v1.holder] /\ v1.holder \in Heals
    BY <2>7, HealRecord
  <2>8. CASE Heal!Guardrails(b)
    BY <2>8, <2>1, <2>2 DEF Heal!Guardrails, Heal!Goto, Heal!At
  <2>9. CASE Heal!Verify(b)
    BY <2>9, <2>3, <2>4 DEF Heal!Verify, Heal!End
  <2>10. CASE Heal!ReadHolder(b)
    <3>1. v1.swapped => v1.holder \in Heals
      BY HealFacts
    <3> QED BY <2>10, <3>1, <2>5, <2>6, <2>7 DEF Heal!ReadHolder, Heal!End, Heal!Wait, Heal!Goto, Heal!At
  <2> QED BY <2>8, <2>9, <2>10
<1>6. v5' \in [crashes : Nat, timeouts : Nat]
  BY <1>1, HealFacts
<1> QED BY <1>1, <1>3, <1>4, <1>6, HealMoves

\* Time-outs and crashes are what the property excuses.
LEMMA HealPoll == ASSUME Heal!HealsAreAlone, NEW b \in Heals, Heal!Poll(b) PROVE Heal!HealsAreAlone'
<1>1. UNCHANGED <<v1, v3>> /\ v2[b].pc = "poll"
  BY DEF Heal!Poll, Heal!At
<1>2. PICK h \in Heal!HealType :
        v2' = [v2 EXCEPT ![b] = h] /\ h.pc \in {"verify", "finally"} /\ h.acquired = v2[b].acquired
  <2>1. CASE v2' = [v2 EXCEPT ![b].pc = "verify"]
    <3>1. \E h \in Heal!HealType :
            v2' = [v2 EXCEPT ![b] = h] /\ h.pc = "verify" /\ h.acquired = v2[b].acquired
      BY <2>1, HealRecord
    <3> QED BY <2>1, <3>1
  <2>2. CASE v2' = [v2 EXCEPT ![b].pc = "finally", ![b].outcome = "ingest_failed"]
    BY <2>2, HealRecord, ZenonT(60)
  <2>3. CASE v2' = [v2 EXCEPT ![b].pc = "finally", ![b].outcome = "timeout"]
    BY <2>3, HealRecord, ZenonT(60)
  <2> QED BY <2>1, <2>2, <2>3 DEF Heal!Poll, Heal!Goto, Heal!End
<1>4. \/ v5' = v5 /\ v3[v2[b].waits] \in {"ok", "notFound", "error"}
      \/ v5' = [v5 EXCEPT !.timeouts = @ + 1]
  BY DEF Heal!Poll
<1>5. v5' \in [crashes : Nat, timeouts : Nat] /\ (v5' = v5 \/ v5'.timeouts # 0)
  BY <1>4, HealFacts
<1>6. ASSUME v5'.timeouts = 0 /\ v5'.crashes = 0
      PROVE  v5' = v5 /\ ~Heal!Unfinished(b)
  <2>1. v5' = v5 /\ v3[v2[b].waits] \in {"ok", "notFound", "error"}
    BY <1>4, <1>5, <1>6, HealFacts
  <2> QED BY <1>1, <1>6, <2>1, HealWatches DEF Heal!Unfinished
<1> QED BY <1>1, <1>2, <1>5, <1>6, HealMoves

LEMMA HealCrash == ASSUME Heal!HealsAreAlone, NEW b \in Heals, Heal!Crash(b) PROVE Heal!HealsAreAlone'
<1>1. UNCHANGED <<v1, v3>> /\ v5' = [v5 EXCEPT !.crashes = @ + 1] /\ v2' = [v2 EXCEPT ![b].pc = "done"]
  BY DEF Heal!Crash, Heal!Goto
<1>2. PICK h \in Heal!HealType :
        v2' = [v2 EXCEPT ![b] = h] /\ h.pc = "done" /\ h.acquired = v2[b].acquired
  BY <1>1, HealRecord
<1>3. v5' \in [crashes : Nat, timeouts : Nat] /\ v5'.crashes # 0
  BY <1>1, HealFacts
<1> QED BY <1>1, <1>2, <1>3, HealMoves

\* SET NX: whoever finds the lock free is its only holder.
LEMMA HealAcquire ==
    ASSUME Heal!HealsAreAlone, NEW b \in Heals, Heal!TryAcquire(b) PROVE Heal!HealsAreAlone'
<1>1. v2[b].pc = "acquire" /\ UNCHANGED <<v3, v5>>
  BY DEF Heal!TryAcquire, Heal!At
<1>2. ~(Heal!Unfinished(b) /\ v5.crashes = 0 /\ v5.timeouts = 0)
  BY <1>1, HealWatches
<1>3. v5' \in [crashes : Nat, timeouts : Nat]
  BY <1>1, HealFacts
<1>4. CASE v1 # Heal!Free
  <2>1. v2' = [v2 EXCEPT ![b].pc = "holder"] /\ v1' = v1
    BY <1>4 DEF Heal!TryAcquire, Heal!Goto
  <2>2. PICK h \in Heal!HealType :
          v2' = [v2 EXCEPT ![b] = h] /\ h.pc = "holder" /\ h.acquired = v2[b].acquired
    BY <2>1, HealRecord
  <2> QED BY <1>1, <1>2, <1>3, <2>1, <2>2, HealMoves
<1>5. CASE v1 = Heal!Free
  <2>1. /\ v1' = [holder |-> b, swapped |-> FALSE]
        /\ v2' = [v2 EXCEPT ![b].pc = "enqueue", ![b].acquired = TRUE]
    BY <1>5 DEF Heal!TryAcquire
  <2> DEFINE r == v2[b]
             h == [r EXCEPT !.pc = "enqueue", !.acquired = TRUE]
  <2>2. r \in Heal!HealType /\ v2' = [v2 EXCEPT ![b] = h]
    BY <2>1, HealFacts
  <2> HIDE DEF r
  <2>3. h \in Heal!HealType /\ h.pc = "enqueue" /\ h.acquired
    BY <2>2 DEF Heal!HealType
  <2> HIDE DEF h
  <2>4. v1' \in Heal!LockType /\ ~v1'.swapped /\ v1'.holder = b
    BY <2>1 DEF Heal!LockType
  <2>5. v1.holder \notin Heals
    BY <1>5, HealFacts
  <2>6. v2'[b] = h
    BY <2>2, HealFacts
  <2>7. v5'.crashes = 0 /\ v5'.timeouts = 0 => Heal!JobIsWatched(b)'
    BY <1>1, <1>2, <2>3, <2>4, <2>6 DEF Heal!JobIsWatched, Heal!Unfinished
  <2> QED BY <1>1, <1>3, <2>2, <2>3, <2>4, <2>5, <2>7, HealFacts, HealKeeps
<1> QED BY <1>4, <1>5

LEMMA HealEnqueue ==
    ASSUME Heal!HealsAreAlone, NEW b \in Heals, Heal!EnqueueIngest(b) PROVE Heal!HealsAreAlone'
<1>1. v2[b].pc = "enqueue" /\ UNCHANGED <<v1, v5>>
  BY DEF Heal!EnqueueIngest, Heal!At
<1>2. ~(Heal!Unfinished(b) /\ v5.crashes = 0 /\ v5.timeouts = 0)
  BY <1>1, HealWatches
<1>3. v5' \in [crashes : Nat, timeouts : Nat]
  BY <1>1, HealFacts
<1>4. CASE v2' = [v2 EXCEPT ![b].pc = "finally", ![b].outcome = "ingest_failed"] /\ v3' = v3
  <2>1. PICK h \in Heal!HealType :
          v2' = [v2 EXCEPT ![b] = h] /\ h.pc = "finally" /\ h.acquired = v2[b].acquired
    BY <1>4, HealRecord
  <2> QED BY <1>1, <1>2, <1>3, <1>4, <2>1, HealMoves
<1>5. CASE v2' = [v2 EXCEPT ![b].pc = "swap"] /\ v3' = [v3 EXCEPT ![b] = "queued"]
  <2>1. PICK h \in Heal!HealType :
          v2' = [v2 EXCEPT ![b] = h] /\ h.pc = "swap" /\ h.acquired = v2[b].acquired
    BY <1>5, HealRecord
  <2>2. /\ v3' \in [Heals -> {Heal!None, "queued", "running", "ok", "error", "notFound"}]
        /\ \A c \in Heals \ {b} : v3'[c] = v3[c]
    BY <1>5, HealFacts
  <2>3. v2'[b] = h
    BY <2>1, HealFacts
  <2>4. ASSUME v5'.crashes = 0 /\ v5'.timeouts = 0 PROVE Heal!JobIsWatched(b)'
    <3>1. v1.holder = b
      BY <1>1, <2>4, HealFacts DEF Heal!JobIsWatched
    <3> QED BY <1>1, <2>1, <2>3, <3>1 DEF Heal!JobIsWatched
  <2>5. v1.holder = b => h.acquired
    BY <2>1, HealFacts DEF Heal!HolderAcquired
  <2> QED BY <1>1, <1>3, <2>1, <2>2, <2>4, <2>5, HealFacts, HealKeeps
<1> QED BY <1>4, <1>5 DEF Heal!EnqueueIngest, Heal!Goto, Heal!End

\* compare_and_swap: the placeholder becomes the job's id, and the holder waits for its own job.
LEMMA HealSwap == ASSUME Heal!HealsAreAlone, NEW b \in Heals, Heal!Swap(b) PROVE Heal!HealsAreAlone'
<1>1. /\ v2[b].pc = "swap" /\ UNCHANGED <<v3, v5>> /\ v2' = [v2 EXCEPT ![b].pc = "poll", ![b].waits = b]
      /\ v1' = IF v1 = [holder |-> b, swapped |-> FALSE] THEN [v1 EXCEPT !.swapped = TRUE] ELSE v1
  BY DEF Heal!Swap, Heal!At, Heal!Wait
<1> DEFINE r == v2[b]
           h == [r EXCEPT !.pc = "poll", !.waits = b]
<1>2. r \in Heal!HealType /\ v2' = [v2 EXCEPT ![b] = h]
  BY <1>1, HealFacts
<1> HIDE DEF r
<1>3. h \in Heal!HealType /\ h.pc = "poll" /\ h.acquired = r.acquired /\ h.waits = b
  BY <1>2 DEF Heal!HealType
<1> HIDE DEF h
<1>4. v1' \in Heal!LockType /\ v1'.holder = v1.holder /\ (v1'.swapped => v1'.holder # Heal!None)
  <2>1. CASE v1 = [holder |-> b, swapped |-> FALSE]
    <3>1. v1' = [holder |-> b, swapped |-> TRUE] /\ b # Heal!None
      BY <1>1, <2>1, HealFacts
    <3> QED BY <2>1, <3>1 DEF Heal!LockType
  <2>2. CASE v1' = v1
    BY <2>2, HealFacts
  <2> QED BY <1>1, <2>1, <2>2
<1>5. v5' \in [crashes : Nat, timeouts : Nat]
  BY <1>1, HealFacts
<1>6. v2'[b] = h
  BY <1>2, HealFacts
<1>7. v1.holder = b => h.acquired
  BY <1>3, HealFacts DEF Heal!HolderAcquired, r
<1>8. ASSUME v5'.crashes = 0 /\ v5'.timeouts = 0 PROVE Heal!JobIsWatched(b)'
  <2>1. v1.holder = b
    BY <1>1, <1>8, HealFacts DEF Heal!JobIsWatched
  <2> QED BY <1>3, <1>4, <1>6, <2>1 DEF Heal!JobIsWatched
<1>9. v3' \in [Heals -> {Heal!None, "queued", "running", "ok", "error", "notFound"}]
  BY <1>1, HealFacts
<1>10. (h.acquired => h.pc \notin {"guard", "acquire", "holder", "holderAgain"})
       /\ (v1'.holder = b => h.acquired) /\ \A c \in Heals \ {b} : v1'.holder = c <=> v1.holder = c
  BY <1>3, <1>4, <1>7
<1>11. \A c \in Heals \ {b} : v3'[c] = v3[c]
  BY <1>1
<1>12. v5'.crashes = 0 /\ v5'.timeouts = 0 => v5.crashes = 0 /\ v5.timeouts = 0
  BY <1>1
<1> QED BY <1>2, <1>3, <1>4, <1>5, <1>8, <1>9, <1>10, <1>11, <1>12, HealKeeps

\* The finally block frees nobody else's lock.
LEMMA HealFinally == ASSUME Heal!HealsAreAlone, NEW b \in Heals, Heal!Finally(b) PROVE Heal!HealsAreAlone'
<1>1. /\ v2[b].pc = "finally" /\ UNCHANGED <<v3, v5>> /\ v2' = [v2 EXCEPT ![b].pc = "done"]
      /\ v1' = v1 \/ (v1.holder = b /\ v1' = Heal!Free)
  BY DEF Heal!Finally, Heal!At, Heal!Goto, Heal!Owns
<1>2. PICK h \in Heal!HealType :
        v2' = [v2 EXCEPT ![b] = h] /\ h.pc = "done" /\ h.acquired = v2[b].acquired
  BY <1>1, HealRecord
<1>3. Heal!Free \in Heal!LockType /\ ~Heal!Free.swapped /\ Heal!Free.holder = Heal!None
  BY DEF Heal!Free, Heal!LockType
<1>4. ~(Heal!Unfinished(b) /\ v5.crashes = 0 /\ v5.timeouts = 0)
  BY <1>1, HealWatches
<1>5. v2'[b] = h /\ v5' \in [crashes : Nat, timeouts : Nat]
  BY <1>1, <1>2, HealFacts
<1>6. v5'.crashes = 0 /\ v5'.timeouts = 0 => Heal!JobIsWatched(b)'
  BY <1>1, <1>2, <1>4, <1>5 DEF Heal!JobIsWatched, Heal!Unfinished
<1>7. v1'.holder = b => h.acquired
  BY <1>1, <1>2, <1>3, HealFacts DEF Heal!HolderAcquired
<1>8. \A c \in Heals \ {b} : v1'.holder = c <=> v1.holder = c
  BY <1>1, <1>3, HealFacts
<1>9. v1' \in Heal!LockType /\ (v1'.swapped => v1'.holder # Heal!None)
  BY <1>1, <1>3, HealFacts
<1>10. v3' \in [Heals -> {Heal!None, "queued", "running", "ok", "error", "notFound"}]
  BY <1>1, HealFacts
<1> QED BY <1>1, <1>2, <1>5, <1>6, <1>7, <1>8, <1>9, <1>10, HealKeeps, ZenonT(60)

\* The lock outlives its holder's heal only after a crash.
LEMMA HealExpire == ASSUME Heal!HealsAreAlone, Heal!ExpireLock PROVE Heal!HealsAreAlone'
<1>1. PICK b \in Heals :
        v1.holder = b /\ v2[b].pc = "done" /\ v1' = Heal!Free /\ UNCHANGED <<v2, v3, v5>>
  BY HealFacts DEF Heal!ExpireLock, Heal!At
<1> DEFINE h == v2[b]
<1>2. h \in Heal!HealType /\ v2' = [v2 EXCEPT ![b] = h] /\ b \in Heals
  BY <1>1, HealFacts
<1>3. Heal!Free \in Heal!LockType /\ ~Heal!Free.swapped /\ Heal!Free.holder = Heal!None
  BY DEF Heal!Free, Heal!LockType
<1>4. ~(Heal!Unfinished(b) /\ v5.crashes = 0 /\ v5.timeouts = 0)
  BY <1>1, HealWatches
<1>5. v5'.crashes = 0 /\ v5'.timeouts = 0 => Heal!JobIsWatched(b)'
  BY <1>1, <1>4 DEF Heal!JobIsWatched, Heal!Unfinished
<1>6. v1'.holder # b /\ \A c \in Heals \ {b} : v1'.holder = c <=> v1.holder = c
  BY <1>1, <1>3, HealFacts
<1>7. h.acquired => h.pc \notin {"guard", "acquire", "holder", "holderAgain"}
  BY <1>1
<1>8. v1' \in Heal!LockType /\ ~v1'.swapped /\ v5' \in [crashes : Nat, timeouts : Nat]
      /\ v3' \in [Heals -> {Heal!None, "queued", "running", "ok", "error", "notFound"}]
  BY <1>1, <1>3, HealFacts
<1> QED BY <1>1, <1>2, <1>5, <1>6, <1>7, <1>8, HealKeeps

\* The ingest worker moves only a job that is already watched.
LEMMA HealIngest == ASSUME Heal!HealsAreAlone, NEW b \in Heals, Heal!IngestStep(b) PROVE Heal!HealsAreAlone'
<1>1. /\ UNCHANGED <<v1, v2, v5>>
      /\ \E s \in {"running", "ok", "error", "notFound"} : v3' = [v3 EXCEPT ![b] = s]
      /\ v3'[b] \in {"queued", "running"} => Heal!Unfinished(b)
  BY HealFacts DEF Heal!IngestStep, Heal!Unfinished
<1> DEFINE h == v2[b]
<1>2. h \in Heal!HealType /\ v2' = [v2 EXCEPT ![b] = h]
  BY <1>1, HealFacts
<1>3. /\ v3' \in [Heals -> {Heal!None, "queued", "running", "ok", "error", "notFound"}]
      /\ \A c \in Heals \ {b} : v3'[c] = v3[c]
  BY <1>1, HealFacts
<1>4. ASSUME v5'.crashes = 0 /\ v5'.timeouts = 0 PROVE Heal!JobIsWatched(b)'
  BY <1>1, <1>4, HealFacts DEF Heal!JobIsWatched, Heal!Unfinished
<1>5. Heal!HolderAcquired(b)
  BY HealFacts
<1>6. /\ v1' \in Heal!LockType /\ (v1'.swapped => v1'.holder # Heal!None)
      /\ v5' \in [crashes : Nat, timeouts : Nat]
  BY <1>1, HealFacts
<1>7. v1'.holder = b => h.acquired
  BY <1>1, <1>5 DEF Heal!HolderAcquired
<1>8. h.acquired => h.pc \notin {"guard", "acquire", "holder", "holderAgain"}
  BY <1>1, <1>5 DEF Heal!HolderAcquired
<1> QED BY <1>1, <1>2, <1>3, <1>4, <1>6, <1>7, <1>8, HealKeeps

LEMMA HealStep == ASSUME Heal!HealsAreAlone, [Heal!Next]_(Heal!vars) PROVE Heal!HealsAreAlone'
<1>1. CASE UNCHANGED Heal!vars
  BY <1>1 DEF Heal!vars, Heal!HealsAreAlone, Heal!HealsAreTyped, Heal!HolderAcquired, Heal!JobIsWatched,
     Heal!Unfinished, Heal!LockType, Heal!HealType
<1> QED
  BY <1>1, HealQuiet, HealPoll, HealCrash, HealAcquire, HealEnqueue, HealSwap, HealFinally, HealExpire, HealIngest
     DEF Heal!Next

\* The unfinished job is the holder's.
LEMMA HealOne == Heal!HealsAreAlone => Heal!OneIngestAtATime
<1> SUFFICES ASSUME Heal!HealsAreAlone, v5.crashes + v5.timeouts = 0
             PROVE  Heal!Cardinality({b \in Heals : v3[b] \in {"queued", "running"}}) <= 1
  BY DEF Heal!OneIngestAtATime
<1> DEFINE S == {b \in Heals : v3[b] \in {"queued", "running"}}
<1>1. v5.crashes = 0 /\ v5.timeouts = 0
  BY HealFacts
<1>2. S \subseteq {v1.holder}
  BY <1>1, HealFacts DEF Heal!JobIsWatched, Heal!Unfinished
<1>3. IsFiniteSet({v1.holder}) /\ Cardinality({v1.holder}) = 1
  BY FS_Singleton
<1>4. Cardinality(S) <= 1
  BY <1>2, <1>3, FS_Subset
<1> QED BY <1>4, HealCounts

-----------------------------------------------------------------------------
(* MarketData.  v1: file, v2: index, v3: lock, v4: wr, v5: claimed,          *)
(* v6: used, v7: mixed.                                                      *)

LEMMA BarsSpan == \A S : Bars!Span(S) \subseteq Int
  BY DEF Bars!Span

LEMMA BarsFacts ==
    ASSUME Bars!StoreIsSafe
    PROVE  /\ v1 \subseteq Int /\ v6 \in Nat /\ v7 \in BOOLEAN /\ v3 \in Smokes \cup {Bars!None}
           /\ v4 \in [Bars!Writers -> Bars!WriterType] /\ \A w \in Bars!Writers : v4[w] \in Bars!WriterType
           /\ Bars!Writers = Smokes \cup Ingests /\ Smokes \cap Ingests = {}
           /\ Bars!None \notin Smokes
           /\ \A w \in Ingests : v4[w].pc \notin {"acquire", "recheck"}
           /\ v6 = 0 => \A w \in Smokes : Bars!HoldsLock(w)
           /\ ~v7 /\ v6 = 0 => Bars!RowIsFresh /\ \A w \in Bars!Writers : Bars!AloneInStore(w)
<1>1. /\ v1 \subseteq Int /\ v6 \in Nat /\ v7 \in BOOLEAN /\ v3 \in Smokes \cup {Bars!None}
      /\ v4 \in [Bars!Writers -> Bars!WriterType]
      /\ \A w \in Ingests : v4[w].pc \notin {"acquire", "recheck"}
      /\ v6 = 0 => \A w \in Smokes : Bars!HoldsLock(w)
      /\ ~v7 /\ v6 = 0 => Bars!RowIsFresh /\ \A w \in Bars!Writers : Bars!AloneInStore(w)
  BY DEF Bars!StoreIsSafe, Bars!WritersAreTyped
<1>2. \A w \in Bars!Writers : v4[w] \in Bars!WriterType
  BY <1>1
<1>3. Bars!Writers = Smokes \cup Ingests /\ Smokes \cap Ingests = {} /\ Bars!None \notin Smokes
  BY BarsAssumption DEF Bars!Writers, Bars!None
<1> QED BY <1>1, <1>2, <1>3

LEMMA BarsStart == Bars!Init => Bars!StoreIsSafe
<1> SUFFICES ASSUME Bars!Init PROVE Bars!StoreIsSafe
  OBVIOUS
<1> DEFINE r == Bars!Rest("idle")
<1>1. /\ v1 \in SUBSET Bars!Days /\ v2 \in {{}, Bars!Span(v1)} /\ v3 = Bars!None /\ v6 = 0 /\ v7 = FALSE
      /\ v4 = [w \in Bars!Writers |-> r]
  BY DEF Bars!Init
<1>2. r \in Bars!WriterType /\ r.pc = "idle"
  BY DEF Bars!Rest, Bars!WriterType
<1> HIDE DEF r
<1>3. \A w \in Bars!Writers : v4[w].pc = "idle"
  BY <1>1, <1>2
<1>4. Smokes \subseteq Bars!Writers /\ Ingests \subseteq Bars!Writers
  BY DEF Bars!Writers
<1>5. v1 \subseteq Int
  BY <1>1 DEF Bars!Days
<1>6. Bars!WritersAreTyped
  BY <1>1, <1>2, <1>3, <1>4, <1>5 DEF Bars!WritersAreTyped
<1>7. \A w \in Smokes : Bars!HoldsLock(w)
  BY <1>3, <1>4 DEF Bars!HoldsLock
<1>8. \A w \in Bars!Writers : Bars!AloneInStore(w)
  BY <1>3 DEF Bars!AloneInStore, Bars!InStore
<1>9. Bars!RowIsFresh
  BY <1>1 DEF Bars!RowIsFresh
<1> QED BY <1>6, <1>7, <1>8, <1>9 DEF Bars!StoreIsSafe

\* What every step of one writer keeps: the types, and the other smoke runs' lock.
LEMMA BarsKeeps ==
    ASSUME Bars!StoreIsSafe, NEW w \in Bars!Writers, NEW h \in Bars!WriterType,
           v4' = [v4 EXCEPT ![w] = h],
           v1' \subseteq Int, v6' \in Nat, v7' \in BOOLEAN, v3' \in Smokes \cup {Bars!None},
           h.pc \in {"acquire", "recheck"} => w \in Smokes,
           v6' = 0 => v6 = 0,
           \A s \in Smokes \ {w} : v3 = s => v3' = s,
           w \in Smokes /\ v6' = 0 /\ h.pc \notin {"idle", "acquire", "done"} => v3' = w
    PROVE  /\ Bars!WritersAreTyped' /\ (v6' = 0 => \A s \in Smokes : Bars!HoldsLock(s)')
           /\ v4'[w] = h /\ \A v \in Bars!Writers \ {w} : v4'[v] = v4[v]
<1>1. v4' \in [Bars!Writers -> Bars!WriterType]
  BY BarsFacts
<1>2. v4'[w] = h /\ \A v \in Bars!Writers \ {w} : v4'[v] = v4[v]
  BY BarsFacts
<1>3. \A v \in Ingests : v4'[v].pc \notin {"acquire", "recheck"}
  BY <1>2, BarsFacts
<1>4. Bars!WritersAreTyped'
  BY <1>1, <1>3 DEF Bars!WritersAreTyped, Bars!WriterType, Bars!Writers
<1>5. ASSUME v6' = 0, NEW s \in Smokes PROVE Bars!HoldsLock(s)'
  <2>1. CASE s = w
    BY <1>2, <1>5, <2>1 DEF Bars!HoldsLock
  <2>2. CASE s # w
    BY <1>2, <1>5, <2>2, BarsFacts DEF Bars!HoldsLock
  <2> QED BY <2>1, <2>2
<1> QED BY <1>2, <1>4, <1>5

\* A step outside the store leaves the file, and the row as it was or as the file's footer.
LEMMA BarsOutside ==
    ASSUME Bars!StoreIsSafe, NEW w \in Bars!Writers, NEW h \in Bars!WriterType,
           v4' = [v4 EXCEPT ![w] = h],
           v4[w].pc \notin {"rename", "footer", "upsert"}, h.pc \notin {"rename", "footer", "upsert"},
           UNCHANGED <<v1, v6, v7>>, v2' \in {v2, Bars!Span(v1)}, v3' \in Smokes \cup {Bars!None},
           h.pc \in {"acquire", "recheck"} => w \in Smokes,
           \A s \in Smokes \ {w} : v3 = s => v3' = s,
           w \in Smokes /\ v6 = 0 /\ h.pc \notin {"idle", "acquire", "done"} => v3' = w
    PROVE  Bars!StoreIsSafe'
<1>1. /\ Bars!WritersAreTyped' /\ (v6' = 0 => \A s \in Smokes : Bars!HoldsLock(s)')
      /\ v4'[w] = h /\ \A v \in Bars!Writers \ {w} : v4'[v] = v4[v]
  BY BarsFacts, BarsKeeps
<1>2. ASSUME ~v7' /\ v6' = 0 PROVE Bars!RowIsFresh' /\ \A v \in Bars!Writers : Bars!AloneInStore(v)'
  <2>1. Bars!RowIsFresh /\ \A v \in Bars!Writers : Bars!AloneInStore(v)
    BY <1>2, BarsFacts
  <2>2. \A v \in Bars!Writers : Bars!InStore(v)' <=> Bars!InStore(v)
    BY <1>1 DEF Bars!InStore
  <2>3. Bars!RowIsFresh'
    <3>1. (\A v \in Bars!Writers : v4'[v].pc \notin {"footer", "upsert"}) =>
              \A v \in Bars!Writers : v4[v].pc \notin {"footer", "upsert"}
      BY <1>1
    <3> QED BY <2>1, <3>1 DEF Bars!RowIsFresh, Bars!Writers, Bars!Span
  <2>4. ASSUME NEW v \in Bars!Writers PROVE Bars!AloneInStore(v)'
    <3>1. v4'[v].pc \in {"rename", "upsert"} => v4'[v] = v4[v]
      BY <1>1
    <3> QED BY <2>1, <2>2, <3>1 DEF Bars!AloneInStore, Bars!Writers, Bars!Span
  <2> QED BY <2>3, <2>4 DEF Bars!Writers
<1> QED BY <1>1, <1>2 DEF Bars!StoreIsSafe, Bars!Writers

\* The scan keeps the row or replaces it by the footer's span.
LEMMA BarsScan == \A want : Bars!Scanned(want) \in {v2, Bars!Span(v1)}
  BY DEF Bars!Scanned

LEMMA BarsWindow == \A want \in Bars!Windows : want \subseteq Int
<1> SUFFICES ASSUME NEW want \in Bars!Windows PROVE want \subseteq Int
  OBVIOUS
<1>1. PICK a \in Bars!Days, b \in Bars!Days : want = a..b
  BY DEF Bars!Windows
<1> QED BY <1>1

LEMMA BarsDone == Bars!Rest("done") \in Bars!WriterType /\ Bars!Rest("done").pc = "done"
  BY DEF Bars!Rest, Bars!WriterType

LEMMA BarsBeginSmoke ==
    ASSUME Bars!StoreIsSafe, NEW w \in Smokes, NEW want \in Bars!Windows, Bars!BeginSmoke(w, want)
    PROVE  Bars!StoreIsSafe'
<1>1. /\ v4[w].pc = "idle" /\ v2' \in {v2, Bars!Span(v1)} /\ UNCHANGED <<v1, v3, v6, v7>>
      /\ \/ v4' = [v4 EXCEPT ![w] = Bars!Rest("done")]
         \/ v4' = [v4 EXCEPT ![w].want = want, ![w].pc = "acquire"]
  BY BarsScan DEF Bars!BeginSmoke, Bars!At, Bars!Quit
<1> DEFINE r == v4[w]
           h == [r EXCEPT !.want = want, !.pc = "acquire"]
<1>2. r \in Bars!WriterType /\ w \in Bars!Writers
  BY BarsFacts
<1>3. want \subseteq Int
  BY BarsWindow
<1>4. \/ v4' = [v4 EXCEPT ![w] = Bars!Rest("done")]
      \/ v4' = [v4 EXCEPT ![w] = h]
  BY <1>1
<1> HIDE DEF r
<1>5. h \in Bars!WriterType /\ h.pc = "acquire"
  BY <1>2, <1>3 DEF Bars!WriterType
<1> HIDE DEF h
<1>6. CASE v4' = [v4 EXCEPT ![w] = Bars!Rest("done")]
  BY <1>1, <1>2, <1>6, BarsDone, BarsFacts, BarsOutside
<1>7. CASE v4' = [v4 EXCEPT ![w] = h]
  BY <1>1, <1>2, <1>5, <1>7, BarsFacts, BarsOutside
<1> QED BY <1>4, <1>6, <1>7

LEMMA BarsAcquire == ASSUME Bars!StoreIsSafe, NEW w \in Smokes, Bars!Acquire(w) PROVE Bars!StoreIsSafe'
<1>1. /\ v4[w].pc = "acquire" /\ UNCHANGED <<v1, v2, v6, v7>>
      /\ \/ v3 = Bars!None /\ v3' = w /\ v4' = [v4 EXCEPT ![w].pc = "recheck"]
         \/ v3' = v3 /\ v4' = [v4 EXCEPT ![w] = Bars!Rest("done")]
  BY DEF Bars!Acquire, Bars!At, Bars!Quit, Bars!Goto
<1> DEFINE r == v4[w]
           h == [r EXCEPT !.pc = "recheck"]
<1>2. r \in Bars!WriterType /\ w \in Bars!Writers
  BY BarsFacts
<1>3. \/ v3 = Bars!None /\ v3' = w /\ v4' = [v4 EXCEPT ![w] = h]
      \/ v3' = v3 /\ v4' = [v4 EXCEPT ![w] = Bars!Rest("done")]
  BY <1>1
<1> HIDE DEF r
<1>4. h \in Bars!WriterType /\ h.pc = "recheck"
  BY <1>2 DEF Bars!WriterType
<1> HIDE DEF h
<1>5. CASE v3' = v3 /\ v4' = [v4 EXCEPT ![w] = Bars!Rest("done")]
  BY <1>1, <1>2, <1>5, BarsDone, BarsFacts, BarsOutside
<1>6. CASE v3 = Bars!None /\ v3' = w /\ v4' = [v4 EXCEPT ![w] = h]
  <2>1. v3' \in Smokes \cup {Bars!None} /\ \A s \in Smokes \ {w} : v3 = s => v3' = s
    BY <1>6, BarsFacts
  <2>2. w \in Smokes /\ v6 = 0 /\ h.pc \notin {"idle", "acquire", "done"} => v3' = w
    BY <1>6
  <2> QED BY <1>1, <1>2, <1>4, <1>6, <2>1, <2>2, BarsOutside
<1> QED BY <1>3, <1>5, <1>6

LEMMA BarsRecheck == ASSUME Bars!StoreIsSafe, NEW w \in Smokes, Bars!Recheck(w) PROVE Bars!StoreIsSafe'
<1>1. PICK p \in {"release", "fetch"} :
        /\ v4[w].pc = "recheck" /\ v2' \in {v2, Bars!Span(v1)} /\ UNCHANGED <<v1, v3, v6, v7>>
        /\ v4' = [v4 EXCEPT ![w].pc = p]
  BY BarsScan DEF Bars!Recheck, Bars!At, Bars!Goto
<1> DEFINE r == v4[w]
           h == [r EXCEPT !.pc = p]
<1>2. r \in Bars!WriterType /\ w \in Bars!Writers
  BY BarsFacts
<1>3. v4' = [v4 EXCEPT ![w] = h]
  BY <1>1
<1>4. v6 = 0 => v3 = w
  BY <1>1, BarsFacts DEF Bars!HoldsLock
<1> HIDE DEF r
<1>5. h \in Bars!WriterType /\ h.pc = p
  BY <1>2 DEF Bars!WriterType
<1> HIDE DEF h
<1> QED BY <1>1, <1>2, <1>3, <1>4, <1>5, BarsFacts, BarsOutside

LEMMA BarsRelease == ASSUME Bars!StoreIsSafe, NEW w \in Bars!Writers, Bars!Release(w) PROVE Bars!StoreIsSafe'
<1>1. /\ v4[w].pc = "release" /\ UNCHANGED <<v1, v2, v6, v7>> /\ v4' = [v4 EXCEPT ![w] = Bars!Rest("done")]
      /\ v3' = IF v3 = w THEN Bars!None ELSE v3
  BY DEF Bars!Release, Bars!At, Bars!Quit
<1>2. v3' \in Smokes \cup {Bars!None} /\ \A s \in Smokes \ {w} : v3 = s => v3' = s
  BY <1>1, BarsFacts
<1> QED BY <1>1, <1>2, BarsDone, BarsOutside

\* A job takes no lock.
LEMMA BarsBeginJob ==
    ASSUME Bars!StoreIsSafe, NEW w \in Ingests,
           \/ \E want \in Bars!Windows : Bars!BeginJob(w, want)
           \/ \E d \in Bars!Days : Bars!NightlyTick(w, d)
    PROVE  Bars!StoreIsSafe'
<1>1. PICK want \in SUBSET Int :
        /\ v4[w].pc = "idle" /\ UNCHANGED <<v1, v2, v3, v6, v7>>
        /\ v4' = [v4 EXCEPT ![w].want = want, ![w].pc = "fetch"]
  <2>1. ASSUME NEW want \in Bars!Windows, Bars!BeginJob(w, want)
        PROVE  /\ want \subseteq Int /\ v4[w].pc = "idle" /\ UNCHANGED <<v1, v2, v3, v6, v7>>
               /\ v4' = [v4 EXCEPT ![w].want = want, ![w].pc = "fetch"]
    BY <2>1, BarsWindow DEF Bars!BeginJob, Bars!At
  <2>2. ASSUME NEW d \in Bars!Days, Bars!NightlyTick(w, d)
        PROVE  /\ {d} \subseteq Int /\ v4[w].pc = "idle" /\ UNCHANGED <<v1, v2, v3, v6, v7>>
               /\ v4' = [v4 EXCEPT ![w].want = {d}, ![w].pc = "fetch"]
    BY <2>2 DEF Bars!NightlyTick, Bars!Days, Bars!At, Bars!Session
  <2> QED BY <2>1, <2>2
<1> DEFINE r == v4[w]
           h == [r EXCEPT !.want = want, !.pc = "fetch"]
<1>2. r \in Bars!WriterType /\ w \in Bars!Writers /\ w \notin Smokes
  BY BarsFacts
<1>3. v4' = [v4 EXCEPT ![w] = h]
  BY <1>1
<1> HIDE DEF r
<1>4. h \in Bars!WriterType /\ h.pc = "fetch"
  BY <1>2 DEF Bars!WriterType
<1> HIDE DEF h
<1> QED BY <1>1, <1>2, <1>3, <1>4, BarsFacts, BarsOutside

LEMMA BarsFetch == ASSUME Bars!StoreIsSafe, NEW w \in Bars!Writers, Bars!Fetch(w) PROVE Bars!StoreIsSafe'
<1>1. PICK got \in SUBSET v4[w].want, p \in {"release", "read"} :
        /\ v4[w].pc = "fetch" /\ UNCHANGED <<v1, v2, v3, v6, v7>>
        /\ v4' = [v4 EXCEPT ![w].got = got, ![w].pc = p]
  BY DEF Bars!Fetch, Bars!At
<1> DEFINE r == v4[w]
           h == [r EXCEPT !.got = got, !.pc = p]
<1>2. r \in Bars!WriterType
  BY BarsFacts
<1>3. v4' = [v4 EXCEPT ![w] = h]
  BY <1>1
<1>4. w \in Smokes /\ v6 = 0 => v3 = w
  BY <1>1, BarsFacts DEF Bars!HoldsLock
<1>5. got \subseteq Int
  BY <1>2 DEF Bars!WriterType
<1> HIDE DEF r
<1>6. h \in Bars!WriterType /\ h.pc = p
  BY <1>2, <1>5 DEF Bars!WriterType
<1> HIDE DEF h
<1> QED BY <1>1, <1>3, <1>4, <1>6, BarsFacts, BarsOutside

\* Two smoke runs cannot be in the store together, and a job that meets a writer there is
\* what mixed records.
LEMMA BarsRead == ASSUME Bars!StoreIsSafe, NEW w \in Bars!Writers, Bars!ReadExisting(w) PROVE Bars!StoreIsSafe'
<1>1. /\ v4[w].pc = "read" /\ UNCHANGED <<v1, v2, v3, v6>>
      /\ v4' = [v4 EXCEPT ![w].seen = v1, ![w].pc = "rename"]
  BY DEF Bars!ReadExisting, Bars!At
<1>2. v7' = (v7 \/ \E v \in Bars!Writers \ {w} : Bars!InStore(v) /\ {v, w} \cap Ingests # {})
  BY DEF Bars!ReadExisting
<1> DEFINE r == v4[w]
           h == [r EXCEPT !.seen = v1, !.pc = "rename"]
<1>3. r \in Bars!WriterType
  BY BarsFacts
<1>4. v4' = [v4 EXCEPT ![w] = h]
  BY <1>1
<1>5. w \in Smokes /\ v6 = 0 => v3 = w
  BY <1>1, BarsFacts DEF Bars!HoldsLock
<1> HIDE DEF r
<1>6. h \in Bars!WriterType /\ h.pc = "rename" /\ h.seen = v1
  BY <1>3, BarsFacts DEF Bars!WriterType
<1> HIDE DEF h
<1>7. v7' \in BOOLEAN
  BY <1>2, Zenon
<1>8. ~v7' => ~v7 /\ \A v \in Bars!Writers \ {w} : Bars!InStore(v) => {v, w} \cap Ingests = {}
  BY <1>2, Zenon
<1>9. /\ Bars!WritersAreTyped' /\ (v6' = 0 => \A s \in Smokes : Bars!HoldsLock(s)')
      /\ v4'[w] = h /\ \A v \in Bars!Writers \ {w} : v4'[v] = v4[v]
  BY <1>1, <1>4, <1>5, <1>6, <1>7, BarsFacts, BarsKeeps
<1>10. ASSUME ~v7' /\ v6' = 0 PROVE Bars!RowIsFresh' /\ \A v \in Bars!Writers : Bars!AloneInStore(v)'
  <2>1. Bars!RowIsFresh /\ \A v \in Bars!Writers : Bars!AloneInStore(v)
    BY <1>1, <1>8, <1>10, BarsFacts
  <2>2. \A v \in Bars!Writers \ {w} : ~Bars!InStore(v)
    <3> SUFFICES ASSUME NEW v \in Bars!Writers \ {w}, Bars!InStore(v) PROVE FALSE
      OBVIOUS
    <3>1. v \in Smokes /\ w \in Smokes
      BY <1>8, <1>10, BarsFacts
    <3>2. v3 = v
      BY <1>1, <1>10, <3>1, BarsFacts DEF Bars!HoldsLock, Bars!InStore
    <3> QED BY <1>1, <1>5, <1>10, <3>1, <3>2
  <2>3. \A v \in Bars!Writers \ {w} : v4'[v].pc \notin {"rename", "footer", "upsert"}
    BY <1>9, <2>2 DEF Bars!InStore
  <2>4. Bars!RowIsFresh'
    <3>1. \A v \in Bars!Writers : v4[v].pc \notin {"footer", "upsert"}
      BY <1>1, <1>9, <2>3
    <3> QED BY <1>1, <2>1, <3>1 DEF Bars!RowIsFresh, Bars!Writers, Bars!Span
  <2>5. ASSUME NEW v \in Bars!Writers PROVE Bars!AloneInStore(v)'
    <3>1. CASE v = w
      BY <1>1, <1>6, <1>9, <2>3, <3>1 DEF Bars!AloneInStore, Bars!InStore, Bars!Writers
    <3>2. CASE v # w
      BY <2>3, <3>2 DEF Bars!AloneInStore, Bars!InStore
    <3> QED BY <3>1, <3>2
  <2> QED BY <2>4, <2>5 DEF Bars!Writers
<1> QED BY <1>9, <1>10 DEF Bars!StoreIsSafe, Bars!Writers

\* From the rename to the upsert: what the writer has to know when it is the only one there.
LEMMA BarsInside ==
    ASSUME Bars!StoreIsSafe, NEW w \in Bars!Writers, NEW h \in Bars!WriterType,
           v4' = [v4 EXCEPT ![w] = h], v4[w].pc \in {"rename", "footer", "upsert"},
           h.pc \in {"footer", "upsert", "release"},
           v1' \subseteq Int, v6' \in Nat, UNCHANGED <<v3, v7>>, v6' = 0 => v6 = 0,
           ~v7 /\ v6' = 0 => /\ h.pc = "upsert" => h.seen = Bars!Span(v1')
                             /\ h.pc = "release" => v2' \in {{}, Bars!Span(v1')}
    PROVE  Bars!StoreIsSafe'
<1>1. w \in Smokes /\ v6' = 0 => v3' = w
  BY BarsFacts DEF Bars!HoldsLock
<1>2. /\ Bars!WritersAreTyped' /\ (v6' = 0 => \A s \in Smokes : Bars!HoldsLock(s)')
      /\ v4'[w] = h /\ \A v \in Bars!Writers \ {w} : v4'[v] = v4[v]
  BY <1>1, BarsFacts, BarsKeeps
<1>3. ASSUME ~v7' /\ v6' = 0 PROVE Bars!RowIsFresh' /\ \A v \in Bars!Writers : Bars!AloneInStore(v)'
  <2>1. \A v \in Bars!Writers \ {w} : v4[v].pc \notin {"rename", "footer", "upsert"}
    BY <1>3, BarsFacts DEF Bars!AloneInStore, Bars!InStore
  <2>2. \A v \in Bars!Writers \ {w} : v4'[v].pc \notin {"rename", "footer", "upsert"}
    BY <1>2, <2>1
  <2>3. Bars!RowIsFresh'
    BY <1>2, <1>3 DEF Bars!RowIsFresh, Bars!Writers, Bars!Span
  <2>4. ASSUME NEW v \in Bars!Writers PROVE Bars!AloneInStore(v)'
    <3>1. CASE v = w
      BY <1>2, <1>3, <2>2, <3>1 DEF Bars!AloneInStore, Bars!InStore, Bars!Writers, Bars!Span
    <3>2. CASE v # w
      BY <2>2, <3>2 DEF Bars!AloneInStore, Bars!InStore
    <3> QED BY <3>1, <3>2
  <2> QED BY <2>3, <2>4 DEF Bars!Writers
<1> QED BY <1>2, <1>3 DEF Bars!StoreIsSafe, Bars!Writers

LEMMA BarsRename == ASSUME Bars!StoreIsSafe, NEW w \in Bars!Writers, Bars!Rename(w) PROVE Bars!StoreIsSafe'
<1>1. /\ v4[w].pc = "rename" /\ UNCHANGED <<v2, v3, v6, v7>> /\ v1' = v4[w].seen \cup v4[w].got
      /\ v4' = [v4 EXCEPT ![w].pc = "footer"]
  BY DEF Bars!Rename, Bars!At, Bars!Goto, Bars!Merged
<1> DEFINE r == v4[w]
           h == [r EXCEPT !.pc = "footer"]
<1>2. r \in Bars!WriterType
  BY BarsFacts
<1>3. v4' = [v4 EXCEPT ![w] = h] /\ v1' = r.seen \cup r.got
  BY <1>1
<1> HIDE DEF r
<1>4. h \in Bars!WriterType /\ h.pc = "footer" /\ v1' \subseteq Int
  BY <1>2, <1>3 DEF Bars!WriterType
<1> HIDE DEF h
<1> QED BY <1>1, <1>3, <1>4, BarsFacts, BarsInside

LEMMA BarsFooter == ASSUME Bars!StoreIsSafe, NEW w \in Bars!Writers, Bars!ReadFooter(w) PROVE Bars!StoreIsSafe'
<1>1. /\ v4[w].pc = "footer" /\ UNCHANGED <<v1, v2, v3, v7>>
      /\ \/ v4' = [v4 EXCEPT ![w].seen = Bars!Span(v1), ![w].pc = "upsert"] /\ v6' = v6
         \/ v4' = [v4 EXCEPT ![w].pc = "release"] /\ v6' = v6 + 1
  BY DEF Bars!ReadFooter, Bars!At, Bars!Goto, Bars!FooterOf
<1> DEFINE r == v4[w]
           s == Bars!Span(v1)
           h == [r EXCEPT !.seen = s, !.pc = "upsert"]
           g == [r EXCEPT !.pc = "release"]
<1>2. r \in Bars!WriterType /\ s \subseteq Int
  BY BarsFacts, BarsSpan
<1>3. \/ v4' = [v4 EXCEPT ![w] = h] /\ v6' = v6
      \/ v4' = [v4 EXCEPT ![w] = g] /\ v6' = v6 + 1
  BY <1>1
<1>4. v1' = v1 /\ Bars!Span(v1') = s
  BY <1>1 DEF Bars!Span
<1> HIDE DEF r, s
<1>5. /\ h \in Bars!WriterType /\ h.pc = "upsert" /\ h.seen = s
      /\ g \in Bars!WriterType /\ g.pc = "release"
  BY <1>2 DEF Bars!WriterType
<1> HIDE DEF h, g
<1>6. CASE v4' = [v4 EXCEPT ![w] = h] /\ v6' = v6
  BY <1>1, <1>4, <1>5, <1>6, BarsFacts, BarsInside
<1>7. CASE v4' = [v4 EXCEPT ![w] = g] /\ v6' = v6 + 1
  <2>1. v6' \in Nat /\ v6' # 0
    BY <1>7, BarsFacts
  <2> QED BY <1>1, <1>5, <1>7, <2>1, BarsFacts, BarsInside
<1> QED BY <1>3, <1>6, <1>7

LEMMA BarsUpsert == ASSUME Bars!StoreIsSafe, NEW w \in Bars!Writers, Bars!Upsert(w) PROVE Bars!StoreIsSafe'
<1>1. /\ v4[w].pc = "upsert" /\ UNCHANGED <<v1, v3, v6, v7>> /\ v2' = v4[w].seen
      /\ v4' = [v4 EXCEPT ![w].pc = "release"]
  BY DEF Bars!Upsert, Bars!At, Bars!Goto
<1> DEFINE r == v4[w]
           h == [r EXCEPT !.pc = "release"]
<1>2. r \in Bars!WriterType
  BY BarsFacts
<1>3. v4' = [v4 EXCEPT ![w] = h]
  BY <1>1
<1>4. ~v7 /\ v6 = 0 => v2' = Bars!Span(v1)
  BY <1>1, BarsFacts DEF Bars!AloneInStore
<1>5. v1' = v1 /\ Bars!Span(v1') = Bars!Span(v1)
  BY <1>1 DEF Bars!Span
<1> HIDE DEF r
<1>6. h \in Bars!WriterType /\ h.pc = "release"
  BY <1>2 DEF Bars!WriterType
<1> HIDE DEF h
<1> QED BY <1>1, <1>3, <1>4, <1>5, <1>6, BarsFacts, BarsInside

LEMMA BarsExpire == ASSUME Bars!StoreIsSafe, Bars!ExpireLock PROVE Bars!StoreIsSafe'
<1>1. v3' = Bars!None /\ v6' = v6 + 1 /\ UNCHANGED <<v1, v2, v4, v7>>
  BY DEF Bars!ExpireLock
<1>2. v6' \in Nat /\ v6' # 0
  BY <1>1, BarsFacts
<1>3. Bars!WritersAreTyped'
  BY <1>1, <1>2, BarsFacts DEF Bars!WritersAreTyped, Bars!WriterType, Bars!Writers
<1> QED BY <1>2, <1>3 DEF Bars!StoreIsSafe

LEMMA BarsStep == ASSUME Bars!StoreIsSafe, [Bars!Next]_(Bars!vars) PROVE Bars!StoreIsSafe'
<1>1. CASE UNCHANGED Bars!vars
  <2>1. UNCHANGED <<v1, v2, v3, v4, v6, v7>>
    BY <1>1 DEF Bars!vars
  <2> QED BY <2>1 DEF Bars!StoreIsSafe, Bars!WritersAreTyped, Bars!HoldsLock, Bars!RowIsFresh,
     Bars!AloneInStore, Bars!InStore, Bars!WriterType, Bars!Writers, Bars!Span
<1> QED
  BY <1>1, BarsBeginSmoke, BarsAcquire, BarsRecheck, BarsRelease, BarsBeginJob, BarsFetch, BarsRead, BarsRename,
     BarsFooter, BarsUpsert, BarsExpire
     DEF Bars!Next

LEMMA BarsIndex == Bars!StoreIsSafe => Bars!IndexFollowsFile
<1> SUFFICES ASSUME Bars!StoreIsSafe, ~v7, v6 = 0, \A w \in Bars!Writers : ~Bars!InStore(w)
             PROVE  v2 \in {{}, Bars!Span(v1)}
  BY DEF Bars!IndexFollowsFile
<1> QED BY BarsFacts DEF Bars!RowIsFresh, Bars!InStore

\* Only a rename changes the file, and it adds to the file that was read.
LEMMA BarsAdded ==
    ASSUME Bars!StoreIsSafe, [Bars!Next]_(Bars!vars) PROVE Bars!BarsAreKept
<1>1. ASSUME NEW w \in Bars!Writers, Bars!Rename(w), ~v7, v6 = 0 PROVE v1 \subseteq v1'
  <2>1. v4[w].pc = "rename" /\ v1' = v4[w].seen \cup v4[w].got
    BY <1>1 DEF Bars!Rename, Bars!At, Bars!Merged
  <2>2. v4[w].seen = v1
    BY <1>1, <2>1, BarsFacts DEF Bars!AloneInStore
  <2> QED BY <2>1, <2>2
<1>2. ASSUME ~\E w \in Bars!Writers : Bars!Rename(w) PROVE v1' = v1
  <2>1. CASE UNCHANGED Bars!vars
    BY <2>1 DEF Bars!vars
  <2>2. CASE Bars!Next
    <3>1. ASSUME NEW w \in Smokes, \/ \E want \in Bars!Windows : Bars!BeginSmoke(w, want)
                                   \/ Bars!Acquire(w) \/ Bars!Recheck(w)
          PROVE  v1' = v1
      BY <3>1 DEF Bars!BeginSmoke, Bars!Acquire, Bars!Recheck
    <3>2. ASSUME NEW w \in Ingests, \/ \E want \in Bars!Windows : Bars!BeginJob(w, want)
                                    \/ \E d \in Bars!Days : Bars!NightlyTick(w, d)
          PROVE  v1' = v1
      BY <3>2 DEF Bars!BeginJob, Bars!NightlyTick
    <3>3. ASSUME NEW w \in Bars!Writers, \/ Bars!Fetch(w) \/ Bars!ReadExisting(w) \/ Bars!ReadFooter(w)
                                         \/ Bars!Upsert(w) \/ Bars!Release(w)
          PROVE  v1' = v1
      BY <3>3 DEF Bars!Fetch, Bars!ReadExisting, Bars!ReadFooter, Bars!Upsert, Bars!Release
    <3>4. ASSUME Bars!ExpireLock PROVE v1' = v1
      BY <3>4 DEF Bars!ExpireLock
    <3> QED BY <1>2, <2>2, <3>1, <3>2, <3>3, <3>4 DEF Bars!Next
  <2> QED BY <2>1, <2>2
<1>3. ~v7 /\ v6 = 0 => v1 \subseteq v1'
  BY <1>1, <1>2
<1>4. v6 = 0 \/ v6 > 0
  BY BarsFacts
<1> QED BY <1>3, <1>4 DEF Bars!BarsAreKept

-----------------------------------------------------------------------------
\* Any number of heals, writers, builders and files, any crashes and time-outs: unless a heal
\* died or gave up, one scope is downloaded once at a time; while no job meets another writer
\* in the store and no fault occurs, no rename loses bars and the index row at rest is absent
\* or spans the file; and a marker that names the raw files as they are now vouches for the
\* whole catalog while builds do not overlap.
THEOREM MarketDataStaysSafe == Spec => MarketDataIsSafe
<1> DEFINE HealInv == part = "Heal" => Heal!HealsAreAlone
           BarsInv == part = "Bars" => Bars!StoreIsSafe
           CatInv == part = "Catalog" => Catalog!SoundMarker
           One == part = "Heal" => Heal!OneIngestAtATime
           Index == part = "Bars" => Bars!IndexFollowsFile
           Kept == part = "Bars" => Bars!BarsAreKept
           Marker == part = "Catalog" => Catalog!MarkerIsTrue
<1>1. Init => HealInv /\ BarsInv /\ CatInv
  BY HealStart, BarsStart, CatalogInit DEF Init
<1>2. ASSUME [Next]_pool, part' = "Heal" PROVE part = "Heal" /\ [Heal!Next]_(Heal!vars)
  BY <1>2 DEF Next, pool, Rest4, Rest5, Rest6, Heal!vars
<1>3. ASSUME [Next]_pool, part' = "Bars" PROVE part = "Bars" /\ [Bars!Next]_(Bars!vars)
  BY <1>3 DEF Next, pool, Rest4, Rest5, Rest6, Rest7, Rest8, Bars!vars
<1>4. ASSUME [Next]_pool, part' = "Catalog" PROVE part = "Catalog" /\ [Catalog!Next]_(Catalog!vars)
  BY <1>4 DEF Next, pool, Rest4, Rest5, Rest6, Rest7, Catalog!vars
<1>5. HealInv /\ [Next]_pool => HealInv'
  BY <1>2, HealStep
<1>6. BarsInv /\ [Next]_pool => BarsInv'
  BY <1>3, BarsStep
<1>7. CatInv /\ [Next]_pool => CatInv'
  BY <1>4, CatalogStep
<1>8. HealInv => One
  BY HealOne
<1>9. BarsInv => Index
  BY BarsIndex
<1>10. CatInv => Marker
  BY CatalogMarker
<1>11. BarsInv /\ [Next]_pool => [Kept]_pool
  <2>1. ASSUME [Next]_pool PROVE part' = part
    BY <2>1 DEF Next, pool
  <2> QED BY <1>3, <2>1, BarsAdded
<1> QED BY <1>1, <1>5, <1>6, <1>7, <1>8, <1>9, <1>10, <1>11, PTL DEF Spec, MarketDataIsSafe
-----------------------------------------------------------------------------
(* Registry.  v1: today, v2: rows, v3: client, v4: latest, v5: ops.          *)

\* The row s is the row r of before, closed today if it was open under another name.
Was(d, n, r, s) ==
    /\ s.def = r.def /\ s.name = r.name /\ s.from = r.from
    /\ s.to = IF r.def = d /\ r.to = Aliases!Open /\ r.name # n THEN v1 ELSE r.to

\* What a registration of name n makes of the rows.
Registered(d, n) ==
    /\ v2' \subseteq Aliases!Row
    /\ \E new \in v2' :
         /\ new.def = d /\ new.name = n /\ new.to = Aliases!Open
         /\ new.from \in {0, v1} /\ (Aliases!RowsOf(d) # {} \/ d \notin Timeless => new.from = v1)
         /\ d \in Timeless /\ Aliases!RowsOf(d) = {} => new.from = 0
         /\ \A s \in v2' : s = new \/ \E r \in v2 : Was(d, n, r, s)
         /\ \A r \in v2 : ~(r.def = d /\ r.name = n /\ r.from = new.from) => \E s \in v2' : Was(d, n, r, s)

LEMMA AliasDays ==
    ASSUME Aliases!TypeOK
    PROVE  /\ v1 \in Nat /\ v1 >= 1 /\ v1 <= LastDate /\ LastDate \in Nat
           /\ Aliases!Open = LastDate + 1 /\ v1 < Aliases!Open /\ Aliases!FarPast = 0
           /\ Aliases!Days = 0..LastDate /\ Aliases!None = "none"
           /\ \A r \in v2 : /\ r \in Aliases!Row /\ r.def \in Aliases!Defs /\ r.name \in Names
                            /\ r.from \in Nat /\ r.to \in Nat /\ r.from <= LastDate /\ r.to <= LastDate + 1
  BY AliasAssumption DEF Aliases!TypeOK, Aliases!Open, Aliases!FarPast, Aliases!Days, Aliases!Row,
     Aliases!None

LEMMA UpsertRows ==
    ASSUME Aliases!TypeOK, NEW d \in Aliases!Defs, NEW n \in Names, Aliases!Upsert(d, n)
    PROVE  Registered(d, n)
<1> DEFINE from == Aliases!EffectiveFrom(d)
           new == [def |-> d, name |-> n, from |-> from, to |-> Aliases!Open]
           closed(r) == IF r.def = d /\ r.to = Aliases!Open /\ r.name # n THEN [r EXCEPT !.to = v1] ELSE r
           mid == Aliases!CloseOthers(d, n, v2)
<1>1. /\ from \in {0, v1} /\ (Aliases!RowsOf(d) # {} \/ d \notin Timeless => from = v1)
      /\ d \in Timeless /\ Aliases!RowsOf(d) = {} => from = 0
  BY DEF Aliases!EffectiveFrom, Aliases!FarPast
<1>2. mid = {closed(r) : r \in v2}
  BY DEF Aliases!CloseOthers
<1>3. \A r \in v2 : closed(r) \in Aliases!Row /\ Was(d, n, r, closed(r))
  <2> SUFFICES ASSUME NEW r \in v2 PROVE closed(r) \in Aliases!Row /\ Was(d, n, r, closed(r))
    OBVIOUS
  <2>1. r \in Aliases!Row /\ v1 \in Aliases!Days
    BY AliasDays
  <2> QED BY <2>1 DEF Aliases!Row, Was
<1>4. v2' = {r \in mid : ~(r.def = d /\ r.name = n /\ r.from = from)} \cup {new}
  BY DEF Aliases!Upsert, Aliases!OpenAlias
<1> HIDE DEF from, closed, mid
<1>5. new \in Aliases!Row
  <2>1. from \in Aliases!Days /\ Aliases!Open \in Aliases!Days \cup {Aliases!Open}
    BY <1>1, AliasDays
  <2> QED BY <2>1 DEF Aliases!Row
<1>6. new \in v2' /\ new.def = d /\ new.name = n /\ new.to = Aliases!Open /\ new.from = from
  BY <1>4
<1> HIDE DEF new
<1>7. \A s \in v2' : s = new \/ \E r \in v2 : s = closed(r)
  BY <1>2, <1>4
<1>8. v2' \subseteq Aliases!Row
  BY <1>3, <1>5, <1>7
<1>9. \A s \in v2' : s = new \/ \E r \in v2 : Was(d, n, r, s)
  BY <1>3, <1>7
<1>10. ASSUME NEW r \in v2, ~(r.def = d /\ r.name = n /\ r.from = from)
       PROVE  \E s \in v2' : Was(d, n, r, s)
  <2>1. Was(d, n, r, closed(r)) /\ closed(r) \in mid
    BY <1>2, <1>3
  <2>2. closed(r) \in v2'
    BY <1>4, <1>10, <2>1 DEF Was
  <2> QED BY <2>1, <2>2
<1> QED BY <1>1, <1>6, <1>8, <1>9, <1>10 DEF Registered

LEMMA UpsertWritten ==
    ASSUME Aliases!SoundAliases, NEW d \in Aliases!Defs, NEW n \in Names, Registered(d, n), v1' = v1
    PROVE  Aliases!RowsAreWritten' /\ Aliases!NamesAreApart'
<1> USE AliasDays DEF Aliases!SoundAliases
<1>1. PICK new \in v2' :
         /\ new.def = d /\ new.name = n /\ new.to = Aliases!Open
         /\ new.from \in {0, v1} /\ (Aliases!RowsOf(d) # {} => new.from = v1)
         /\ \A s \in v2' : s = new \/ \E r \in v2 : Was(d, n, r, s)
  BY DEF Registered
<1>2. Aliases!Open' = Aliases!Open
  BY DEF Aliases!Open
<1>3. Aliases!RowsAreWritten'
  <2> SUFFICES ASSUME NEW s \in v2'
               PROVE  s.from <= v1 /\ (s.to = Aliases!Open \/ (s.from <= s.to /\ s.to <= v1))
    BY <1>2 DEF Aliases!RowsAreWritten
  <2>1. CASE s = new
    BY <1>1, <2>1
  <2>2. ASSUME NEW r \in v2, Was(d, n, r, s)
        PROVE  s.from <= v1 /\ (s.to = Aliases!Open \/ (s.from <= s.to /\ s.to <= v1))
    BY <2>2 DEF Aliases!RowsAreWritten, Was
  <2> QED BY <1>1, <2>1, <2>2
<1>4. Aliases!NamesAreApart'
  <2> SUFFICES ASSUME NEW s \in v2', NEW t \in v2', s.def = t.def, s.name # t.name
               PROVE  s.to <= t.from \/ t.to <= s.from
    BY DEF Aliases!NamesAreApart
  <2>1. ASSUME NEW r \in v2, NEW x \in v2', Was(d, n, r, x), x.def = d, x.name # n
        PROVE  x.to <= new.from
    <3>1. r.def = d /\ r.name # n /\ r \in Aliases!RowsOf(d)
      BY <2>1 DEF Was, Aliases!RowsOf
    <3>2. new.from = v1
      BY <1>1, <3>1
    <3> QED BY <2>1, <3>1, <3>2 DEF Was, Aliases!RowsAreWritten
  <2>2. CASE s = new
    BY <1>1, <2>1, <2>2
  <2>3. CASE t = new
    BY <1>1, <2>1, <2>3
  <2>4. CASE s # new /\ t # new
    <3>1. PICK r \in v2 : Was(d, n, r, s)
      BY <1>1, <2>4
    <3>2. PICK q \in v2 : Was(d, n, q, t)
      BY <1>1, <2>4
    <3>3. r.def = q.def /\ r.name # q.name /\ (r.to <= q.from \/ q.to <= r.from)
      BY <3>1, <3>2 DEF Was, Aliases!NamesAreApart
    <3>4. r.from <= v1 /\ q.from <= v1
      BY DEF Aliases!RowsAreWritten
    <3> QED BY <3>1, <3>2, <3>3, <3>4 DEF Was
  <2> QED BY <2>2, <2>3, <2>4
<1> QED BY <1>3, <1>4

LEMMA UpsertNoGap ==
    ASSUME Aliases!SoundAliases, NEW d \in Aliases!Defs, NEW n \in Names, Registered(d, n), v1' = v1
    PROVE  Aliases!NoGap'
<1> USE AliasDays DEF Aliases!SoundAliases
<1>1. PICK new \in v2' :
         /\ new.def = d /\ new.name = n /\ new.to = Aliases!Open
         /\ new.from \in {0, v1}
         /\ (Aliases!RowsOf(d) # {} \/ d \notin Timeless => new.from = v1)
         /\ d \in Timeless /\ Aliases!RowsOf(d) = {} => new.from = 0
         /\ \A s \in v2' : s = new \/ \E r \in v2 : Was(d, n, r, s)
         /\ \A r \in v2 : ~(r.def = d /\ r.name = n /\ r.from = new.from) => \E s \in v2' : Was(d, n, r, s)
  BY DEF Registered
<1> SUFFICES ASSUME NEW e \in Timeless, NEW day \in Aliases!Days \ {Aliases!FarPast},
                    NEW some \in v2', some.def = e
             PROVE  \E s \in v2' : s.def = e /\ s.from <= day /\ s.to > day
  BY DEF Aliases!NoGap, Aliases!RowsOf, Aliases!ActiveOn, Aliases!Days, Aliases!FarPast
<1>2. day \in Nat /\ day >= 1 /\ day <= LastDate
  OBVIOUS
<1>3. CASE e = d /\ (day >= v1 \/ new.from = 0)
  BY <1>1, <1>2, <1>3
<1>4. CASE ~(e = d /\ (day >= v1 \/ new.from = 0))
  <2>1. Aliases!RowsOf(e) # {}
    <3>1. CASE e = d
      BY <1>1, <1>4, <3>1
    <3>2. CASE e # d
      BY <1>1, <3>2 DEF Was, Aliases!RowsOf
    <3> QED BY <3>1, <3>2
  <2>2. PICK r \in v2 : r.def = e /\ r.from <= day /\ r.to > day
    BY <2>1 DEF Aliases!NoGap, Aliases!ActiveOn, Aliases!RowsOf
  <2>3. e = d => new.from = v1 /\ day < v1
    BY <1>1, <1>2, <1>4
  <2>4. PICK s \in v2' : Was(d, n, r, s)
    BY <1>1, <1>2, <2>2, <2>3
  <2> QED BY <1>2, <2>2, <2>3, <2>4 DEF Was
<1> QED BY <1>3, <1>4

LEMMA UpsertLatest ==
    ASSUME Aliases!SoundAliases, NEW d \in Aliases!Defs, NEW n \in Names, Registered(d, n), v1' = v1,
           v4' = [v4 EXCEPT ![d] = n]
    PROVE  \A e \in Aliases!Defs : Aliases!LatestIsOpen(e)'
<1> USE AliasDays DEF Aliases!SoundAliases
<1>1. PICK new \in v2' :
         /\ new.def = d /\ new.name = n /\ new.to = Aliases!Open
         /\ new.from \in {0, v1}
         /\ (Aliases!RowsOf(d) # {} => new.from = v1)
         /\ \A s \in v2' : s = new \/ \E r \in v2 : Was(d, n, r, s)
         /\ \A r \in v2 : ~(r.def = d /\ r.name = n /\ r.from = new.from) => \E s \in v2' : Was(d, n, r, s)
  BY DEF Registered
<1>2. Aliases!Open' = Aliases!Open /\ Aliases!None' = Aliases!None
  BY DEF Aliases!Open, Aliases!None
<1>3. v4 \in [Aliases!Defs -> Names \cup {"none"}]
  BY DEF Aliases!TypeOK
<1> SUFFICES ASSUME NEW e \in Aliases!Defs PROVE Aliases!LatestIsOpen(e)'
  OBVIOUS
<1>4. CASE e = d
  <2>1. v4'[e] = n /\ n # "none"
    BY <1>3, <1>4, AliasAssumption
  <2>2. ASSUME NEW o \in v2', o.def = e, o.to = Aliases!Open
        PROVE  o.name = n /\ o.from <= new.from
    <3>1. CASE o = new
      BY <1>1, <3>1
    <3>2. ASSUME NEW r \in v2, Was(d, n, r, o)
          PROVE  o.name = n /\ o.from <= new.from
      BY <1>1, <1>4, <2>2, <3>2 DEF Was, Aliases!RowsOf, Aliases!RowsAreWritten
    <3> QED BY <1>1, <3>1, <3>2
  <2>3. new \in Aliases!RowsOf(e)'
    BY <1>1, <1>4 DEF Aliases!RowsOf
  <2> QED BY <1>1, <1>2, <2>1, <2>2, <2>3 DEF Aliases!LatestIsOpen, Aliases!RowsOf
<1>5. CASE e # d
  <2>1. v4'[e] = v4[e]
    BY <1>3, <1>5
  <2>2. \A s \in v2' : s.def = e => \E r \in v2 : r.def = e /\ Was(d, n, r, s) /\ s.to = r.to
    BY <1>1, <1>5 DEF Was
  <2>3. \A r \in v2 : r.def = e => \E s \in v2' : s.def = e /\ Was(d, n, r, s) /\ s.to = r.to
    BY <1>1, <1>5 DEF Was
  <2>4. Aliases!LatestIsOpen(e)
    OBVIOUS
  <2>5. CASE v4[e] = "none"
    BY <1>2, <2>1, <2>2, <2>4, <2>5 DEF Aliases!LatestIsOpen, Aliases!RowsOf
  <2>6. CASE v4[e] # "none"
    <3>1. PICK r \in v2 : /\ r.def = e /\ r.to = Aliases!Open
                          /\ \A o \in v2 : o.def = e /\ o.to = Aliases!Open => o.name = v4[e] /\ o.from <= r.from
      BY <2>4, <2>6 DEF Aliases!LatestIsOpen, Aliases!RowsOf
    <3>2. PICK s \in v2' : s.def = e /\ Was(d, n, r, s) /\ s.to = r.to
      BY <2>3, <3>1
    <3>3. \A o \in v2' : o.def = e /\ o.to = Aliases!Open => o.name = v4[e] /\ o.from <= s.from
      BY <2>2, <3>1, <3>2 DEF Was
    <3>4. s \in Aliases!RowsOf(e)' /\ s.to = Aliases!Open
      BY <3>1, <3>2 DEF Aliases!RowsOf
    <3> QED BY <1>2, <2>1, <2>6, <3>3, <3>4 DEF Aliases!LatestIsOpen, Aliases!RowsOf
  <2> QED BY <2>5, <2>6
<1> QED BY <1>4, <1>5

LEMMA UpsertPast ==
    ASSUME Aliases!SoundAliases, NEW d \in Aliases!Defs, NEW n \in Names, Registered(d, n), v1' = v1
    PROVE  Aliases!PastIsStable
<1> USE AliasDays DEF Aliases!SoundAliases
<1>1. PICK new \in v2' :
         /\ new.def = d /\ new.name = n /\ new.to = Aliases!Open
         /\ (Aliases!RowsOf(d) # {} => new.from = v1)
         /\ \A s \in v2' : s = new \/ \E r \in v2 : Was(d, n, r, s)
         /\ \A r \in v2 : ~(r.def = d /\ r.name = n /\ r.from = new.from) => \E s \in v2' : Was(d, n, r, s)
  BY DEF Registered
<1> SUFFICES ASSUME NEW e \in Aliases!Defs, NEW day \in 1..(v1 - 1), Aliases!RowsOf(e) # {}
             PROVE  Aliases!resolve_for_backtest(e, day)' = Aliases!resolve_for_backtest(e, day)
  BY DEF Aliases!PastIsStable
<1> DEFINE in(r) == r.def = e /\ r.from <= day /\ r.to > day
<1>2. ASSUME NEW r \in v2, in(r) PROVE \E s \in v2' : in(s) /\ s.name = r.name
  BY <1>1, <1>2 DEF Was, Aliases!RowsOf
<1>3. ASSUME NEW s \in v2', in(s) PROVE \E r \in v2 : in(r) /\ r.name = s.name
  <2>1. s # new
    BY <1>1, <1>3
  <2>2. PICK r \in v2 : Was(d, n, r, s)
    BY <1>1, <2>1
  <2> QED BY <1>3, <2>2 DEF Was
<1>4. Aliases!resolve_for_backtest(e, day) = {r.name : r \in {q \in v2 : in(q)}}
  BY DEF Aliases!resolve_for_backtest, Aliases!ActiveOn, Aliases!RowsOf
<1>5. Aliases!resolve_for_backtest(e, day)' = {r.name : r \in {q \in v2' : in(q)}}
  BY DEF Aliases!resolve_for_backtest, Aliases!ActiveOn, Aliases!RowsOf
<1> QED BY <1>2, <1>3, <1>4, <1>5

\* What a client of the registry keeps.
ClientType ==
    [at: {"idle", "locked", "done"}, def: Aliases!Defs, name: Names, found: Names \cup {"none"},
     outcome: {"none", "created", "noop", "alias_rotated", "unmapped_venue", "ambiguous",
               "unauthorized", "rate_limited", "upstream_error"}]

LEMMA AliasTypes ==
    /\ Aliases!TypeOK <=> /\ v1 \in 1..LastDate /\ v2 \subseteq Aliases!Row
                          /\ v3 \in [Clients -> ClientType]
                          /\ v4 \in [Aliases!Defs -> Names \cup {"none"}] /\ v5 \in 0..MaxOps
    /\ Aliases!TypeOK' <=> /\ v1' \in 1..LastDate /\ v2' \subseteq Aliases!Row
                           /\ v3' \in [Clients -> ClientType]
                           /\ v4' \in [Aliases!Defs -> Names \cup {"none"}] /\ v5' \in 0..MaxOps
  BY DEF Aliases!TypeOK, ClientType, Aliases!None

LEMMA WorstError ==
    ASSUME NEW S, S # {}
    PROVE  \E e \in S : \A o \in S : Aliases!Severity(o) <= Aliases!Severity(e)
<1>1. \A o \in S : Aliases!Severity(o) \in 0..3
  BY DEF Aliases!Severity
<1>2. CASE \E e \in S : Aliases!Severity(e) = 3
  BY <1>1, <1>2
<1>3. CASE (\A o \in S : Aliases!Severity(o) # 3) /\ \E e \in S : Aliases!Severity(e) = 2
  BY <1>1, <1>3
<1>4. CASE (\A o \in S : Aliases!Severity(o) \notin {2, 3}) /\ \E e \in S : Aliases!Severity(e) = 1
  BY <1>1, <1>4
<1>5. CASE \A o \in S : Aliases!Severity(o) \notin {1, 2, 3}
  BY <1>1, <1>5
<1> QED BY <1>2, <1>3, <1>4, <1>5

LEMMA FirstDataset ==
    ASSUME NEW S \in SUBSET (1..3), S # {} PROVE Aliases!Min(S) \in S
<1>1. \E x \in S : \A y \in S : x <= y
  <2>1. CASE 1 \in S
    BY <2>1
  <2>2. CASE 1 \notin S /\ 2 \in S
    BY <2>2
  <2>3. CASE 1 \notin S /\ 2 \notin S
    <3>1. \A y \in S : y \in 1..3 /\ y # 1 /\ y # 2
      BY <2>3
    <3>2. \A y \in S : y = 3
      BY <3>1
    <3>3. 3 \in S
      BY <3>2
    <3> QED BY <3>2, <3>3
  <2> QED BY <2>1, <2>2, <2>3
<1> QED BY <1>1 DEF Aliases!Min

LEMMA VerdictIsAnAnswer ==
    ASSUME NEW v \in Aliases!Verdicts
    PROVE  v \in Names \cup {Unmapped, "ambiguous", "unauthorized", "rate_limited", "upstream_error"}
<1> DEFINE Answers == Names \cup {Unmapped, "nothing", "ambiguous", "unauthorized", "rate_limited",
                                 "upstream_error"}
<1>1. PICK a \in [1..3 -> Answers] : v = Aliases!Verdict(a)
  BY DEF Aliases!Verdicts, Aliases!Datasets
<1> DEFINE ends == {k \in 1..3 : Aliases!Decisive(a[k])}
           errors == {a[k] : k \in 1..3} \ {"nothing"}
<1>2. v = IF ends # {} THEN a[Aliases!Min(ends)]
          ELSE IF errors = {} THEN "upstream_error"
          ELSE CHOOSE e \in errors : \A o \in errors : Aliases!Severity(o) <= Aliases!Severity(e)
  BY <1>1 DEF Aliases!Verdict, Aliases!Datasets
<1>3. errors \subseteq Answers \ {"nothing"}
  OBVIOUS
<1>4. CASE ends # {}
  <2>1. Aliases!Min(ends) \in ends
    BY <1>4, FirstDataset
  <2> QED BY <1>2, <1>4, <2>1 DEF Aliases!Decisive
<1>5. CASE ends = {} /\ errors = {}
  BY <1>2, <1>5
<1>6. CASE ends = {} /\ errors # {}
  <2> HIDE DEF ends, errors
  <2>1. v \in errors
    BY <1>2, <1>6, WorstError
  <2> QED BY <1>3, <2>1
<1> QED BY <1>4, <1>5, <1>6

LEMMA ClientMoves ==
    ASSUME Aliases!SoundAliases, NEW c \in Clients, v1' = v1, v2' = v2, v4' = v4, v5' = v5,
           NEW q \in ClientType, v3' = [v3 EXCEPT ![c] = q], q.def = v3[c].def, q.outcome # "created",
           q.at = "locked" => Aliases!LockFree(q.def) /\ (q.found = "none" => Aliases!RowsOf(q.def) = {})
    PROVE  Aliases!SoundAliases' /\ Aliases!PastIsStable
<1>1. Aliases!TypeOK'
  BY AliasTypes DEF Aliases!SoundAliases
<1>2. Aliases!RowsAreWritten' /\ Aliases!NamesAreApart' /\ Aliases!NoGap'
  BY DEF Aliases!SoundAliases, Aliases!RowsAreWritten, Aliases!NamesAreApart, Aliases!NoGap, Aliases!Open,
     Aliases!RowsOf, Aliases!ActiveOn
<1>3. \A d \in Aliases!Defs : Aliases!LatestIsOpen(d)'
  BY DEF Aliases!SoundAliases, Aliases!LatestIsOpen, Aliases!RowsOf, Aliases!Open
<1>4. v3 \in [Clients -> ClientType] /\ Aliases!BootstrapKnows /\ Aliases!CreatedOnce
  BY AliasTypes DEF Aliases!SoundAliases
<1>5. \A e \in Clients : v3'[e] = IF e = c THEN q ELSE v3[e]
  BY <1>4
<1>6. Aliases!BootstrapKnows'
  BY <1>4, <1>5 DEF Aliases!BootstrapKnows, Aliases!LockFree, Aliases!None, Aliases!RowsOf
<1>7. Aliases!CreatedOnce'
  BY <1>4, <1>5 DEF Aliases!CreatedOnce
<1>8. Aliases!PastIsStable
  BY DEF Aliases!PastIsStable, Aliases!resolve_for_backtest, Aliases!ActiveOn, Aliases!RowsOf
<1> QED BY <1>1, <1>2, <1>3, <1>6, <1>7, <1>8 DEF Aliases!SoundAliases

LEMMA AliasLock ==
    ASSUME Aliases!SoundAliases, NEW c \in Clients, NEW n \in Names, v3[c].at = "idle",
           Aliases!Lock(c, n), v1' = v1, v2' = v2, v4' = v4, v5' = v5
    PROVE  Aliases!SoundAliases' /\ Aliases!PastIsStable
<1> DEFINE d == v3[c].def
<1>1. v3 \in [Clients -> ClientType] /\ v3[c] \in ClientType /\ d \in Aliases!Defs
  BY AliasTypes DEF Aliases!SoundAliases, ClientType
<1>2. PICK f \in Aliases!OpenNames(d) :
         v3' = [v3 EXCEPT ![c].at = "locked", ![c].name = n, ![c].found = f]
  BY DEF Aliases!Lock
<1>3. f \in Names \cup {"none"}
  BY <1>2, AliasDays DEF Aliases!SoundAliases, Aliases!OpenNames, Aliases!RowsOf, Aliases!None
<1>4. f = "none" => Aliases!RowsOf(d) = {}
  <2>1. \A r \in v2 : r.name # "none"
    BY AliasDays, AliasAssumption DEF Aliases!SoundAliases
  <2>2. Aliases!LatestIsOpen(d)
    BY <1>1 DEF Aliases!SoundAliases
  <2> QED BY <1>2, <2>1, <2>2 DEF Aliases!OpenNames, Aliases!RowsOf, Aliases!None, Aliases!LatestIsOpen
<1> DEFINE q == [v3[c] EXCEPT !.at = "locked", !.name = n, !.found = f]
<1>5. q \in ClientType /\ q.def = d /\ q.outcome = v3[c].outcome /\ q.found = f
  BY <1>1, <1>3 DEF ClientType
<1>6. v3[c].outcome # "created"
  BY DEF Aliases!SoundAliases, Aliases!BootstrapKnows
<1>7. v3' = [v3 EXCEPT ![c] = q]
  BY <1>1, <1>2
<1>8. Aliases!LockFree(q.def)
  BY <1>5 DEF Aliases!Lock
<1> HIDE DEF q
<1> QED BY <1>4, <1>5, <1>6, <1>7, <1>8, ClientMoves

LEMMA ClientEnds ==
    ASSUME Aliases!SoundAliases, NEW c \in Clients,
           NEW o \in {"noop", "unmapped_venue", "ambiguous", "unauthorized", "rate_limited", "upstream_error"},
           Aliases!Finish(c, o), v1' = v1, v2' = v2, v4' = v4, v5' = v5
    PROVE  Aliases!SoundAliases' /\ Aliases!PastIsStable
<1> DEFINE q == [v3[c] EXCEPT !.at = "done", !.outcome = o]
<1>1. v3 \in [Clients -> ClientType] /\ v3[c] \in ClientType
  BY AliasTypes DEF Aliases!SoundAliases
<1>2. q \in ClientType /\ q.def = v3[c].def /\ q.outcome # "created" /\ q.at = "done"
  BY <1>1 DEF ClientType
<1>3. v3' = [v3 EXCEPT ![c] = q]
  BY <1>1 DEF Aliases!Finish
<1> HIDE DEF q
<1> QED BY <1>2, <1>3, ClientMoves

LEMMA AliasSearch ==
    ASSUME Aliases!SoundAliases, NEW c \in Clients, Aliases!SearchEquity(c)
    PROVE  Aliases!SoundAliases' /\ Aliases!PastIsStable
<1>1. v3[c].at = "idle" /\ v1' = v1 /\ v2' = v2 /\ v4' = v4 /\ v5' = v5
  BY DEF Aliases!SearchEquity
<1>2. PICK v \in Aliases!Verdicts :
         \/ v \in Names /\ Aliases!Lock(c, v)
         \/ v \notin Names /\ Aliases!Finish(c, IF v = Unmapped THEN "unmapped_venue" ELSE v)
  BY DEF Aliases!SearchEquity
<1>3. CASE v \in Names /\ Aliases!Lock(c, v)
  BY <1>1, <1>3, AliasLock
<1>4. CASE v \notin Names /\ Aliases!Finish(c, IF v = Unmapped THEN "unmapped_venue" ELSE v)
  BY <1>1, <1>4, VerdictIsAnAnswer, ClientEnds
<1> QED BY <1>2, <1>3, <1>4

LEMMA UpsertKeeps ==
    ASSUME Aliases!SoundAliases, NEW d \in Aliases!Defs, NEW n \in Names, Aliases!Upsert(d, n), v1' = v1
    PROVE  /\ Aliases!RowsAreWritten' /\ Aliases!NamesAreApart' /\ Aliases!NoGap' /\ Aliases!PastIsStable
           /\ \A e \in Aliases!Defs : Aliases!LatestIsOpen(e)'
           /\ v3' \in [Clients -> ClientType] => Aliases!TypeOK'
           /\ Aliases!RowsOf(d)' # {}
           /\ \A e \in Aliases!Defs : /\ Aliases!RowsOf(e) # {} => Aliases!RowsOf(e)' # {}
                                      /\ e # d /\ Aliases!RowsOf(e) = {} => Aliases!RowsOf(e)' = {}
<1>1. Aliases!TypeOK
  BY DEF Aliases!SoundAliases
<1>2. Registered(d, n)
  BY <1>1, UpsertRows
<1>3. v4' = [v4 EXCEPT ![d] = n] /\ v5' = v5 + 1 /\ v5 < MaxOps
  BY DEF Aliases!Upsert
<1>4. v3' \in [Clients -> ClientType] => Aliases!TypeOK'
  <2>1. v2' \subseteq Aliases!Row
    BY <1>2 DEF Registered
  <2>2. v5' \in 0..MaxOps /\ v4' \in [Aliases!Defs -> Names \cup {"none"}]
    BY <1>1, <1>3, AliasTypes, AliasAssumption
  <2> QED BY <1>1, <2>1, <2>2, AliasTypes
<1>5. Aliases!RowsOf(d)' # {}
  BY <1>2 DEF Registered, Aliases!RowsOf
<1>6. ASSUME NEW e \in Aliases!Defs
      PROVE  /\ Aliases!RowsOf(e) # {} => Aliases!RowsOf(e)' # {}
             /\ e # d /\ Aliases!RowsOf(e) = {} => Aliases!RowsOf(e)' = {}
  <2>1. CASE e = d
    BY <1>5, <2>1
  <2>2. CASE e # d
    BY <1>2, <2>2 DEF Registered, Aliases!RowsOf, Was
  <2> QED BY <2>1, <2>2
<1> QED BY <1>2, <1>3, <1>4, <1>5, <1>6, UpsertWritten, UpsertNoGap, UpsertLatest, UpsertPast

LEMMA AliasRegister ==
    ASSUME Aliases!SoundAliases, NEW c \in Clients, Aliases!Register(c)
    PROVE  Aliases!SoundAliases' /\ Aliases!PastIsStable
<1> DEFINE n == v3[c].name
           f == v3[c].found
<1>1. v3[c].at = "locked" /\ v1' = v1
  BY DEF Aliases!Register
<1>2. v3 \in [Clients -> ClientType] /\ v3[c] \in ClientType /\ v3[c].def \in Aliases!Defs /\ n \in Names
  BY AliasTypes DEF Aliases!SoundAliases, ClientType
<1> PICK d \in Aliases!Defs : d = v3[c].def
  BY <1>2
<1>3. CASE d \in Dated /\ f # "none"
  <2>1. v2' = v2 /\ v4' = v4 /\ v5' = v5 /\ Aliases!Finish(c, "noop")
    BY <1>3 DEF Aliases!Register, Aliases!None
  <2> QED BY <1>1, <2>1, ClientEnds
<1>4. CASE ~(d \in Dated /\ f # "none")
  <2> DEFINE o == IF f = "none" THEN "created" ELSE IF f = n THEN "noop" ELSE "alias_rotated"
             q == [v3[c] EXCEPT !.at = "done", !.outcome = o]
  <2>1. Aliases!Upsert(d, n) /\ Aliases!Finish(c, o)
    BY <1>4 DEF Aliases!Register, Aliases!None
  <2>2. q \in ClientType /\ q.def = d /\ q.at = "done" /\ q.outcome = o
    BY <1>2 DEF ClientType
  <2>3. v3' = [v3 EXCEPT ![c] = q]
    BY <1>2, <2>1 DEF Aliases!Finish
  <2> HIDE DEF q
  <2>4. v3' \in [Clients -> ClientType] /\ \A e \in Clients : v3'[e] = IF e = c THEN q ELSE v3[e]
    BY <1>2, <2>2, <2>3
  <2>5. Aliases!BootstrapKnows /\ Aliases!CreatedOnce /\ (f = "none" => Aliases!RowsOf(d) = {})
    BY <1>1 DEF Aliases!SoundAliases, Aliases!BootstrapKnows, Aliases!None
  <2>6. /\ Aliases!RowsOf(d)' # {}
        /\ \A e \in Aliases!Defs : /\ Aliases!RowsOf(e) # {} => Aliases!RowsOf(e)' # {}
                                   /\ e # d /\ Aliases!RowsOf(e) = {} => Aliases!RowsOf(e)' = {}
    BY <1>1, <1>2, <2>1, UpsertKeeps
  <2>7. \A e \in Clients : v3[e].def \in Aliases!Defs /\ (e # c /\ v3[e].at = "locked" => v3[e].def # d)
    BY <1>1, <1>2, <2>5 DEF Aliases!BootstrapKnows, ClientType
  <2>8. Aliases!BootstrapKnows'
    <3>1. ASSUME NEW e \in Clients, NEW g \in Clients, v3'[e].at = "locked", v3'[g].at = "locked",
                 v3'[e].def = v3'[g].def
          PROVE  e = g
      BY <2>2, <2>4, <2>5, <3>1 DEF Aliases!BootstrapKnows
    <3>2. ASSUME NEW e \in Clients
          PROVE  (/\ v3[e].at = "locked" /\ v3[e].found = "none" => Aliases!RowsOf(v3[e].def) = {}
                  /\ v3[e].outcome = "created" => v3[e].at = "done" /\ Aliases!RowsOf(v3[e].def) # {})'
      BY <2>2, <2>4, <2>5, <2>6, <2>7 DEF Aliases!BootstrapKnows, Aliases!None
    <3> QED BY <3>1, <3>2 DEF Aliases!BootstrapKnows, Aliases!None
  <2>9. Aliases!CreatedOnce'
    BY <2>2, <2>4, <2>5 DEF Aliases!BootstrapKnows, Aliases!CreatedOnce
  <2> QED BY <1>1, <1>2, <2>1, <2>4, <2>8, <2>9, UpsertKeeps DEF Aliases!SoundAliases
<1> QED BY <1>3, <1>4

LEMMA AliasQualify ==
    ASSUME Aliases!SoundAliases, NEW d \in Aliases!Defs, Aliases!Qualify(d)
    PROVE  Aliases!SoundAliases' /\ Aliases!PastIsStable
<1>1. PICK n \in Names : Aliases!Upsert(d, n)
  BY DEF Aliases!Qualify
<1>2. v1' = v1 /\ v3' = v3 /\ Aliases!LockFree(d)
  BY DEF Aliases!Qualify
<1>3. v3 \in [Clients -> ClientType] /\ \A e \in Clients : v3[e].def \in Aliases!Defs
  BY AliasTypes DEF Aliases!SoundAliases, ClientType
<1>4. \A e \in Aliases!Defs : /\ Aliases!RowsOf(e) # {} => Aliases!RowsOf(e)' # {}
                              /\ e # d /\ Aliases!RowsOf(e) = {} => Aliases!RowsOf(e)' = {}
  BY <1>1, <1>2, UpsertKeeps
<1>5. Aliases!BootstrapKnows'
  <2>1. ASSUME NEW e \in Clients
        PROVE  (/\ v3[e].at = "locked" /\ v3[e].found = "none" => Aliases!RowsOf(v3[e].def) = {}
                /\ v3[e].outcome = "created" => v3[e].at = "done" /\ Aliases!RowsOf(v3[e].def) # {})'
    BY <1>2, <1>3, <1>4 DEF Aliases!BootstrapKnows, Aliases!SoundAliases, Aliases!LockFree, Aliases!None
  <2> QED BY <1>2, <2>1 DEF Aliases!BootstrapKnows, Aliases!SoundAliases, Aliases!None
<1>6. Aliases!CreatedOnce'
  BY <1>2 DEF Aliases!CreatedOnce, Aliases!SoundAliases
<1> QED BY <1>1, <1>2, <1>3, <1>5, <1>6, UpsertKeeps DEF Aliases!SoundAliases

LEMMA AliasMidnight ==
    ASSUME Aliases!SoundAliases, Aliases!Midnight
    PROVE  Aliases!SoundAliases' /\ Aliases!PastIsStable
<1> USE AliasDays DEF Aliases!SoundAliases
<1>1. v1' = v1 + 1 /\ v1 < LastDate /\ v2' = v2 /\ v3' = v3 /\ v4' = v4 /\ v5' = v5
  BY DEF Aliases!Midnight
<1>2. Aliases!TypeOK'
  BY <1>1, AliasTypes
<1>3. Aliases!RowsAreWritten'
  BY <1>1 DEF Aliases!RowsAreWritten, Aliases!Open
<1>4. Aliases!NamesAreApart' /\ Aliases!NoGap' /\ Aliases!BootstrapKnows' /\ Aliases!CreatedOnce'
  BY <1>1 DEF Aliases!NamesAreApart, Aliases!NoGap, Aliases!BootstrapKnows, Aliases!CreatedOnce,
     Aliases!RowsOf, Aliases!ActiveOn
<1>5. \A d \in Aliases!Defs : Aliases!LatestIsOpen(d)'
  BY <1>1 DEF Aliases!LatestIsOpen, Aliases!RowsOf
<1>6. Aliases!PastIsStable
  BY <1>1 DEF Aliases!PastIsStable, Aliases!resolve_for_backtest, Aliases!ActiveOn, Aliases!RowsOf
<1> QED BY <1>2, <1>3, <1>4, <1>5, <1>6

LEMMA AliasActs ==
    ASSUME Aliases!SoundAliases, [Aliases!Next]_(Aliases!vars)
    PROVE  Aliases!SoundAliases' /\ (Aliases!Next => Aliases!PastIsStable)
<1>1. CASE UNCHANGED Aliases!vars
  <2>1. v1' = v1 /\ v2' = v2 /\ v3' = v3 /\ v4' = v4 /\ v5' = v5
    BY <1>1 DEF Aliases!vars
  <2>2. Aliases!TypeOK' /\ Aliases!RowsAreWritten' /\ Aliases!NamesAreApart' /\ Aliases!NoGap'
    BY <2>1 DEF Aliases!SoundAliases, Aliases!TypeOK, Aliases!RowsAreWritten, Aliases!NamesAreApart,
       Aliases!NoGap, Aliases!RowsOf, Aliases!ActiveOn
  <2>3. Aliases!BootstrapKnows' /\ Aliases!CreatedOnce' /\ \A d \in Aliases!Defs : Aliases!LatestIsOpen(d)'
    BY <2>1 DEF Aliases!SoundAliases, Aliases!BootstrapKnows, Aliases!CreatedOnce, Aliases!LatestIsOpen,
       Aliases!RowsOf
  <2>4. Aliases!PastIsStable
    BY <2>1 DEF Aliases!PastIsStable, Aliases!resolve_for_backtest, Aliases!ActiveOn, Aliases!RowsOf
  <2> QED BY <2>2, <2>3, <2>4 DEF Aliases!SoundAliases
<1>2. ASSUME NEW c \in Clients, Aliases!LockFuture(c)
      PROVE  Aliases!SoundAliases' /\ Aliases!PastIsStable
  <2>1. PICK n \in Names : Aliases!Lock(c, n)
    BY <1>2 DEF Aliases!LockFuture
  <2>2. v3[c].at = "idle" /\ v1' = v1 /\ v2' = v2 /\ v4' = v4 /\ v5' = v5
    BY <1>2 DEF Aliases!LockFuture
  <2> QED BY <2>1, <2>2, AliasLock
<1>3. ASSUME NEW c \in Clients, Aliases!RegisterFails(c)
      PROVE  Aliases!SoundAliases' /\ Aliases!PastIsStable
  <2>1. v1' = v1 /\ v2' = v2 /\ v4' = v4 /\ v5' = v5
    BY <1>3 DEF Aliases!RegisterFails
  <2>2. \E o \in {"upstream_error", "ambiguous", "unauthorized", "rate_limited"} : Aliases!Finish(c, o)
    BY <1>3 DEF Aliases!RegisterFails
  <2> QED BY <2>1, <2>2, ClientEnds
<1>4. CASE Aliases!Next
  BY <1>2, <1>3, <1>4, AliasSearch, AliasRegister, AliasQualify, AliasMidnight DEF Aliases!Next
<1> QED BY <1>1, <1>4

LEMMA AliasInit == Aliases!Init => Aliases!SoundAliases
<1> SUFFICES ASSUME Aliases!Init PROVE Aliases!SoundAliases
  OBVIOUS
<1>1. v1 = 1 /\ v2 = {} /\ v4 = [d \in Aliases!Defs |-> "none"] /\ v5 = 0
  BY DEF Aliases!Init, Aliases!None
<1>2. (CHOOSE n \in Names : TRUE) \in Names
  BY AliasAssumption
<1>3. v3 \in [Clients -> [at: {"idle"}, def: Aliases!Defs, name: {CHOOSE n \in Names : TRUE},
                          found: {"none"}, outcome: {"none"}]]
  BY DEF Aliases!Init, Aliases!None
<1>4. v3 \in [Clients -> ClientType] /\ \A c \in Clients : v3[c].at = "idle" /\ v3[c].outcome = "none"
  BY <1>2, <1>3 DEF ClientType
<1>5. Aliases!TypeOK
  BY <1>1, <1>4, AliasTypes, AliasAssumption
<1>6. \A d : Aliases!RowsOf(d) = {}
  BY <1>1 DEF Aliases!RowsOf
<1>7. Aliases!RowsAreWritten /\ Aliases!NamesAreApart /\ Aliases!NoGap
  BY <1>1, <1>6 DEF Aliases!RowsAreWritten, Aliases!NamesAreApart, Aliases!NoGap
<1>8. Aliases!BootstrapKnows /\ Aliases!CreatedOnce
  BY <1>4 DEF Aliases!BootstrapKnows, Aliases!CreatedOnce
<1>9. \A d \in Aliases!Defs : Aliases!LatestIsOpen(d)
  BY <1>1, <1>6 DEF Aliases!LatestIsOpen, Aliases!None
<1> QED BY <1>5, <1>7, <1>8, <1>9 DEF Aliases!SoundAliases

LEMMA OneAtMost ==
    ASSUME NEW S, \A x, y \in S : x = y PROVE Cardinality(S) <= 1
<1>1. CASE S = {}
  BY <1>1, FS_EmptySet
<1>2. ASSUME NEW x \in S PROVE Cardinality(S) <= 1
  <2>1. S = {x}
    BY <1>2
  <2>2. Cardinality({x}) = 1
    BY FS_Singleton
  <2> QED BY <2>1, <2>2
<1> QED BY <1>1, <1>2

LEMMA AliasCounts == \A S : Aliases!Cardinality(S) = Cardinality(S)
  BY Zenon DEF Aliases!Cardinality, Cardinality

LEMMA AliasesAreSafe ==
    ASSUME Aliases!SoundAliases
    PROVE  Aliases!WindowsTile /\ Aliases!LatestIsLive /\ Aliases!CreatedOnce
<1> USE AliasDays DEF Aliases!SoundAliases
<1>1. Aliases!WindowsTile
  <2> SUFFICES ASSUME NEW d \in Aliases!Defs, NEW day \in Aliases!Days \ {Aliases!FarPast}
               PROVE  /\ Cardinality(Aliases!resolve_for_backtest(d, day)) <= 1
                      /\ d \in Timeless /\ Aliases!RowsOf(d) # {} => Aliases!resolve_for_backtest(d, day) # {}
    BY AliasCounts DEF Aliases!WindowsTile
  <2>1. ASSUME NEW r \in Aliases!ActiveOn(d, day), NEW s \in Aliases!ActiveOn(d, day)
        PROVE  r.name = s.name
    <3>1. /\ r \in v2 /\ r.def = d /\ r.from <= day /\ r.to > day
          /\ s \in v2 /\ s.def = d /\ s.from <= day /\ s.to > day /\ day \in Nat
      BY DEF Aliases!ActiveOn, Aliases!RowsOf
    <3>2. r.from \in Nat /\ r.to \in Nat /\ s.from \in Nat /\ s.to \in Nat
      BY <3>1
    <3>3. ~(r.to <= s.from) /\ ~(s.to <= r.from)
      BY <3>1, <3>2
    <3> QED BY <3>1, <3>3 DEF Aliases!NamesAreApart
  <2>2. \A x, y \in Aliases!resolve_for_backtest(d, day) : x = y
    BY <2>1 DEF Aliases!resolve_for_backtest
  <2>3. d \in Timeless /\ Aliases!RowsOf(d) # {} => Aliases!ActiveOn(d, day) # {}
    BY DEF Aliases!NoGap
  <2> QED BY <2>2, <2>3, OneAtMost DEF Aliases!resolve_for_backtest
<1>2. Aliases!LatestIsLive
  <2> SUFFICES ASSUME NEW d \in Aliases!Defs, v4[d] # "none"
               PROVE  Aliases!_pick_active_alias(d, v1) = {v4[d]}
    BY DEF Aliases!LatestIsLive
  <2> DEFINE active == Aliases!ActiveOn(d, v1)
  <2>1. PICK r \in Aliases!RowsOf(d) :
           /\ r.to = Aliases!Open
           /\ \A o \in Aliases!RowsOf(d) : o.to = Aliases!Open => o.name = v4[d] /\ o.from <= r.from
    BY DEF Aliases!LatestIsOpen
  <2>2. \A o \in active : o \in Aliases!RowsOf(d) /\ o.to = Aliases!Open
    BY DEF Aliases!ActiveOn, Aliases!RowsOf, Aliases!RowsAreWritten
  <2>3. r \in active
    BY <2>1 DEF Aliases!ActiveOn, Aliases!RowsOf, Aliases!RowsAreWritten
  <2> HIDE DEF active
  <2>4. Aliases!_pick_active_alias(d, v1) = {s.name : s \in {t \in active : \A o \in active : o.from <= t.from}}
    BY DEF Aliases!_pick_active_alias, active
  <2> QED BY <2>1, <2>2, <2>3, <2>4
<1> QED BY <1>1, <1>2

\* For any definitions, names, clients and days: however bootstraps and qualifications of one
\* instrument interleave, an equity has exactly one name on every day and a future at most
\* one, a live start resolves the name registered last, no registration changes what an
\* earlier day resolved to (CloseOthers and OpenAlias write at today's date only), and one
\* bootstrap reports having created a definition (the advisory lock).
THEOREM NamesStayStable == Spec => NamesAreStable
<1> DEFINE Inv == part = "Aliases" => Aliases!SoundAliases
           Safe == part = "Aliases" => Aliases!WindowsTile /\ Aliases!LatestIsLive /\ Aliases!CreatedOnce
           Past == part = "Aliases" => Aliases!PastIsStable
<1>1. Init => Inv
  BY AliasInit DEF Init
<1>2. ASSUME [Next]_pool, part' = "Aliases"
      PROVE  part = "Aliases" /\ [Aliases!Next]_(Aliases!vars) /\ (Next => Aliases!Next)
  BY <1>2 DEF Next, pool, Rest4, Rest5, Aliases!vars
<1>3. Inv /\ [Next]_pool => Inv'
  BY <1>2, AliasActs
<1>4. Inv => Safe
  BY AliasesAreSafe
<1>5. Inv /\ [Next]_pool => [Past]_pool
  <2>1. ASSUME [Next]_pool PROVE part' = part
    BY <2>1 DEF Next, pool
  <2> QED BY <1>2, <2>1, AliasActs
<1> QED BY <1>1, <1>3, <1>4, <1>5, PTL DEF Spec, NamesAreStable
-----------------------------------------------------------------------------
(* The types of the parts.                                                  *)

LEMMA HealStaysTyped == Spec => [](part = "Heal" => Heal!TypeOK)
<1> DEFINE Inv == part = "Heal" => Heal!HealsAreAlone /\ v4 \in BOOLEAN
           Typed == part = "Heal" => Heal!TypeOK
<1>1. Init => Inv
  <2>1. Heal!Init => v4 \in BOOLEAN
    BY DEF Heal!Init
  <2> QED BY <2>1, HealStart DEF Init
<1>2. Inv /\ [Next]_pool => Inv'
  <2> SUFFICES ASSUME Inv, [Next]_pool, part' = "Heal" PROVE Heal!HealsAreAlone' /\ v4' \in BOOLEAN
    OBVIOUS
  <2>1. part = "Heal" /\ [Heal!Next]_(Heal!vars)
    BY DEF Next, pool, Rest4, Rest5, Rest6, Heal!vars
  <2>2. v4' \in {v4, TRUE}
    BY <2>1 DEF Heal!Next, Heal!vars, Heal!Guardrails, Heal!TryAcquire, Heal!EnqueueIngest, Heal!Swap,
       Heal!ReadHolder, Heal!Poll, Heal!Verify, Heal!Finally, Heal!Crash, Heal!IngestStep, Heal!ExpireLock
  <2> QED BY <2>1, <2>2, HealStep
<1>3. Inv => Typed
  <2> SUFFICES ASSUME Heal!HealsAreAlone, v4 \in BOOLEAN PROVE Heal!TypeOK
    OBVIOUS
  <2>1. /\ v1 \in Heal!LockType /\ v2 \in [Heals -> Heal!HealType]
        /\ v3 \in [Heals -> {Heal!None, "queued", "running", "ok", "error", "notFound"}]
    BY DEF Heal!HealsAreAlone, Heal!HealsAreTyped
  <2>2. \A b \in Heals : v2[b].waits \in Heals \cup {Heal!None}
    BY <2>1 DEF Heal!HealType
  <2> QED BY <2>1, <2>2 DEF Heal!TypeOK, Heal!LockType
<1> QED BY <1>1, <1>2, <1>3, PTL DEF Spec

LEMMA CatalogTypes ==
    ASSUME Catalog!SoundMarker, Catalog!TypeOK, Catalog!TodoExists, [Catalog!Next]_(Catalog!vars)
    PROVE  Catalog!TypeOK' /\ Catalog!TodoExists'
<1>1. /\ v1 \in [Files -> 0..MaxWrites] /\ v2 \subseteq Files \X (1..MaxWrites)
      /\ v3 \in [Files -> 0..MaxWrites] /\ v6 \in BOOLEAN /\ MaxWrites \in Nat \ {0}
      /\ \A b \in Builders : \A f \in v4[b].todo : v1[f] # 0
  BY CatalogAssumption DEF Catalog!TypeOK, Catalog!TodoExists
<1>2. v4 \in [Builders -> [pc : {"idle", "purge", "write"}, hash : [Files -> Nat], todo : SUBSET Files]]
  BY DEF Catalog!SoundMarker, Catalog!BuildsAreTyped
<1>3. Catalog!None \in [Files -> 0..MaxWrites]
  BY <1>1 DEF Catalog!None
<1>4. CASE UNCHANGED Catalog!vars
  BY <1>4 DEF Catalog!vars, Catalog!TypeOK, Catalog!TodoExists
<1>5. ASSUME NEW b \in Builders, Catalog!Begin(b) PROVE Catalog!TypeOK' /\ Catalog!TodoExists'
  <2>1. v1' = v1 /\ v2' = v2 /\ v3' \in {v3, Catalog!None} /\ v6' \in BOOLEAN
    BY <1>5 DEF Catalog!Begin, Catalog!Forced
  <2>2. v4' = v4 \/ \E p, h : v4' = [v4 EXCEPT ![b] = [pc |-> p, hash |-> h, todo |-> Catalog!Raw]]
    BY <1>5 DEF Catalog!Begin, Catalog!Forced
  <2>3. \A f \in Catalog!Raw : v1[f] # 0
    BY DEF Catalog!Raw
  <2>4. \A c \in Builders : v4'[c].todo \in {v4[c].todo, Catalog!Raw}
    BY <1>2, <2>2
  <2>5. Catalog!TodoExists'
    BY <1>1, <2>1, <2>3, <2>4 DEF Catalog!TodoExists
  <2> QED BY <1>1, <1>3, <2>1, <2>5 DEF Catalog!TypeOK
<1>6. ASSUME NEW b \in Builders, Catalog!Purge(b) \/ Catalog!Crash(b)
      PROVE  Catalog!TypeOK' /\ Catalog!TodoExists'
  <2>1. v1' = v1 /\ v2' \subseteq v2 /\ v3' = v3 /\ v6' = v6
    BY <1>6 DEF Catalog!Purge, Catalog!Crash
  <2>2. v4' = v4 \/ v4' = [v4 EXCEPT ![b].pc = "write"] \/ v4' = [v4 EXCEPT ![b] = Catalog!Idle]
    BY <1>6 DEF Catalog!Purge, Catalog!Crash
  <2>3. \A c \in Builders : v4'[c].todo \subseteq v4[c].todo
    BY <1>2, <2>2 DEF Catalog!Idle
  <2> QED BY <1>1, <2>1, <2>3 DEF Catalog!TypeOK, Catalog!TodoExists
<1>7. ASSUME NEW b \in Builders, Catalog!WriteData(b) PROVE Catalog!TypeOK' /\ Catalog!TodoExists'
  <2>1. PICK f \in v4[b].todo : v2' = v2 \cup {<<f, v1[f]>>} /\ v4' = [v4 EXCEPT ![b].todo = @ \ {f}]
    BY <1>7 DEF Catalog!WriteData
  <2>2. v1' = v1 /\ v3' = v3 /\ v6' = v6
    BY <1>7 DEF Catalog!WriteData
  <2>3. f \in Files
    BY <1>2
  <2>4. v1[f] \in 1..MaxWrites
    BY <1>1, <2>3
  <2>5. \A c \in Builders : v4'[c].todo \subseteq v4[c].todo
    BY <1>2, <2>1
  <2>6. v2' \subseteq Files \X (1..MaxWrites)
    BY <1>1, <2>1, <2>3, <2>4
  <2> QED BY <1>1, <2>2, <2>5, <2>6 DEF Catalog!TypeOK, Catalog!TodoExists
<1>8. ASSUME NEW b \in Builders, Catalog!SetMarker(b) PROVE Catalog!TypeOK' /\ Catalog!TodoExists'
  <2>1. v1' = v1 /\ v2' = v2 /\ v3' = v4[b].hash /\ v6' = v6 /\ v4' = [v4 EXCEPT ![b] = Catalog!Idle]
        /\ v4[b].pc = "write"
    BY <1>8 DEF Catalog!SetMarker, Catalog!HashOf
  <2>2. Catalog!Below(v4[b].hash, v1)
    BY <2>1 DEF Catalog!SoundMarker, Catalog!VersionsGrow, Catalog!Busy
  <2>3. v4[b].hash \in [Files -> Nat]
    BY <1>2
  <2>4. v3' \in [Files -> 0..MaxWrites]
    <3>1. \A f \in Files : v4[b].hash[f] \in 0..MaxWrites
      BY <1>1, <2>2, <2>3 DEF Catalog!Below
    <3> QED BY <2>1, <2>3, <3>1
  <2>5. \A c \in Builders : v4'[c].todo \subseteq v4[c].todo
    BY <1>2, <2>1 DEF Catalog!Idle
  <2> QED BY <1>1, <2>1, <2>4, <2>5 DEF Catalog!TypeOK, Catalog!TodoExists
<1>9. ASSUME NEW f \in Files, Catalog!WriteRaw(f) PROVE Catalog!TypeOK' /\ Catalog!TodoExists'
  <2>1. v1[f] < MaxWrites /\ v1' = [v1 EXCEPT ![f] = @ + 1] /\ v2' = v2 /\ v3' = v3 /\ v4' = v4 /\ v6' = v6
    BY <1>9 DEF Catalog!WriteRaw
  <2>2. v1[f] \in 0..MaxWrites
    BY <1>1
  <2>3. v1' \in [Files -> 0..MaxWrites]
    BY <1>1, <2>1, <2>2
  <2>4. \A g \in Files : v1[g] # 0 => v1'[g] # 0
    BY <1>1, <2>1, <2>2
  <2>5. \A b \in Builders : v4[b].todo \subseteq Files
    BY <1>2
  <2> QED BY <1>1, <2>1, <2>3, <2>4, <2>5 DEF Catalog!TypeOK, Catalog!TodoExists
<1> QED BY <1>4, <1>5, <1>6, <1>7, <1>8, <1>9 DEF Catalog!Next

LEMMA CatalogStaysTyped == Spec => [](part = "Catalog" => Catalog!TypeOK)
<1> DEFINE Inv == part = "Catalog" => Catalog!SoundMarker /\ Catalog!TypeOK /\ Catalog!TodoExists
           Typed == part = "Catalog" => Catalog!TypeOK
<1>1. Init => Inv
  <2> SUFFICES ASSUME Catalog!Init PROVE Catalog!TypeOK /\ Catalog!TodoExists
    BY CatalogInit DEF Init
  <2>1. /\ v1 \in [Files -> {0, 1}] /\ v2 = {} /\ v3 = [f \in Files |-> 0] /\ v6 = FALSE
        /\ v4 = [b \in Builders |-> Catalog!Idle] /\ Catalog!Idle.todo = {}
    BY DEF Catalog!Init, Catalog!None, Catalog!Idle
  <2>2. v1 \in [Files -> 0..MaxWrites] /\ v3 \in [Files -> 0..MaxWrites]
    BY <2>1, CatalogAssumption
  <2> QED BY <2>1, <2>2 DEF Catalog!TypeOK, Catalog!TodoExists
<1>2. Inv /\ [Next]_pool => Inv'
  <2> SUFFICES ASSUME Inv, [Next]_pool, part' = "Catalog"
               PROVE  Catalog!SoundMarker' /\ Catalog!TypeOK' /\ Catalog!TodoExists'
    OBVIOUS
  <2>1. part = "Catalog" /\ [Catalog!Next]_(Catalog!vars)
    BY DEF Next, pool, Rest4, Rest5, Rest6, Rest7, Catalog!vars
  <2> QED BY <2>1, CatalogStep, CatalogTypes
<1>3. Inv => Typed
  OBVIOUS
<1> QED BY <1>1, <1>2, <1>3, PTL DEF Spec

LEMMA AliasesStaysTyped == Spec => [](part = "Aliases" => Aliases!TypeOK)
<1> DEFINE Inv == part = "Aliases" => Aliases!SoundAliases
           Typed == part = "Aliases" => Aliases!TypeOK
<1>1. Init => Inv
  BY AliasInit DEF Init
<1>2. Inv /\ [Next]_pool => Inv'
  <2> SUFFICES ASSUME Inv, [Next]_pool, part' = "Aliases" PROVE Aliases!SoundAliases'
    OBVIOUS
  <2>1. part = "Aliases" /\ [Aliases!Next]_(Aliases!vars)
    BY DEF Next, pool, Rest4, Rest5, Aliases!vars
  <2> QED BY <2>1, AliasActs
<1>3. Inv => Typed
  BY DEF Aliases!SoundAliases
<1> QED BY <1>1, <1>2, <1>3, PTL DEF Spec
=============================================================================
