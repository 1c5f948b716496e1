----------------------------- MODULE FileProofs -----------------------------
(***************************************************************************)
(* Proofs about the watches of File objects and the answers of FileMgr's   *)
(* cache, for any sets of paths, Files and inodes and any time to live.    *)
(***************************************************************************)
EXTENDS FileMgr, FiniteSetTheorems, WellFoundedInduction, TLAPS

(* A File that does not exist holds no descriptor, so that a new one in    *)
(* its place loses none.                                                   *)
WatchInv ==
    /\ file \in [Files -> [alive : {"yes", "no"}, path : Paths \cup {None},
                           inotify : Wds \cup {None}]]
    /\ DOMAIN watches = Wds
    /\ \A f \in Files : IF file[f].alive = "no" THEN file[f].inotify = None
                                             ELSE file[f].path \in Paths
    /\ NoWatchLeak

(* The kernel drops watches and adds none, and no File changes. *)
Dropped ==
    /\ UNCHANGED <<file, replaced>>
    /\ DOMAIN watches' = Wds
    /\ \A w \in Wds : watches'[w] # None => watches[w] # None

(* A step that only drops watches keeps the invariant. *)
LEMMA DroppedKeeps ==
    ASSUME WatchInv, Dropped
    PROVE  WatchInv'
BY DEF WatchInv, Dropped, NoWatchLeak

(* Whatever happens to the disk does not add a watch. *)
LEMMA DiskDrops ==
    ASSUME WatchInv, NEW p \in Paths
    PROVE  /\ Unlink(p) => Dropped
           /\ \A q \in Paths : Rename(p, q) => Dropped
           /\ \A size \in Sizes : WriteFile(p, size) => Dropped
           /\ \A size \in Sizes, i \in Inodes : ReplaceFile(p, i, size) => Dropped
<1>1. ASSUME NEW stat, Becomes(p, stat) PROVE Dropped
  BY <1>1 DEF Becomes, Dropped, WatchInv
<1>2. ASSUME NEW q \in Paths, Rename(p, q) PROVE Dropped
  BY <1>2 DEF Rename, Dropped, WatchInv
<1> QED
  BY <1>1, <1>2 DEF Unlink, WriteFile, ReplaceFile

(* What inotify_add_watch makes of a table of watches: no other watch is   *)
(* added than the one that it returns.                                     *)
LEMMA AddedOnce ==
    ASSUME DOMAIN watches = Wds, NEW p \in Paths, NEW add \in Added(watches, p)
    PROVE  /\ add.wd \in Wds \cup {None}
           /\ DOMAIN add.watches = Wds
           /\ \A w \in Wds : add.watches[w] # watches[w] => w = add.wd
BY DEF Added

(* updateCache() notes the descriptor it puts another in place of. *)
LEMMA UpdateKeeps ==
    ASSUME WatchInv, NEW f \in Files, UpdateCache(f)
    PROVE  WatchInv'
<1> DEFINE held == file[f].inotify
<1>1. PICK add \in Added(watches, file[f].path) :
        /\ file' = [file EXCEPT ![f].inotify = add.wd]
        /\ watches' = add.watches
        /\ replaced' = replaced \cup ({held} \ {None, add.wd})
  BY Zenon DEF UpdateCache, Removed
<1>2. /\ add.wd \in Wds \cup {None}
      /\ DOMAIN watches' = Wds
      /\ \A w \in Wds : watches'[w] # watches[w] => w = add.wd
  BY <1>1, AddedOnce DEF WatchInv, UpdateCache
<1>3. /\ file'[f].inotify = add.wd
      /\ \A g \in Files \ {f} : file'[g] = file[g]
  BY <1>1 DEF WatchInv
<1>4. ASSUME NEW w \in Wds, watches'[w] # None
      PROVE  w \in replaced' \/ \E g \in Files : file'[g].inotify = w
  <2>1. CASE w = add.wd
    BY <2>1, <1>3
  <2>2. CASE w # add.wd
    <3>1. w # None
      BY FileAssumption DEF Wds
    <3>2. w \in replaced \/ \E g \in Files : file[g].inotify = w
      BY <2>2, <1>2, <1>4 DEF WatchInv, NoWatchLeak
    <3> QED
      BY <3>1, <3>2, <2>2, <1>1, <1>3
  <2> QED
    BY <2>1, <2>2
<1> QED
  BY <1>1, <1>2, <1>4 DEF WatchInv, UpdateCache, NoWatchLeak

(* clearCache() and ~File() remove the watch that their File holds. *)
LEMMA RemoveKeeps ==
    ASSUME WatchInv, NEW f \in Files, ClearCache(f) \/ DeleteFile(f)
    PROVE  WatchInv'
<1> DEFINE held == file[f].inotify
<1>1. /\ watches' = Removed(watches, held) /\ replaced' = replaced
      /\ \A g \in Files \ {f} : file'[g] = file[g]
  BY DEF ClearCache, DeleteFile, WatchInv
<1>2. /\ DOMAIN watches' = Wds
      /\ \A w \in Wds : watches'[w] # None => watches[w] # None /\ w # held
  BY <1>1, FileAssumption DEF Removed, WatchInv, Wds
<1>3. NoWatchLeak'
  BY <1>1, <1>2 DEF WatchInv, NoWatchLeak
<1> QED
  BY <1>2, <1>3 DEF WatchInv, ClearCache, DeleteFile, NoFile

(* File(path) begins without a watch. *)
LEMMA NewKeeps ==
    ASSUME WatchInv, NEW f \in Files, NEW p \in Paths, NewFile(f, p)
    PROVE  WatchInv'
<1>1. NoWatchLeak'
  BY FileAssumption DEF NewFile, WatchInv, NoWatchLeak, Wds
<1> QED
  BY <1>1 DEF NewFile, WatchInv

(* Every step of the files and of the cache keeps the invariant. *)
LEMMA StepKeeps == WatchInv /\ [Next]_vars => WatchInv'
<1> SUFFICES ASSUME WatchInv, [Next]_vars
             PROVE  WatchInv'
  OBVIOUS
<1>1. ASSUME FileNext PROVE WatchInv'
  <2>1. ASSUME NEW p \in Used, \/ Unlink(p)
                               \/ \E q \in Used : Rename(p, q)
                               \/ \E size \in Sizes :
                                     \/ WriteFile(p, size)
                                     \/ \E i \in Inodes : ReplaceFile(p, i, size)
        PROVE  WatchInv'
    <3>1. Used \subseteq Paths
      BY FileAssumption DEF Used
    <3> QED
      BY <2>1, <3>1, DiskDrops, DroppedKeeps
  <2>2. CASE Tick
    BY <2>2 DEF Tick, fvars, WatchInv, NoWatchLeak
  <2>3. ASSUME NEW f \in Files, (\E p \in Paths : NewFile(f, p)) \/ UpdateCache(f)
                                  \/ ClearCache(f) \/ DeleteFile(f)
        PROVE  WatchInv'
    BY <2>3, NewKeeps, UpdateKeeps, RemoveKeeps
  <2> QED
    BY <1>1, <2>1, <2>2, <2>3 DEF FileNext
<1>2. ASSUME UNCHANGED fvars PROVE WatchInv'
  BY <1>2 DEF fvars, WatchInv, NoWatchLeak
<1>3. ASSUME \/ \E p \in Cached : Get(p)
             \/ Send
             \/ UNCHANGED vars
      PROVE  UNCHANGED fvars
  BY <1>3 DEF Get, Send, vars
<1> QED
  BY <1>1, <1>2, <1>3 DEF Next

(* No sequence of updateCache(), clearCache() and destructors, on files    *)
(* that others write, rename and remove, leaves a watch in the kernel that *)
(* no File holds, except one that updateCache() put another in place of.   *)
THEOREM WatchesHeld == Spec => []NoWatchLeak
<1>1. Init => WatchInv
  BY FileAssumption DEF Init, FileInit, WatchInv, NoWatchLeak, NoFile
<1>2. WatchInv => NoWatchLeak
  BY DEF WatchInv
<1> QED
  BY <1>1, <1>2, StepKeeps, PTL DEF Spec
-----------------------------------------------------------------------------
(* An entry of the cache is as the file is, or the file was so when the    *)
(* entry was made, or later; that a path ceases to have a version is noted *)
(* for programs that use the cache.                                        *)
Entry(p) ==
    /\ user # "files"
    /\ cache[p].stat.version \in Versions
    /\ cache[p].cachedAt \in Int /\ cache[p].cachedAt <= now
    /\ \/ disk[p].version = cache[p].stat.version
       \/ ended[p][cache[p].stat.version] >= cache[p].cachedAt

FreshInv ==
    /\ now \in Int /\ IsFiniteSet(born)
    /\ DOMAIN disk = Paths /\ \A p \in Paths : disk[p].version \in Versions
    /\ ended \in [Paths -> [Versions -> Int]]
    /\ DOMAIN cache = Paths
    /\ \A p \in Paths : cache[p] # NoEntry => Entry(p)

(* A change of the disk ends a version now, no earlier than any entry. *)
LEMMA BecomesKeeps ==
    ASSUME FreshInv, NEW p \in Used, NEW stat, stat.version \in Versions,
           Becomes(p, stat), UNCHANGED mvars
    PROVE  FreshInv'
<1>1. p \in Paths /\ user \in {"cache", "files"}
  BY FileAssumption DEF Used
<1>2. /\ now' = now /\ user' = user /\ cache' = cache
      /\ disk' = [disk EXCEPT ![p] = stat]
  BY DEF Becomes, mvars
<1>3. IsFiniteSet(born')
  BY Zenon, FS_AddElement DEF Becomes, FreshInv
<1>4. /\ ended' \in [Paths -> [Versions -> Int]]
      /\ user = "cache" => ended' = [ended EXCEPT ![p][disk[p].version] = now]
  BY <1>1 DEF Becomes, FreshInv
<1>5. ASSUME NEW q \in Paths, cache'[q] # NoEntry
      PROVE  Entry(q)'
  <2>1. Entry(q) /\ user = "cache"
    BY <1>1, <1>2, <1>5 DEF FreshInv, Entry
  <2>2. CASE q # p
    BY <1>1, <1>2, <1>4, <2>1, <2>2 DEF Entry, FreshInv
  <2>3. CASE q = p
    BY <1>1, <1>2, <1>4, <2>1, <2>3 DEF Entry, FreshInv
  <2> QED
    BY <2>2, <2>3
<1> QED
  BY Zenon, <1>1, <1>2, <1>3, <1>4, <1>5 DEF FreshInv

(* query() keeps a valid entry, or makes one of the file as it is. *)
LEMMA GetKeeps ==
    ASSUME FreshInv, NEW p \in Paths, Get(p)
    PROVE  FreshInv'
<1>1. /\ UNCHANGED <<user, now, disk, ended, born>>
      /\ cache' = [cache EXCEPT ![p] = IF isValid(@) THEN @ ELSE FileInfo(p)]
      /\ user # "files"
  BY DEF Get, query, dvars
<1>2. ASSUME NEW q \in Paths, cache'[q] # NoEntry
      PROVE  Entry(q)'
  <2>1. CASE cache'[q] = cache[q]
    BY <1>1, <1>2, <2>1 DEF FreshInv, Entry
  <2>2. CASE q = p /\ cache'[q] = FileInfo(p)
    <3>1. FileInfo(p).stat = disk[p] /\ FileInfo(p).cachedAt = now
      BY DEF FileInfo
    <3> QED
      BY <1>1, <2>2, <3>1 DEF FreshInv, Entry
  <2> QED
    BY <1>1, <2>1, <2>2 DEF FreshInv
<1> QED
  BY <1>1, <1>2 DEF FreshInv

(* Every step of the files and of the cache keeps the entries honest. *)
LEMMA FreshKeeps == FreshInv /\ [Next]_vars => FreshInv'
<1> SUFFICES ASSUME FreshInv, [Next]_vars
             PROVE  FreshInv'
  OBVIOUS
<1>1. ASSUME UNCHANGED <<dvars, cache>> PROVE FreshInv'
  BY <1>1 DEF dvars, FreshInv, Entry
<1>2. ASSUME FileNext, UNCHANGED mvars PROVE FreshInv'
  <2>1. ASSUME NEW p \in Used, Unlink(p) PROVE FreshInv'
    <3>1. Missing.version \in Versions
      BY FileAssumption DEF Missing, Versions
    <3> QED
      BY <1>2, <2>1, <3>1, BecomesKeeps DEF Unlink
  <2>2. ASSUME NEW p \in Used, NEW q \in Used, Rename(p, q) PROVE FreshInv'
    <3>1. /\ user = "files" /\ p \in Paths /\ q \in Paths
          /\ disk' = [disk EXCEPT ![q] = disk[p], ![p] = Missing]
          /\ UNCHANGED <<user, now, ended, born, cache>>
      BY <1>2, <2>2, FileAssumption DEF Rename, Used, mvars
    <3>2. \A r \in Paths : disk'[r].version \in Versions
      <4>1. Missing.version \in Versions
        BY FileAssumption DEF Missing, Versions
      <4>2. ASSUME NEW r \in Paths PROVE disk'[r] \in {disk[r], disk[p], Missing}
        BY <3>1 DEF FreshInv
      <4> QED
        BY <3>1, <4>1, <4>2 DEF FreshInv
    <3> QED
      BY <3>1, <3>2 DEF FreshInv, Entry
  <2>3. ASSUME NewVersion <= MaxVersions PROVE NewVersion \in Versions
    BY <2>3, FS_CardinalityType, FileAssumption DEF NewVersion, Versions, FreshInv
  <2>4. ASSUME NEW p \in Used, NEW size, WriteFile(p, size) PROVE FreshInv'
    BY <1>2, <2>3, <2>4, BecomesKeeps DEF WriteFile
  <2>5. ASSUME NEW p \in Used, NEW i, NEW size, ReplaceFile(p, i, size) PROVE FreshInv'
    BY <1>2, <2>3, <2>5, BecomesKeeps DEF ReplaceFile
  <2>6. CASE Tick
    BY <1>2, <2>6 DEF Tick, mvars, FreshInv, Entry
  <2>7. ASSUME NEW f \in Files, (\E p \in Paths : NewFile(f, p)) \/ UpdateCache(f)
                                  \/ ClearCache(f) \/ DeleteFile(f)
        PROVE  FreshInv'
    BY <1>1, <1>2, <2>7 DEF NewFile, UpdateCache, ClearCache, DeleteFile, mvars
  <2> QED
    BY <1>2, <2>1, <2>2, <2>4, <2>5, <2>6, <2>7 DEF FileNext
<1>3. ASSUME NEW p \in Cached, Get(p) PROVE FreshInv'
  BY <1>3, GetKeeps, FileAssumption
<1>4. CASE Send \/ UNCHANGED vars
  BY <1>1, <1>4 DEF Send, vars, mvars
<1> QED
  BY <1>2, <1>3, <1>4 DEF Next

(* One answer of query() is true or was less than cacheTTL_ seconds ago. *)
LEMMA FreshAnswer ==
    ASSUME FreshInv, NEW p \in Paths, Get(p)
    PROVE  Recent(p, cache'[p].stat.version)
<1>1. cache'[p] = IF isValid(cache[p]) THEN cache[p] ELSE FileInfo(p)
  BY DEF Get, query, FreshInv
<1>2. CASE isValid(cache[p])
  <2>1. Entry(p) /\ cache[p].cachedAt + cacheTTL > now
    BY <1>2 DEF isValid, FreshInv
  <2> QED
    BY <1>1, <1>2, <2>1, CacheAssumption DEF Recent, Entry, FreshInv
<1>3. CASE ~isValid(cache[p])
  BY <1>1, <1>3 DEF FileInfo, Recent
<1> QED
  BY <1>2, <1>3

(* There is no entry at first. *)
LEMMA InitFresh == Init => FreshInv
  BY FS_EmptySet, FileAssumption DEF Init, FileInit, FreshInv, Missing, Versions

(* Whatever query() answers is true or was less than cacheTTL_ seconds     *)
(* ago, a cached answer and one that there is no such file included, for   *)
(* every time to live and whatever others do to the files.                 *)
THEOREM FreshAnswers == Spec => []FreshWithinTTL
<1>1. Init => FreshWithinTTL
  BY DEF Init, FreshWithinTTL
<1>2. FreshInv /\ FreshWithinTTL /\ [Next]_vars => FreshWithinTTL'
  <2> SUFFICES ASSUME FreshInv, FreshWithinTTL, [Next]_vars PROVE FreshWithinTTL'
    OBVIOUS
  <2>1. ASSUME NEW p \in Cached, Get(p) PROVE FreshWithinTTL'
    <3>1. Recent(p, cache'[p].stat.version) /\ UNCHANGED dvars
      BY <2>1, FreshAnswer, FileAssumption DEF Get
    <3>2. answer'.path = p /\ answer'.fi = cache'[p]
      BY <2>1 DEF Get
    <3> QED
      BY <3>1, <3>2 DEF FreshWithinTTL, Recent, dvars
  <2>2. CASE answer' = Silent
    BY <2>2 DEF FreshWithinTTL
  <2>3. CASE UNCHANGED vars
    BY <2>3 DEF FreshWithinTTL, Recent, vars, dvars
  <2> QED
    BY <2>1, <2>2, <2>3 DEF Next, Send
<1> QED
  BY <1>1, <1>2, InitFresh, FreshKeeps, PTL DEF Spec
-----------------------------------------------------------------------------
(* p has or had this stat. *)
Born(p, stat) == [path |-> p, stat |-> stat] \in born

(* Of two contents of a path the earlier one is gone, and the later one    *)
(* has not ceased to be there before.                                      *)
InTurn(b, c) ==
    b.path = c.path /\ b.stat.version < c.stat.version =>
        /\ disk[b.path].version # b.stat.version
        /\ \/ disk[b.path].version = c.stat.version
           \/ ended[b.path][b.stat.version] <= ended[b.path][c.stat.version]

(* What the disk had, in a program that uses the cache. *)
DiskInv ==
    user # "files" =>
        /\ \A b \in born : /\ b.path \in Paths /\ b.stat.version \in Versions
                           /\ b.stat.version \in 1..Cardinality(born)
        /\ \A p \in Paths, v \in Versions : ended[p][v] <= now
        /\ \A p \in Paths : disk[p] # Missing => Born(p, disk[p])
        /\ \A b, c \in born : InTurn(b, c)

(* An answer for p carries the entity tag of a stat that p had. *)
Tagged(p, fi) == Born(p, fi.stat) /\ fi.etag = make_etag(fi.stat)

(* A copy carries the entity tag of an earlier stat than its contents have, *)
(* or of the same.                                                          *)
CopyOf(p) ==
    \E b, c \in born : /\ b.path = p /\ c.path = p /\ b.stat.version <= c.stat.version
                       /\ copy[p].etag = make_etag(b.stat)
                       /\ copy[p].version = c.stat.version

TagInv ==
    user # "files" =>
        /\ \A p \in Paths : cache[p] # NoEntry /\ cache[p].stat # Missing => Tagged(p, cache[p])
        /\ sending # Idle => sending.path \in Paths /\ Tagged(sending.path, sending.fi)
        /\ DOMAIN copy = Paths /\ \A p \in Paths : copy[p] # NoCopy => CopyOf(p)

(* A change of the disk in a program that uses the cache: what was there   *)
(* ends now, and what comes has a version that nothing had.                *)
Changes ==
    \E p \in Paths : \E stat :
        /\ user = "cache" /\ Becomes(p, stat)
        /\ stat = Missing \/ stat.version = Cardinality(born) + 1
        /\ stat.version \in Versions

(* In a program that uses the cache, the disk changes so, or time passes,  *)
(* or nothing happens to the disk.                                         *)
LEMMA DiskStep ==
    ASSUME FreshInv, user # "files", [Next]_vars
    PROVE  \/ Changes /\ UNCHANGED mvars
           \/ now' \in Int /\ now' >= now /\ UNCHANGED <<user, disk, ended, born, mvars>>
           \/ UNCHANGED dvars
<1>1. CASE UNCHANGED vars
    BY <1>1 DEF vars
<1>2. ASSUME NEW p \in Cached, Get(p) PROVE UNCHANGED dvars
    BY <1>2 DEF Get
<1>3. CASE Send
    BY <1>3 DEF Send
<1>4. ASSUME FileNext, UNCHANGED mvars
      PROVE  \/ Changes \/ UNCHANGED dvars
             \/ now' \in Int /\ now' >= now /\ UNCHANGED <<user, disk, ended, born>>
  <2>1. ASSUME NEW p \in Used PROVE p \in Paths /\ user = "cache"
      BY <2>1, FileAssumption DEF Used
  <2>2. Missing.version \in Versions
      BY FileAssumption DEF Missing, Versions
  <2>3. ASSUME user = "cache", NewVersion <= MaxVersions
        PROVE  NewVersion \in Versions /\ NewVersion = Cardinality(born) + 1
      BY <2>3, FS_CardinalityType, FileAssumption DEF NewVersion, Versions, FreshInv
  <2>4. ASSUME NEW p \in Used, Unlink(p) PROVE Changes
      BY <2>1, <2>2, <2>4 DEF Unlink, Changes
  <2>5. ASSUME NEW p \in Used, NEW q \in Used, Rename(p, q) PROVE FALSE
      BY <2>1, <2>5 DEF Rename
  <2>6. ASSUME NEW p \in Used, NEW size, WriteFile(p, size) PROVE Changes
      BY <2>1, <2>3, <2>6 DEF WriteFile, Changes
  <2>7. ASSUME NEW p \in Used, NEW i, NEW size, ReplaceFile(p, i, size) PROVE Changes
      BY <2>1, <2>3, <2>7 DEF ReplaceFile, Changes
  <2>8. CASE Tick
      BY <2>8 DEF Tick, FreshInv
  <2>9. ASSUME NEW f \in Files, (\E p \in Paths : NewFile(f, p)) \/ UpdateCache(f)
                                  \/ ClearCache(f) \/ DeleteFile(f)
        PROVE  UNCHANGED dvars
      BY <2>9 DEF NewFile, UpdateCache, ClearCache, DeleteFile
  <2> QED
      BY <1>4, <2>4, <2>5, <2>6, <2>7, <2>8, <2>9 DEF FileNext
<1> QED
    BY <1>1, <1>2, <1>3, <1>4 DEF Next

(* What a change of the disk does to the history. *)
LEMMA ChangesIs ==
    ASSUME FreshInv, Changes
    PROVE  \E p \in Paths :
             /\ user = "cache" /\ UNCHANGED <<user, now>>
             /\ \A q \in Paths : q # p => disk'[q] = disk[q] /\ ended'[q] = ended[q]
             /\ \A v \in Versions : ended'[p][v] = IF v = disk[p].version THEN now ELSE ended[p][v]
             /\ \/ disk'[p] = Missing /\ born' = born
                \/ /\ disk'[p].version = Cardinality(born) + 1 /\ disk'[p].version \in Versions
                   /\ born' = born \cup {[path |-> p, stat |-> disk'[p]]}
                   /\ Cardinality(born') = Cardinality(born) + 1
                      \/ [path |-> p, stat |-> disk'[p]] \in born
<1>1. PICK p \in Paths : \E stat : /\ user = "cache" /\ Becomes(p, stat)
                                   /\ stat = Missing \/ stat.version = Cardinality(born) + 1
                                   /\ stat.version \in Versions
    BY DEF Changes
<1>2. PICK stat : /\ user = "cache" /\ Becomes(p, stat)
                  /\ stat = Missing \/ stat.version = Cardinality(born) + 1
                  /\ stat.version \in Versions
    BY <1>1
<1>3. /\ disk' = [disk EXCEPT ![p] = stat] /\ UNCHANGED <<user, now>>
      /\ ended' = [ended EXCEPT ![p][disk[p].version] = now]
      /\ born' = IF stat = Missing THEN born ELSE born \cup {[path |-> p, stat |-> stat]}
    BY <1>2 DEF Becomes
<1>4. disk'[p] = stat /\ \A q \in Paths : q # p => disk'[q] = disk[q] /\ ended'[q] = ended[q]
    BY <1>3 DEF FreshInv
<1>5. \A v \in Versions : ended'[p][v] = IF v = disk[p].version THEN now ELSE ended[p][v]
    BY <1>3 DEF FreshInv
<1>6. CASE stat = Missing
    BY Zenon, <1>2, <1>3, <1>4, <1>5, <1>6
<1>7. CASE stat # Missing
  <2>1. IsFiniteSet(born)
      BY DEF FreshInv
  <2>2. /\ born' = born \cup {[path |-> p, stat |-> stat]}
        /\ [path |-> p, stat |-> stat] \notin born => Cardinality(born') = Cardinality(born) + 1
      BY Zenon, <1>3, <1>7, <2>1, FS_AddElement
  <2> QED
      BY Zenon, <1>2, <1>3, <1>4, <1>5, <1>7, <2>2
<1> QED
    BY <1>6, <1>7

(* The history of the disk stays in order. *)
LEMMA ChangesKeep == ASSUME FreshInv, DiskInv, Changes PROVE DiskInv'
<1>1. PICK p \in Paths :
             /\ user = "cache" /\ UNCHANGED <<user, now>>
             /\ \A q \in Paths : q # p => disk'[q] = disk[q] /\ ended'[q] = ended[q]
             /\ \A v \in Versions : ended'[p][v] = IF v = disk[p].version THEN now ELSE ended[p][v]
             /\ \/ disk'[p] = Missing /\ born' = born
                \/ /\ disk'[p].version = Cardinality(born) + 1 /\ disk'[p].version \in Versions
                   /\ born' = born \cup {[path |-> p, stat |-> disk'[p]]}
                   /\ Cardinality(born') = Cardinality(born) + 1
                      \/ [path |-> p, stat |-> disk'[p]] \in born
    BY ChangesIs
<1> DEFINE card == Cardinality(born)
           last == [path |-> p, stat |-> disk'[p]]
<1>2. /\ card \in Nat /\ now \in Int /\ DOMAIN disk = Paths
      /\ \A q \in Paths : disk[q].version \in Versions
      /\ \A q \in Paths, v \in Versions : ended[q][v] \in Int
    BY FS_CardinalityType DEF FreshInv
<1>3. /\ \A b \in born : b.path \in Paths /\ b.stat.version \in Versions /\ b.stat.version \in 1..card
      /\ \A q \in Paths, v \in Versions : ended[q][v] <= now
      /\ \A q \in Paths : disk[q] # Missing => Born(q, disk[q])
      /\ \A b, c \in born : InTurn(b, c)
    BY <1>1 DEF DiskInv
<1>4. Versions \subseteq Nat /\ Missing.version = 0
    BY DEF Versions, Missing
<1>5. last.path = p /\ last.stat = disk'[p]
    OBVIOUS
<1> HIDE DEF card, last
<1>6. \/ disk'[p] = Missing /\ born' = born
      \/ /\ last.stat.version = card + 1 /\ last.stat.version \in Versions
         /\ born' = born \cup {last} /\ last \notin born /\ Cardinality(born') = card + 1
  <2>1. last.stat.version = card + 1 => last \notin born
      BY <1>2, <1>3
  <2> QED
      BY <1>1, <1>5, <2>1 DEF card, last
<1>7. \A b \in born' : /\ b.path \in Paths /\ b.stat.version \in Versions
                       /\ b.stat.version \in 1..Cardinality(born')
  <2>1. CASE born' = born
      BY <1>3, <2>1 DEF card
  <2>2. CASE born' = born \cup {last} /\ Cardinality(born') = card + 1
               /\ last.stat.version = card + 1 /\ last.stat.version \in Versions
    <3>1. 1..card \subseteq 1..(card + 1) /\ card + 1 \in 1..(card + 1)
        BY <1>2
    <3> QED
        BY <1>3, <1>5, <2>2, <3>1
  <2> QED
      BY <1>6, <2>1, <2>2
<1>8. ASSUME NEW q \in Paths, NEW v \in Versions PROVE ended'[q][v] <= now'
    BY <1>1, <1>2, <1>3
<1>9. ASSUME NEW q \in Paths, disk'[q] # Missing 
      PROVE  [path |-> q, stat |-> disk'[q]] \in born'
  <2>1. CASE q = p
      BY <1>6, <1>9, <2>1 DEF Born, last
  <2>2. CASE q # p
      BY <1>1, <1>3, <1>6, <1>9, <2>2 DEF Born
  <2> QED
      BY <2>1, <2>2
<1>10. ASSUME NEW b \in born', NEW c \in born', b.path = c.path, b.stat.version < c.stat.version
       PROVE  /\ disk'[b.path].version # b.stat.version
              /\ \/ disk'[b.path].version = c.stat.version
                 \/ ended'[b.path][b.stat.version] <= ended'[b.path][c.stat.version]
  <2>1. b \in born
      BY <1>2, <1>3, <1>6, <1>7, <1>10
  <2> DEFINE u == b.stat.version
             w == c.stat.version
  <2>2. /\ u \in Versions /\ w \in Versions /\ u \in 1..card /\ u < w /\ b.path \in Paths
        /\ u \in Nat
      BY SMTT(20), <1>3, <1>4, <1>7, <1>10, <2>1
  <2>3. CASE b.path # p
    <3>1. c \in born
        BY <1>5, <1>6, <1>10, <2>3
    <3> QED
        BY <1>1, <1>3, <1>10, <2>1, <2>2, <2>3, <3>1 DEF InTurn
  <2>4. CASE b.path = p
    <3>1. disk'[p].version # u
        BY <1>2, <1>4, <1>5, <1>6, <2>2
    <3>2. CASE c = last
        BY <1>5, <2>4, <3>1, <3>2
    <3>3. CASE c \in born
      <4>1. /\ disk[p].version # u
            /\ disk[p].version = w \/ ended[p][u] <= ended[p][w]
          BY Zenon, <1>3, <1>10, <2>1, <2>4, <3>3 DEF InTurn
      <4>2. ended'[p][u] = ended[p][u] /\ ended[p][u] <= now
          BY SMTT(20), <1>1, <1>3, <2>2, <4>1
      <4>3. ended'[p][w] = IF w = disk[p].version THEN now ELSE ended[p][w]
          BY <1>1, <2>2
      <4> QED
          BY <2>4, <3>1, <4>1, <4>2, <4>3
    <3> QED
        BY <1>6, <1>10, <3>2, <3>3
  <2> QED
      BY <2>3, <2>4
<1> QED
    BY <1>7, <1>8, <1>9, <1>10 DEF DiskInv, InTurn, Born

(* Every step keeps the history of the disk in order. *)
LEMMA DiskKeeps == FreshInv /\ DiskInv /\ [Next]_vars => DiskInv' /\ user' = user
<1> SUFFICES ASSUME FreshInv, DiskInv, [Next]_vars PROVE DiskInv' /\ user' = user
    BY SMTT(20)
<1>1. user' = user
    BY DEF Next, vars, dvars, FileNext, Unlink, Rename, WriteFile, ReplaceFile, Becomes, Tick,
           NewFile, UpdateCache, ClearCache, DeleteFile, Get, Send
<1>2. CASE user = "files"
    BY <1>1, <1>2 DEF DiskInv
<1>3. CASE user # "files"
  <2>1. CASE Changes
      BY <1>1, <2>1, ChangesKeep
  <2>2. CASE now' \in Int /\ now' >= now /\ UNCHANGED <<user, disk, ended, born>>
    <3>1. \A p \in Paths, v \in Versions : ended[p][v] \in Int /\ now \in Int
        BY DEF FreshInv
    <3> QED
        BY <1>3, <2>2, <3>1 DEF DiskInv, InTurn, Born
  <2>3. CASE UNCHANGED dvars
      BY <1>3, <2>3 DEF DiskInv, InTurn, Born, dvars
  <2> QED
      BY <1>3, <2>1, <2>2, <2>3, DiskStep
<1> QED
    BY <1>1, <1>2, <1>3

(* A change of the disk takes nothing from the history. *)
LEMMA BornStays ==
    ASSUME FreshInv, user # "files", [Next]_vars
    PROVE  born \subseteq born'
<1>1. CASE Changes
    BY Zenon, <1>1, ChangesIs
<1> QED
    BY <1>1, DiskStep DEF dvars

(* query() answers with the tag of a stat that the file had. *)
LEMMA GetTags ==
    ASSUME FreshInv, DiskInv, TagInv, NEW p \in Paths, Get(p), cache'[p].stat # Missing
    PROVE  Tagged(p, cache'[p])
<1>1. cache'[p] = IF isValid(cache[p]) THEN cache[p] ELSE FileInfo(p)
    BY DEF Get, query, FreshInv
<1>2. user # "files"
    BY DEF Get, query
<1>3. CASE isValid(cache[p])
    BY SMTT(20), <1>1, <1>2, <1>3 DEF isValid, TagInv
<1>4. CASE ~isValid(cache[p])
    BY <1>1, <1>2, <1>4 DEF FileInfo, DiskInv, Tagged
<1> QED
    BY <1>3, <1>4

(* Every step keeps the tags those of what the files had: the tag of a     *)
(* response was made from the stat that query() knew, which is no later    *)
(* than the contents that are sent.                                        *)
LEMMA TagKeeps == FreshInv /\ DiskInv /\ TagInv /\ [Next]_vars => TagInv'
<1> SUFFICES ASSUME FreshInv, DiskInv, TagInv, [Next]_vars, user' # "files" PROVE TagInv'
    BY DEF TagInv
<1>1. user # "files" /\ user' = user /\ born \subseteq born'
    BY DiskKeeps, BornStays
<1>2. tagged' = tagged
    BY DEF Next, vars, mvars, Get, Send
<1>3. ASSUME NEW p, NEW fi, Tagged(p, fi)
      PROVE  [path |-> p, stat |-> fi.stat] \in born' /\ fi.etag = make_etag(fi.stat)'
    BY <1>1, <1>2, <1>3 DEF Tagged, Born, make_etag
<1>4. ASSUME NEW p \in Paths, CopyOf(p), copy'[p] = copy[p] PROVE CopyOf(p)'
    BY Zenon, <1>1, <1>2, <1>4 DEF CopyOf, make_etag
<1>5. CASE UNCHANGED mvars
    BY SMTT(20), <1>1, <1>3, <1>4, <1>5 DEF TagInv, Tagged, Born, mvars
<1>6. ASSUME NEW p \in Paths, Get(p) PROVE TagInv'
  <2>1. /\ copy' = copy /\ \A q \in Paths \ {p} : cache'[q] = cache[q]
        /\ \/ sending' = sending
           \/ sending' = [path |-> p, fi |-> cache'[p]] /\ cache'[p].stat # Missing
      BY <1>6 DEF Get, query, FreshInv
  <2>2. cache'[p].stat # Missing => Tagged(p, cache'[p])
      BY <1>6, GetTags
  <2>3. ASSUME NEW q \in Paths, cache'[q] # NoEntry, cache'[q].stat # Missing
        PROVE  Tagged(q, cache'[q])
      BY <1>1, <2>1, <2>2, <2>3 DEF TagInv
  <2>4. sending' # Idle => sending'.path \in Paths /\ Tagged(sending'.path, sending'.fi)
      BY SMTT(20), <1>1, <2>1, <2>2 DEF TagInv
  <2> QED
      BY Zenon, <1>1, <1>3, <1>4, <2>1, <2>3, <2>4 DEF TagInv, Tagged, Born
<1>7. CASE Send
  <2>1. PICK p : p = sending.path
      OBVIOUS
  <2>2. PICK fi : fi = sending.fi
      OBVIOUS
  <2>3. /\ sending # Idle /\ sending' = Idle /\ cache' = cache /\ UNCHANGED dvars
        /\ copy' = IF disk[p] = Missing THEN copy
                   ELSE [copy EXCEPT ![p] = [etag |-> fi.etag, version |-> disk[p].version]]
      BY <1>7, <2>1, <2>2 DEF Send
  <2>4. p \in Paths /\ Tagged(p, fi) /\ DOMAIN copy = Paths
      BY <1>1, <2>1, <2>2, <2>3 DEF TagInv
  <2>5. ASSUME disk[p] # Missing PROVE CopyOf(p)'
    <3>0. PICK b \in born : b.path = p /\ b.stat = fi.stat
        BY <2>4 DEF Tagged, Born
    <3>1. PICK c \in born : c.path = p /\ c.stat = disk[p]
        BY Zenon, <1>1, <2>4, <2>5 DEF Born, DiskInv
    <3>2. b.stat.version \in Nat /\ c.stat.version \in Nat
        BY <1>1 DEF DiskInv, Versions
    <3>3. InTurn(c, b)
        BY <1>1 DEF DiskInv
    <3>4. b.stat.version <= c.stat.version
        BY <3>0, <3>1, <3>2, <3>3 DEF InTurn
    <3>5. copy'[p].etag = fi.etag /\ copy'[p].version = disk[p].version
        BY <2>3, <2>4, <2>5
    <3>6. copy'[p].etag = make_etag(b.stat)' /\ copy'[p].version = c.stat.version
        BY Zenon, <1>3, <2>4, <3>0, <3>1, <3>5
    <3> QED
        BY <1>1, <3>0, <3>1, <3>4, <3>6 DEF CopyOf
  <2>6. ASSUME NEW q \in Paths, copy'[q] # NoCopy PROVE CopyOf(q)'
    <3>1. CASE copy'[q] = copy[q]
        BY <1>1, <1>4, <2>6, <3>1 DEF TagInv
    <3>2. CASE copy'[q] # copy[q]
      <4>1. q = p /\ disk[p] # Missing
          BY <2>3, <2>4, <3>2
      <4> QED
          BY <2>5, <4>1
    <3> QED
        BY <3>1, <3>2
  <2>7. DOMAIN copy' = Paths
      BY <2>3, <2>4
  <2> QED
      BY <1>1, <1>3, <2>3, <2>6, <2>7 DEF TagInv, Tagged, Born
<1> QED
    BY SMTT(20), <1>5, <1>6, <1>7, FileAssumption DEF Next, vars

(* A copy that its entity tag confirms is as recent as an answer of        *)
(* query(), unless the tag stood for two contents: the tag may be older    *)
(* than the contents that were sent with it, never younger, so a match     *)
(* with a fresh answer means that the contents were there no earlier.      *)
THEOREM ConfirmedIsRecent == Spec => []Revalidated
<1>1. Init => FreshInv /\ DiskInv /\ TagInv
  <2>1. Init => DiskInv
      BY DEF Init, FileInit, DiskInv, Born
  <2>2. Init => TagInv
      BY DEF Init, TagInv
  <2> QED
      BY <2>1, <2>2, InitFresh
<1>2. ASSUME FreshInv, DiskInv, TagInv, NEW p \in Paths, Get(p), Confirms(p, cache'[p]),
             ~Ambiguous(p)
      PROVE  Recent(p, copy[p].version)
  <2>1. user # "files" /\ copy[p] # NoCopy /\ cache'[p].stat # Missing
        /\ copy[p].etag = cache'[p].etag
      BY SMTT(20), <1>2 DEF Get, query, Confirms
  <2> DEFINE e == [path |-> p, stat |-> cache'[p].stat]
  <2>2. e \in born /\ cache'[p].etag = make_etag(e.stat)
      BY SMTT(20), <1>2, <2>1, GetTags DEF Tagged, Born
  <2>3. PICK b \in born, c \in born :
          /\ b.path = p /\ c.path = p /\ b.stat.version <= c.stat.version
          /\ copy[p].etag = make_etag(b.stat) /\ copy[p].version = c.stat.version
      BY <1>2, <2>1 DEF TagInv, CopyOf
  <2>4. b = e
      BY <1>2, <2>1, <2>2, <2>3 DEF Ambiguous
  <2>5. Recent(p, b.stat.version)
      BY <1>2, <2>4, FreshAnswer
  <2>6. /\ b.stat.version \in Nat /\ c.stat.version \in Nat
        /\ ended[p][b.stat.version] \in Int /\ ended[p][c.stat.version] \in Int /\ now \in Int
    <3>1. b.stat.version \in Versions /\ c.stat.version \in Versions
        BY <1>2, <2>1 DEF DiskInv
    <3>2. now \in Int /\ \A v \in Versions : v \in Nat /\ ended[p][v] \in Int
      <4>1. Versions \subseteq Nat
          BY DEF Versions
      <4> QED
          BY Zenon, <1>2, <4>1 DEF FreshInv
    <3> QED
        BY <3>1, <3>2
  <2>7. InTurn(b, c)
      BY <1>2, <2>1 DEF DiskInv
  <2>8. CASE b.stat.version = c.stat.version
      BY <2>3, <2>5, <2>8
  <2>9. CASE b.stat.version < c.stat.version
    <3>1. cacheTTL \in Nat
        BY CacheAssumption
    <3> QED
        BY <2>3, <2>5, <2>6, <2>7, <2>9, <3>1 DEF Recent, InTurn
  <2> QED
      BY <2>3, <2>6, <2>8, <2>9
<1>3. Init => Revalidated
    BY SMTT(20) DEF Init, Revalidated, Silent
<1>4. FreshInv /\ DiskInv /\ TagInv /\ Revalidated /\ [Next]_vars => Revalidated'
  <2> SUFFICES ASSUME FreshInv, DiskInv, TagInv, Revalidated, [Next]_vars,
                      (answer.confirmed = "yes" /\ ~Ambiguous(answer.path))'
               PROVE  Recent(answer.path, copy[answer.path].version)'
      BY DEF Revalidated
  <2>1. ASSUME NEW p \in Cached, Get(p)
        PROVE  Recent(answer.path, copy[answer.path].version)'
    <3>1. /\ p \in Paths /\ UNCHANGED <<dvars, tagged, copy>>
          /\ answer'.path = p /\ Confirms(p, cache'[p])
        BY <2>1, FileAssumption DEF Get
    <3>2. Ambiguous(p)' = Ambiguous(p) /\ Recent(p, copy[p].version)' = Recent(p, copy[p].version)
        BY <3>1 DEF Ambiguous, make_etag, Recent, dvars
    <3> QED
        BY <1>2, <2>1, <3>1, <3>2
  <2>2. CASE answer' = Silent
      BY SMTT(20), <2>2 DEF Silent
  <2>3. CASE UNCHANGED vars
      BY Zenon, <2>3 DEF Revalidated, Ambiguous, make_etag, Recent, vars, dvars, mvars
  <2> QED
      BY <2>1, <2>2, <2>3 DEF Next, Send
<1> QED
    BY <1>1, <1>3, <1>4, FreshKeeps, DiskKeeps, TagKeeps, PTL DEF Spec
-----------------------------------------------------------------------------
(* Every set of natural numbers that is not empty has a least element, so  *)
(* that a statement about all numbers holds if it has no least exception.  *)
LEMMA LeastElement ==
    ASSUME NEW T, T \subseteq Nat, T # {}
    PROVE  \E m \in T : \A n \in T : m <= n
<1> DEFINE R == {p \in Nat \X Nat : p[1] < p[2]}
<1>1. R = OpToRel(<, Nat)
    BY DEF OpToRel
<1>2. IsWellFoundedOn(R, Nat)
    BY <1>1, NatLessThanWellFounded
<1>3. \E x \in T : \A y \in T : <<y, x>> \notin R
    BY Zenon, <1>2, WFMin
<1>4. ASSUME NEW x \in T, NEW y \in T, <<y, x>> \notin R PROVE x <= y
    BY <1>4
<1> QED
    BY Zenon, <1>3, <1>4

(* The places where the extension may end: what follows are tildes up to   *)
(* place k, and what precedes is listed.                                   *)
Ends(ext, k) == {n \in 1..k : /\ \A i \in (n + 1)..k : ext[i] = "~"
                              /\ SubSeq(ext, 1, n) \in MimeTypes}

(* The longest of them. *)
Greatest(S) == CHOOSE n \in S : \A m \in S : m <= n

(* The type that the first k characters of the extension have. *)
TypeUpTo(ext, k) == IF Ends(ext, k) = {} THEN <<>> ELSE SubSeq(ext, 1, Greatest(Ends(ext, k)))

(* A place more: it is an end itself, or it has to be a tilde. *)
LEMMA EndsStep ==
    ASSUME NEW ext, NEW k \in Nat \ {0}
    PROVE  /\ SubSeq(ext, 1, k) \in MimeTypes => k \in Ends(ext, k)
           /\ SubSeq(ext, 1, k) \notin MimeTypes /\ ext[k] # "~" => Ends(ext, k) = {}
           /\ SubSeq(ext, 1, k) \notin MimeTypes /\ ext[k] = "~" => Ends(ext, k) = Ends(ext, k - 1)
<1>1. k \in 1..k /\ (k + 1)..k = {}
    OBVIOUS
<1>2. SubSeq(ext, 1, k) \in MimeTypes => k \in Ends(ext, k)
    BY <1>1 DEF Ends
<1>3. ASSUME SubSeq(ext, 1, k) \notin MimeTypes, ext[k] # "~", NEW n \in Ends(ext, k) PROVE FALSE
  <2>1. n \in 1..k /\ n # k
      BY <1>3 DEF Ends
  <2>2. k \in (n + 1)..k
      BY <2>1
  <2> QED
      BY <1>3, <2>2 DEF Ends
<1>4. ASSUME SubSeq(ext, 1, k) \notin MimeTypes, ext[k] = "~" PROVE Ends(ext, k) = Ends(ext, k - 1)
  <2>1. ASSUME NEW n \in Ends(ext, k) PROVE n \in Ends(ext, k - 1)
    <3>1. n \in 1..(k - 1) /\ (n + 1)..(k - 1) \subseteq (n + 1)..k
        BY <1>4, <2>1 DEF Ends
    <3> QED
        BY <2>1, <3>1 DEF Ends
  <2>2. ASSUME NEW n \in Ends(ext, k - 1) PROVE n \in Ends(ext, k)
    <3>1. n \in 1..k /\ \A i \in (n + 1)..k : i \in (n + 1)..(k - 1) \/ i = k
        BY <2>2 DEF Ends
    <3> QED
        BY <1>4, <2>2, <3>1 DEF Ends
  <2> QED
      BY <2>1, <2>2
<1> QED
    BY <1>2, <1>3, <1>4

(* So the type is what one iteration of get_mimetype() makes of the type   *)
(* of one character less.                                                  *)
LEMMA TypeUpToStep ==
    ASSUME NEW ext, NEW k \in Nat
    PROVE  TypeUpTo(ext, k) =
              IF k = 0 THEN <<>>
              ELSE IF SubSeq(ext, 1, k) \in MimeTypes THEN SubSeq(ext, 1, k)
              ELSE IF ext[k] # "~" THEN <<>>
              ELSE TypeUpTo(ext, k - 1)
<1>1. CASE k = 0
    BY <1>1 DEF TypeUpTo, Ends
<1>2. CASE k # 0 /\ SubSeq(ext, 1, k) \in MimeTypes
  <2>1. k \in Ends(ext, k) /\ Ends(ext, k) # {}
      BY <1>2, EndsStep
  <2>2. \A n \in Ends(ext, k) : n \in Int /\ n <= k
      BY DEF Ends
  <2>3. Greatest(Ends(ext, k)) \in Ends(ext, k) /\ k <= Greatest(Ends(ext, k))
      BY <2>1, <2>2 DEF Greatest
  <2>4. Greatest(Ends(ext, k)) = k
      BY <2>2, <2>3
  <2> QED
      BY <1>2, <2>1, <2>4 DEF TypeUpTo
<1>3. CASE k # 0 /\ SubSeq(ext, 1, k) \notin MimeTypes
  <2>1. CASE ext[k] # "~"
      BY <1>3, <2>1, EndsStep DEF TypeUpTo
  <2>2. CASE ext[k] = "~"
    <3>1. Ends(ext, k) = Ends(ext, k - 1)
        BY <1>3, <2>2, EndsStep
    <3>2. TypeUpTo(ext, k) = TypeUpTo(ext, k - 1)
        BY <3>1 DEF TypeUpTo
    <3> QED
        BY <1>3, <2>2, <3>2
  <2> QED
      BY <2>1, <2>2
<1> QED
    BY <1>1, <1>2, <1>3

(* get_mimetype() computes it: the loop is a function of the place it has  *)
(* reached, and two such functions differ at no least place.               *)
LEMMA MimetypeIs ==
    ASSUME NEW n, Len(n.ext) \in Nat
    PROVE  get_mimetype(n) = IF n.slash = "yes" THEN TypeUpTo(n.ext, Len(n.ext)) ELSE <<>>
<1> DEFINE L == Len(n.ext)
           Step(f, k) == IF k = 0 THEN <<>>
                         ELSE IF SubSeq(n.ext, 1, k) \in MimeTypes THEN SubSeq(n.ext, 1, k)
                         ELSE IF n.ext[k] # "~" THEN <<>>
                         ELSE f[k - 1]
           Is(f) == f = [k \in 0..L |-> Step(f, k)]
           g == [k \in 0..L |-> TypeUpTo(n.ext, k)]
<1>1. Is(g)
  <2>1. ASSUME NEW k \in 0..L PROVE TypeUpTo(n.ext, k) = Step(g, k)
    <3>1. k = 0 \/ g[k - 1] = TypeUpTo(n.ext, k - 1)
        OBVIOUS
    <3>2. k \in Nat
        OBVIOUS
    <3> QED
        BY Zenon, <3>1, <3>2, TypeUpToStep
  <2> QED
      BY <2>1
<1>2. ASSUME NEW f, Is(f) PROVE f[L] = TypeUpTo(n.ext, L)
  <2> DEFINE T == {k \in 0..L : f[k] # TypeUpTo(n.ext, k)}
  <2>1. ASSUME T # {} PROVE FALSE
    <3>1. PICK m \in T : \A k \in T : m <= k
      <4>1. T \subseteq Nat
          OBVIOUS
      <4> QED
          BY Zenon, <2>1, <4>1, LeastElement
    <3>2. m \in 0..L /\ f[m] # TypeUpTo(n.ext, m) /\ f[m] = Step(f, m)
        BY Zenon, <1>2
    <3>3. m = 0 \/ (m - 1 \in 0..L /\ f[m - 1] = TypeUpTo(n.ext, m - 1))
        BY <3>1, <3>2
    <3>4. m \in Nat
        BY <3>2
    <3> QED
        BY Zenon, <3>2, <3>3, <3>4, TypeUpToStep
  <2> QED
      BY <2>1
<1>3. get_mimetype(n) = IF n.slash = "yes" THEN (CHOOSE f : Is(f))[L] ELSE <<>>
    BY DEF get_mimetype
<1>4. Is(CHOOSE f : Is(f))
  <2> HIDE DEF Is
  <2> QED
      BY <1>1
<1> HIDE DEF Is
<1> QED
    BY <1>2, <1>3, <1>4
(* An entry has the type that the name had when the entry was made, and no *)
(* name changes.                                                           *)
MimeInv ==
    /\ name \in Names /\ DOMAIN cache = Paths
    /\ \A p \in Paths : cache[p] # NoEntry => cache[p].mime = get_mimetype(name)

(* query() is what makes entries. *)
LEMMA MimeKeeps == MimeInv /\ [Next]_vars => MimeInv'
<1> SUFFICES ASSUME MimeInv, [Next]_vars PROVE MimeInv'
    OBVIOUS
<1>1. name' = name
    BY DEF Next, vars, mvars, Get, Send
<1>2. get_mimetype(name)' = get_mimetype(name)
    BY <1>1 DEF get_mimetype
<1>3. CASE cache' = cache
    BY <1>1, <1>2, <1>3 DEF MimeInv
<1>4. ASSUME NEW p \in Cached, Get(p) PROVE MimeInv'
  <2>1. /\ p \in Paths /\ FileInfo(p).mime = get_mimetype(name)
        /\ cache' = [cache EXCEPT ![p] = IF isValid(@) THEN @ ELSE FileInfo(p)]
      BY <1>4, FileAssumption DEF Get, query, FileInfo
  <2>2. \A q \in Paths : cache'[q] = cache[q] \/ cache'[q].mime = get_mimetype(name)
      BY <2>1 DEF MimeInv
  <2> QED
      BY <1>1, <1>2, <2>1, <2>2 DEF MimeInv
<1>5. cache' = cache \/ \E p \in Cached : Get(p)
    BY Zenon DEF Next, vars, mvars, Send
<1> QED
    BY SMTT(20), <1>3, <1>4, <1>5

(* Whatever the extension and whatever is listed, an entry has the type of *)
(* the longest listed extension that differs from the file's own by tildes *)
(* at its end only: get_mimetype() takes off no more than it has to.       *)
THEOREM TypesOfExtensions == Spec => []MimetypeOfExtension
<1>1. Init => MimeInv
    BY CacheAssumption DEF Init, MimeInv
<1>2. ASSUME MimeInv, NEW p \in Cached, cache[p] # NoEntry
      PROVE  LET ext    == name.ext
                 tildes == {n \in 1..Len(ext) : \A i \in (n + 1)..Len(ext) : ext[i] = "~"}
                 listed == {n \in tildes : SubSeq(ext, 1, n) \in MimeTypes}
             IN  cache[p].mime =
                     IF listed = {} \/ name.slash = "no" THEN <<>>
                     ELSE SubSeq(ext, 1, CHOOSE n \in listed : \A k \in listed : k <= n)
  <2> DEFINE ext    == name.ext
             tildes == {n \in 1..Len(ext) : \A i \in (n + 1)..Len(ext) : ext[i] = "~"}
             listed == {n \in tildes : SubSeq(ext, 1, n) \in MimeTypes}
  <2>1. Len(ext) \in Nat /\ name.slash \in {"yes", "no"} /\ cache[p].mime = get_mimetype(name)
      BY <1>2, CacheAssumption, FileAssumption DEF MimeInv
  <2>2. listed = Ends(ext, Len(ext))
      BY DEF Ends
  <2>3. (CHOOSE n \in listed : \A k \in listed : k <= n) = Greatest(listed)
      BY Zenon DEF Greatest
  <2> HIDE DEF listed
  <2>4. get_mimetype(name) = IF listed = {} \/ name.slash = "no" THEN <<>>
                             ELSE SubSeq(ext, 1, Greatest(listed))
      BY Zenon, <2>1, <2>2, MimetypeIs DEF TypeUpTo
  <2> QED
      BY Zenon, <2>1, <2>3, <2>4 DEF listed
<1>3. MimeInv => MimetypeOfExtension
    BY Zenon, <1>2 DEF MimetypeOfExtension
<1> QED
    BY <1>1, <1>3, MimeKeeps, PTL DEF Spec
=============================================================================
