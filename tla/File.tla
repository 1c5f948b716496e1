-------------------------------- MODULE File --------------------------------
(***************************************************************************)
(* File objects and the inotify watches behind them (lib/File.cpp), on a   *)
(* disk that other processes change.  The Inotify wrapper is one instance  *)
(* for the whole process; the kernel keeps one watch per inode in it, so   *)
(* that File objects on one inode share a watch descriptor.                *)
(***************************************************************************)
EXTENDS Integers, FiniteSets

CONSTANTS
    Paths,        \* the file names in use
    Files,        \* the File objects
    Inodes,       \* inode numbers, used again once a file is gone
    None,         \* no inode; a watch descriptor of -1
    MaxVersions,  \* bound: contents that are ever written
    MaxWatches,   \* bound: calls of inotify_add_watch that make a watch
    MaxTime,      \* bound: seconds the clock runs
    Users,        \* what the program uses: "files", "cache", or "names" if it
                  \* asks the cache for one name of many
    Cached        \* the paths that are used with the cache

ASSUME FileAssumption ==
    /\ Cached \subseteq Paths /\ None \notin Inodes \cup 1..MaxWatches
    /\ MaxVersions \in Nat

Wds == 1..MaxWatches
Missing == [inode |-> None, mtime |-> 0, size |-> 0, version |-> 0]

VARIABLES
    user,     \* one of Users, which never changes
    now,      \* the clock, in seconds: mtimes and ev_now()
    disk,     \* what stat() says of a path; version is the history of contents
    ended,    \* history: when a path last ceased to have a version
    born,     \* history: the path and the stat of every version
    file,     \* the File objects
    watches,  \* the kernel's watches: the inode of every descriptor
    nextWd,   \* the next watch descriptor, which is never used again
    replaced  \* history: watches that updateCache() put another in place of

fvars == <<file, watches, nextWd, replaced>>
dvars == <<user, now, disk, ended, born>>

Versions == 0..MaxVersions
Stat == [inode : Inodes \cup {None}, mtime : 0..MaxTime, size : 0..2,
         version : Versions]
NoFile == [alive |-> "no", path |-> None, inotify |-> None]

FileTypeOK ==
    /\ user \in Users /\ now \in 0..MaxTime
    /\ disk \in [Paths -> Stat]
    /\ ended \in [Paths -> [Versions -> -1..MaxTime]]
    /\ file \in [Files -> [alive : {"yes", "no"}, path : Paths \cup {None},
                           inotify : Wds \cup {None}]]
    /\ watches \in [Wds -> Inodes \cup {None}]
    /\ nextWd \in 1..(MaxWatches + 1) /\ replaced \in SUBSET Wds

FileInit ==
    /\ user \in Users /\ now = 0
    /\ disk = [p \in Paths |-> Missing]
    /\ ended = [p \in Paths |-> [v \in Versions |-> -1]]
    /\ born = {}
    /\ file = [f \in Files |-> NoFile]
    /\ watches = [w \in Wds |-> None]
    /\ nextWd = 1 /\ replaced = {}
-----------------------------------------------------------------------------
(* The disk, with the sizes, times and contents that matter to the cache.  *)
(* The kernel drops the watches of an inode that is gone.                  *)
Used == CASE user = "cache" -> Cached [] user = "files" -> Paths [] OTHER -> {}
Sizes == IF user = "cache" THEN {1, 2} ELSE {1}
NewVersion == IF user = "cache" THEN Cardinality(born) + 1 ELSE 1

Becomes(p, stat) ==
    /\ disk' = [disk EXCEPT ![p] = stat]
    /\ ended' = IF user = "cache" THEN [ended EXCEPT ![p][disk[p].version] = now] ELSE ended
    /\ born' = IF stat = Missing \/ user # "cache" THEN born
               ELSE born \cup {[path |-> p, stat |-> stat]}
    /\ watches' = [w \in Wds |-> IF watches[w] = disk[p].inode /\ stat.inode # disk[p].inode
                                 THEN None ELSE watches[w]]
    /\ UNCHANGED <<user, now, file, nextWd, replaced>>

(* A file is written in place, or another one is moved over it. *)
WriteFile(p, size) ==
    /\ NewVersion <= MaxVersions /\ disk[p] # Missing
    /\ Becomes(p, [inode |-> disk[p].inode, mtime |-> now, size |-> size,
                   version |-> NewVersion])

ReplaceFile(p, i, size) ==
    /\ NewVersion <= MaxVersions /\ \A q \in Paths : disk[q].inode # i
    /\ Becomes(p, [inode |-> i, mtime |-> now, size |-> size, version |-> NewVersion])

Unlink(p) == disk[p] # Missing /\ Becomes(p, Missing)

(* rename(2).  The files of the cache are not renamed: their contents do   *)
(* not come back under a name that they had left.                          *)
Rename(p, q) ==
    /\ user = "files" /\ disk[p] # Missing /\ p # q
    /\ disk' = [disk EXCEPT ![q] = disk[p], ![p] = Missing]
    /\ watches' = [w \in Wds |-> IF watches[w] = disk[q].inode THEN None ELSE watches[w]]
    /\ UNCHANGED <<user, now, ended, born, file, nextWd, replaced>>

Tick == /\ user = "cache" /\ now < MaxTime
        /\ now' = now + 1
        /\ UNCHANGED <<user, disk, ended, born, fvars>>
-----------------------------------------------------------------------------
(* inotify_add_watch: the watch the inode has, a new one, or an error: no  *)
(* such file, or no more watches for this user.                            *)
Added(ws, p) ==
    LET has == {w \in Wds : disk[p] # Missing /\ ws[w] = disk[p].inode} IN
    IF disk[p] = Missing THEN {[wd |-> None, watches |-> ws]}
    ELSE IF has # {} THEN {[wd |-> w, watches |-> ws] : w \in has}
    ELSE {[wd |-> None, watches |-> ws]} \cup
         {[wd |-> w, watches |-> [ws EXCEPT ![w] = disk[p].inode]] : w \in {nextWd} \cap Wds}

(* inotify_rm_watch, whose errors nobody looks at *)
Removed(ws, wd) == IF wd = None THEN ws ELSE [ws EXCEPT ![wd] = None]

(* File(path) *)
NewFile(f, p) ==
    /\ user = "files" /\ file[f].alive = "no"
    /\ file' = [file EXCEPT ![f] = [alive |-> "yes", path |-> p, inotify |-> None]]
    /\ UNCHANGED <<dvars, watches, nextWd, replaced>>

(* updateCache(): the descriptor is removed only when there is none. *)
UpdateCache(f) ==
    /\ file[f].alive = "yes"
    /\ LET held == file[f].inotify
           ws   == IF held = None THEN Removed(watches, held) ELSE watches
       IN  \E add \in Added(ws, file[f].path) :
              /\ file' = [file EXCEPT ![f].inotify = add.wd]
              /\ watches' = add.watches
              /\ nextWd' = IF add.watches # watches THEN nextWd + 1 ELSE nextWd
              /\ replaced' = replaced \cup ({held} \ {None, add.wd})
    /\ UNCHANGED dvars

(* Mutant: the descriptor is forgotten and the watch stays. *)
ClearCacheForgets(f) ==
    /\ file[f].alive = "yes"
    /\ file' = [file EXCEPT ![f].inotify = None]
    /\ UNCHANGED <<dvars, watches, nextWd, replaced>>

(* clearCache() *)
ClearCache(f) ==
    /\ file[f].alive = "yes"
    /\ watches' = Removed(watches, file[f].inotify)
    /\ file' = [file EXCEPT ![f].inotify = None]
    /\ UNCHANGED <<dvars, nextWd, replaced>>

(* ~File() *)
DeleteFile(f) ==
    /\ file[f].alive = "yes"
    /\ watches' = Removed(watches, file[f].inotify)
    /\ file' = [file EXCEPT ![f] = NoFile]
    /\ UNCHANGED <<dvars, nextWd, replaced>>

FileNext ==
    \/ \E p \in Used :
          \/ Unlink(p)
          \/ \E q \in Used : Rename(p, q)
          \/ \E size \in Sizes :
                \/ WriteFile(p, size)
                \/ \E i \in Inodes : ReplaceFile(p, i, size)
    \/ Tick
    \/ \E f \in Files : \/ \E p \in Paths : NewFile(f, p)
                        \/ UpdateCache(f) \/ ClearCache(f) \/ DeleteFile(f)
-----------------------------------------------------------------------------
(* Watches are not leaked, however Files on one inode come to share a      *)
(* descriptor, files are replaced and destructors run: a watch of the      *)
(* kernel is held by a File that will remove it, unless updateCache() put  *)
(* another descriptor, or -1, over it.                                     *)
NoWatchLeak ==
    \A w \in Wds : watches[w] # None =>
        w \in replaced \/ \E f \in Files : file[f].inotify = w
=============================================================================
