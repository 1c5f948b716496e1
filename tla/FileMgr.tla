------------------------------ MODULE FileMgr -------------------------------
(***************************************************************************)
(* The cache of file information (lib/FileMgr.cpp, include/xio/FileMgr.h): *)
(* query() with its time to live, entity tags and MIME types, and a web    *)
(* server's use of it: a client revalidates its copy of a file with the    *)
(* entity tag it got along with it.                                        *)
(*                                                                         *)
(* lib/FileMgr.cpp undefines HAVE_SYS_INOTIFY_H, so the time to live is    *)
(* all that ends an entry, and inotifyId_ stays -1; that items are         *)
(* invalidated in realtime (include/xio/FileMgr.h:33) is not what it does. *)
(* The file is in no target of CMakeLists.txt and includes x0 headers that *)
(* the repository does not have; it is modelled as it is written.          *)
(***************************************************************************)
EXTENDS File, Sequences

CONSTANTS
    cacheTTL,     \* Config::cacheTTL_, in seconds
    Names,        \* names: whether there is a slash in it (slash), and the
                  \* extension, a sequence of characters (ext)
    MimeTypes     \* the extensions that loadMimetypes() read

VARIABLES
    tagged,   \* Config: "inode" if etagConsiderInode, or "plain"
    name,     \* the name of the paths, which never changes
    cache,    \* cache_
    sending,  \* the response for which a file is to be read: path and FileInfo
    copy,     \* the client's copy of every path, with its entity tag
    answer    \* history: what the latest step answered about a path, and
              \* whether that confirmed the client's copy, or Silent

mvars == <<tagged, name, cache, sending, copy>>
vars == <<dvars, fvars, mvars, answer>>

ASSUME CacheAssumption ==
    /\ cacheTTL \in Nat /\ Names # {}
    /\ \A n \in Names : n.slash \in {"yes", "no"} /\ n.ext \in Seq(STRING)

NoEntry == [stat |-> Missing, etag |-> <<>>, mime |-> <<>>, cachedAt |-> -1]
Idle == [path |-> None, fi |-> NoEntry]
NoCopy == [etag |-> <<>>, version |-> 0]
Silent == [path |-> None, fi |-> NoEntry, confirmed |-> "no"]

(* Config(), FileInfoService(loop, config) *)
Init ==
    /\ FileInit
    /\ tagged \in IF user = "cache" THEN {"inode", "plain"} ELSE {"plain"}
    /\ name \in IF user = "names" THEN Names ELSE {CHOOSE n \in Names : TRUE}
    /\ cache = [p \in Paths |-> NoEntry]
    /\ sending = Idle
    /\ copy = [p \in Paths |-> NoCopy]
    /\ answer = Silent
-----------------------------------------------------------------------------
(* make_etag(fi), with etagConsiderMtime and etagConsiderSize *)
make_etag(stat) == IF tagged = "inode" THEN <<stat.mtime, stat.size, stat.inode>>
                                       ELSE <<stat.mtime, stat.size>>

(* Mutant: any character is taken off. *)
GetMimetypeAny(n) ==
    LET from[k \in 0..Len(n.ext)] ==
            IF k = 0 THEN <<>>
            ELSE IF SubSeq(n.ext, 1, k) \in MimeTypes THEN SubSeq(n.ext, 1, k)
            ELSE from[k - 1]
    IN  IF n.slash = "yes" THEN from[Len(n.ext)] ELSE <<>>

(* get_mimetype(filename): trailing tildes are taken off the extension     *)
(* until it is known; the type is given by the extension it is listed for, *)
(* and <<>> is defaultMimetype.  Without a slash, nslash is npos, and no   *)
(* dot is beyond it.                                                       *)
get_mimetype(n) ==
    LET from[k \in 0..Len(n.ext)] ==
            IF k = 0 THEN <<>>
            ELSE IF SubSeq(n.ext, 1, k) \in MimeTypes THEN SubSeq(n.ext, 1, k)
            ELSE IF n.ext[k] # "~" THEN <<>>
            ELSE from[k - 1]
    IN  IF n.slash = "yes" THEN from[Len(n.ext)] ELSE <<>>

(* FileInfo(service, filename), a missing file included *)
FileInfo(p) == [stat |-> disk[p], etag |-> make_etag(disk[p]),
                mime |-> get_mimetype(name), cachedAt |-> now]

(* Mutant: that a file is missing is never asked again. *)
IsValidForever(e) ==
    e # NoEntry /\ (e.stat = Missing \/ e.cachedAt + cacheTTL > now)

(* cache_.find(filename), isValid(fi) *)
isValid(e) == e # NoEntry /\ e.cachedAt + cacheTTL > now

query(p) ==
    /\ user # "files"
    /\ cache' = [cache EXCEPT ![p] = IF isValid(@) THEN @ ELSE FileInfo(p)]
-----------------------------------------------------------------------------
(* A client asks for p: it hears that there is no such file, or that its   *)
(* copy is good, or the file is to be sent.  While it is, others may ask   *)
(* as well.                                                                *)
Confirms(p, fi) == copy[p] # NoCopy /\ fi.stat # Missing /\ copy[p].etag = fi.etag

Get(p) ==
    /\ query(p)
    /\ sending' = IF sending # Idle \/ cache'[p].stat = Missing \/ Confirms(p, cache'[p])
                  THEN sending ELSE [path |-> p, fi |-> cache'[p]]
    /\ answer' = [path |-> p, fi |-> cache'[p],
                  confirmed |-> IF Confirms(p, cache'[p]) THEN "yes" ELSE "no"]
    /\ UNCHANGED <<dvars, fvars, tagged, name, copy>>

(* Mutant: the tag is made from the file as it is now. *)
SendRetags ==
    /\ sending # Idle
    /\ LET p == sending.path IN
       copy' = IF disk[p] = Missing THEN copy
               ELSE [copy EXCEPT ![p] = [etag |-> make_etag(disk[p]),
                                         version |-> sending.fi.stat.version]]
    /\ sending' = Idle /\ answer' = Silent
    /\ UNCHANGED <<dvars, fvars, tagged, name, cache>>

(* File::open() and the response, which carries the entity tag of the      *)
(* answer and what is in the file by then                                  *)
Send ==
    /\ sending # Idle
    /\ LET p == sending.path IN
       copy' = IF disk[p] = Missing THEN copy
               ELSE [copy EXCEPT ![p] = [etag |-> sending.fi.etag,
                                         version |-> disk[p].version]]
    /\ sending' = Idle /\ answer' = Silent
    /\ UNCHANGED <<dvars, fvars, tagged, name, cache>>

Next ==
    \/ FileNext /\ answer' = Silent /\ UNCHANGED mvars
    \/ \E p \in Cached : Get(p)
    \/ Send

Spec == Init /\ [][Next]_vars
-----------------------------------------------------------------------------
TypeOK ==
    /\ FileTypeOK
    /\ \A p \in Paths : cache[p].stat \in Stat /\ cache[p].cachedAt \in -1..now
    /\ copy \in [Paths -> [etag : {make_etag(b.stat) : b \in born} \cup {<<>>}, version : Versions]]
    /\ answer # Silent => answer.path \in Cached /\ answer.fi = cache[answer.path]

(* p has the version, or had it less than cacheTTL_ seconds ago. *)
Recent(p, version) ==
    disk[p].version = version \/ ended[p][version] + cacheTTL > now

(* Whatever query() answers, from a fresh entry or an old one, that there  *)
(* is no such file included, is true or was less than cacheTTL_ seconds    *)
(* ago, however often the entry has been used by then.                     *)
FreshWithinTTL ==
    answer # Silent => Recent(answer.path, answer.fi.stat.version)

(* Contents of p that an entity tag does not tell apart: written within    *)
(* one second and of one size.                                             *)
Ambiguous(p) ==
    \E b, c \in born : /\ b.path = p /\ c.path = p /\ b # c
                       /\ make_etag(b.stat) = make_etag(c.stat)

(* A copy that is confirmed by its entity tag is as recent as an answer of *)
(* query(), though the tag came out of the cache and the contents were     *)
(* read later, and the file may have been written, replaced or removed in  *)
(* between; unless the entity tag stood for two contents.                  *)
Revalidated ==
    answer.confirmed = "yes" /\ ~Ambiguous(answer.path) =>
        Recent(answer.path, copy[answer.path].version)

(* Whatever the extension, a file whose name has a slash in it gets the    *)
(* type of the longest extension that is listed and differs from its own   *)
(* by tildes at the end only; others get the default type.                 *)
MimetypeOfExtension ==
    \A p \in Cached : cache[p] # NoEntry =>
        LET ext    == name.ext
            tildes == {n \in 1..Len(ext) : \A i \in (n + 1)..Len(ext) : ext[i] = "~"}
            listed == {n \in tildes : SubSeq(ext, 1, n) \in MimeTypes}
        IN  cache[p].mime =
                IF listed = {} \/ name.slash = "no" THEN <<>>
                ELSE SubSeq(ext, 1, CHOOSE n \in listed : \A k \in listed : k <= n)
=============================================================================
