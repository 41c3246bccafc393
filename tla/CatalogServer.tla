--------------------------- MODULE CatalogServer ---------------------------
(***************************************************************************)
(* One MCP server process at its catalogs: the cache of parsed files with  *)
(* its active file, and the tools that read or write a catalog through it, *)
(* one access to the file store per step.  The runtime has one thread and  *)
(* a handler awaits nothing but two locks (src/src/main.rs:49), so no      *)
(* request of a server ever interleaves with another of that server.  What *)
(* comes between two steps is other processes: they save catalogs and      *)
(* redirect aliases.                                                       *)
(***************************************************************************)
EXTENDS Naturals, Sequences

CONSTANTS
    Files,           \* canonical paths of catalogs
    Aliases,         \* paths of symbolic links to them
    Contents,        \* what a catalog may hold
    Locales,
    SourceLanguage,  \* Contents -> Locales
    Absent,          \* there is no such file
    None,
    Interrupts,      \* whether others act during a call, or only between calls
    FineTimes,       \* whether no two saves get the same modification time
    MaxSaves         \* distinct modification times

ASSUME LanguageAssumption == SourceLanguage \in [Contents -> Locales]
ASSUME AliasAssumption == Files \cap Aliases = {}
ASSUME AbsentAssumption == Absent \notin Contents
ASSUME NoneAssumption == None \notin Files \cup Aliases \cup Contents \cup Locales
ASSUME SwitchAssumption == Interrupts \in BOOLEAN /\ FineTimes \in BOOLEAN
ASSUME BoundAssumption == MaxSaves \in Nat

VARIABLES
    target,  \* Aliases -> the file it leads to
    file,    \* Files -> content and modification time
    clock,   \* the last modification time given
    cache,   \* FileCache::files, by stable identity
    active,  \* FileCache::active
    call     \* the request being handled, or None

disk == <<target, file, clock>>
vars == <<disk, cache, active, call>>

Paths == Files \cup Aliases
Times == 0 .. MaxSaves
State == Contents \cup {Absent}

(* Two groups of tools have one shape each: "keys" are add_locale,         *)
(* add_keys, update_comments, delete_keys, rename_key and                  *)
(* delete_translations; "guarded" are submit, import_xliff and approve.    *)
Tools == {"parse", "read", "keys", "remove_locale", "import_strings", "create",
          "guarded", "sync", "merge"}

Steps == {"load", "read", "probe", "vacant", "identity", "serve", "stat", "insert",
          "keep", "write", "commit", "reload", "refresh", "replace", "update"}

Call == [tool : Tools, named : BOOLEAN, path : Paths, todo : Seq(Steps),
         identity : Files \cup {None},     \* what the path resolved to
         content : State \cup {None},      \* the catalog in hand
         modified : Times,
         known : State \cup {None},        \* what resolve_file returned
         locale : Locales \cup {None}]     \* the locale to remove

CachedFile == [path : Paths, content : State, modified : Times]

ASSUME EntryAssumption == None \notin CachedFile

TypeOK ==
    /\ target \in [Aliases -> Files]
    /\ file \in [Files -> [content : State, modified : Times]]
    /\ clock \in Times
    /\ cache \in [Files -> CachedFile \cup {None}]
    /\ active \in Files \cup {None}
    /\ call \in Call \cup {None}

Present(f) == file[f].content # Absent

Init ==
    /\ file \in [Files -> [content : State, modified : {0}]]
    /\ target \in [Aliases -> {f \in Files : Present(f)}]
    /\ clock = 0
    /\ cache = [f \in Files |-> None]
    /\ active = None
    /\ call = None

-----------------------------------------------------------------------------
(* file_identity resolves a path, and so does every access by path. *)
Identity(p) == IF p \in Files THEN p ELSE target[p]
At(p) == file[Identity(p)]

Cached(f) == f # None /\ cache[f] # None
ActivePath == IF Cached(active) THEN cache[active].path ELSE None

(* Mistake: entries are replaced by identity only. *)
InsertByIdentity(identity, cached) ==
    /\ cache' = [cache EXCEPT ![identity] = cached]
    /\ active' = identity

(* FileCache::insert: one entry per identity and one per display path; the *)
(* new entry becomes the active one.                                       *)
Insert(identity, cached) ==
    /\ cache' = [f \in Files |->
            IF f = identity THEN cached
            ELSE IF Cached(f) /\ cache[f].path = cached.path THEN None
            ELSE cache[f]]
    /\ active' = identity

Entry(path, content, modified) ==
    [path |-> path, content |-> content, modified |-> modified]

(* A file is replaced; where times are coarse it may keep its time. *)
Save(f, content) ==
    \E t \in {clock + 1} \cup (IF FineTimes THEN {} ELSE {clock}) :
        /\ t \in Times
        /\ file' = [file EXCEPT ![f] = [content |-> content, modified |-> t]]
        /\ clock' = t
        /\ UNCHANGED target

-----------------------------------------------------------------------------
(* What each handler asks of the store, in its order. *)
Parse == <<"load", "stat", "insert">>
Read == <<"load", "keep">>
Reread == <<"read", "stat", "insert">>
ResolveFile(named) == IF named THEN Reread ELSE <<"identity", "serve">>
WriteBack == <<"write", "stat", "insert">>
KeyTool(named) == ResolveFile(named) \o (<<"read">> \o WriteBack)
ImportStrings == <<"probe">> \o WriteBack
Create == <<"vacant">> \o WriteBack
Guarded == <<"load", "commit", "refresh">>
SyncSource == <<"load", "commit", "reload", "refresh">>
Merge == <<"probe", "replace", "stat", "update">>

Program(tool, named) ==
    CASE tool = "parse" -> Parse
      [] tool = "read" -> Read
      [] tool \in {"keys", "remove_locale"} -> KeyTool(named)
      [] tool = "import_strings" -> ImportStrings
      [] tool = "create" -> Create
      [] tool = "guarded" -> Guarded
      [] tool = "sync" -> SyncSource
      [] tool = "merge" -> Merge

(* These require a path; the others act on the active file without one. *)
NeedPath == {"parse", "import_strings", "create", "merge"}

Begin ==
    /\ call = None
    /\ \E tool \in Tools, p \in Paths \cup {None}, l \in Locales \cup {None} :
        /\ p = None => tool \notin NeedPath /\ ActivePath # None
        /\ (l # None) <=> (tool = "remove_locale")
        /\ call' = [tool |-> tool, named |-> p # None,
                    path |-> IF p = None THEN ActivePath ELSE p,
                    todo |-> Program(tool, p # None),
                    identity |-> None, content |-> None, modified |-> 0,
                    known |-> None, locale |-> l]
    /\ UNCHANGED <<disk, cache, active>>

Doing(step) == call # None /\ Head(call.todo) = step

(* The call goes on with what it knows now, or returns. *)
Proceed(c) == call' = IF Tail(call.todo) = <<>> THEN None ELSE [c EXCEPT !.todo = Tail(@)]

-----------------------------------------------------------------------------
(* Mistake: the path as given is taken for the identity. *)
LoadByPath ==
    /\ Doing("load") \/ Doing("reload")
    /\ At(call.path).content # Absent
    /\ Proceed([call EXCEPT !.identity = call.path, !.content = At(call.path).content])
    /\ UNCHANGED <<disk, cache, active>>

(* CatalogSnapshot::load reads by the identity it has resolved. *)
Load ==
    /\ Doing("load") \/ Doing("reload")
    /\ At(call.path).content # Absent
    /\ Proceed([call EXCEPT !.identity = Identity(call.path), !.content = At(call.path).content])
    /\ UNCHANGED <<disk, cache, active>>

(* store.read, by path. *)
ReadPath ==
    /\ Doing("read")
    /\ At(call.path).content # Absent
    /\ Proceed([call EXCEPT !.content = At(call.path).content])
    /\ UNCHANGED <<disk, cache, active>>

(* An output that may be there or not. *)
Probe ==
    /\ Doing("probe")
    /\ Proceed([call EXCEPT !.content = At(call.path).content])
    /\ UNCHANGED <<disk, cache, active>>

(* create_xcstrings: a symbolic link exists, whatever it leads to. *)
Vacant ==
    /\ Doing("vacant")
    /\ call.path \in Files
    /\ ~Present(call.path)
    /\ Proceed(call)
    /\ UNCHANGED <<disk, cache, active>>

CheckIdentity ==
    /\ Doing("identity")
    /\ Proceed([call EXCEPT !.identity = Identity(call.path)])
    /\ UNCHANGED <<disk, cache, active>>

(* Mistakes: the entry is trusted for its time, or for its identity, alone. *)
SameTime == cache[active].modified = At(call.path).modified
SameIdentity == active = call.identity

(* resolve_file without a path: identity and time are those of the entry. *)
Unchanged == active = call.identity /\ cache[active].modified = At(call.path).modified

ServeCached ==
    /\ Doing("serve")
    /\ Unchanged
    /\ Proceed([call EXCEPT !.known = cache[active].content])
    /\ UNCHANGED <<disk, cache, active>>

ServeFresh ==
    /\ Doing("serve")
    /\ ~Unchanged
    /\ call' = [call EXCEPT !.todo = Reread \o Tail(@)]
    /\ UNCHANGED <<disk, cache, active>>

Stat ==
    /\ Doing("stat")
    /\ Proceed([call EXCEPT !.modified = At(call.path).modified])
    /\ UNCHANGED <<disk, cache, active>>

(* The identity is asked for last, right before the insertion. *)
InsertPath ==
    /\ Doing("insert")
    /\ Insert(Identity(call.path), Entry(call.path, call.content, call.modified))
    /\ Proceed([call EXCEPT !.known = call.content])
    /\ UNCHANGED disk

(* resolve_read_snapshot and refresh_after_write insert what was loaded or *)
(* committed under the identity it was loaded from.                        *)
InsertLoaded ==
    /\ Doing("keep") \/ Doing("refresh")
    /\ Insert(call.identity, Entry(call.path, call.content, file[call.identity].modified))
    /\ Proceed(call)
    /\ UNCHANGED disk

(* After a commit the metadata, or the catalog, cannot be read back: the   *)
(* entry goes and the request still succeeds.                              *)
Evict ==
    /\ Doing("refresh") \/ Doing("reload")
    /\ cache' = [cache EXCEPT ![call.identity] = None]
    /\ call' = None
    /\ UNCHANGED <<disk, active>>

-----------------------------------------------------------------------------
SameLanguage(c) == SourceLanguage[c] = SourceLanguage[call.content]

(* What a tool makes of the catalog in hand.  remove_locale compares with  *)
(* the source language of what resolve_file returned.                      *)
Candidates ==
    IF call.tool \in {"keys", "guarded", "sync"} THEN {c \in Contents : SameLanguage(c)}
    ELSE IF call.tool # "remove_locale" THEN Contents
    ELSE {c \in Contents : SameLanguage(c) /\ call.locale # SourceLanguage[call.known]}

(* The unconditional write, by path. *)
Write ==
    /\ Doing("write")
    /\ \E c \in Candidates :
        /\ Save(Identity(call.path), c)
        /\ Proceed([call EXCEPT !.content = c])
    /\ UNCHANGED <<cache, active>>

(* write_if_inputs_match, to the identity loaded from. *)
Commit ==
    /\ Doing("commit")
    /\ file[call.identity].content = call.content
    /\ \E c \in Candidates :
        /\ Save(call.identity, c)
        /\ Proceed([call EXCEPT !.content = c])
    /\ UNCHANGED <<cache, active>>

(* merge_xcstrings: write_if_matches, to the output path. *)
Replace ==
    /\ Doing("replace")
    /\ At(call.path).content = call.content
    /\ \E c \in Candidates :
        /\ Save(Identity(call.path), c)
        /\ Proceed([call EXCEPT !.content = c])
    /\ UNCHANGED <<cache, active>>

(* Mistake: the entry takes the display path of the merge's output. *)
UpdateWithPath ==
    /\ Doing("update")
    /\ LET f == Identity(call.path)
       IN  cache' = IF Cached(f)
                    THEN [cache EXCEPT ![f] = Entry(call.path, call.content, call.modified)]
                    ELSE cache
    /\ Proceed(call)
    /\ UNCHANGED <<disk, active>>

(* FileCache::replace_if_cached keeps the display path and the active file. *)
Update ==
    /\ Doing("update")
    /\ LET f == Identity(call.path)
       IN  cache' = IF Cached(f)
                    THEN [cache EXCEPT ![f] = Entry(cache[f].path, call.content, call.modified)]
                    ELSE cache
    /\ Proceed(call)
    /\ UNCHANGED <<disk, active>>

(* A rejected request, nothing to do, a conflict or an error of the store. *)
Fail ==
    /\ call # None
    /\ ~Doing("refresh") /\ ~Doing("reload")
    /\ call' = None
    /\ UNCHANGED <<disk, cache, active>>

-----------------------------------------------------------------------------
(* Other processes and people. *)
OutsideTurn == Interrupts \/ call = None

OutsideSave ==
    /\ OutsideTurn
    /\ \E f \in Files, c \in Contents : Save(f, c)
    /\ UNCHANGED <<cache, active, call>>

Redirect ==
    /\ OutsideTurn
    /\ \E a \in Aliases, f \in Files :
        /\ Present(f)
        /\ target' = [target EXCEPT ![a] = f]
    /\ UNCHANGED <<file, clock, cache, active, call>>

Next ==
    \/ Begin \/ Load \/ ReadPath \/ Probe \/ Vacant \/ CheckIdentity
    \/ ServeCached \/ ServeFresh \/ Stat \/ InsertPath \/ InsertLoaded \/ Evict
    \/ Write \/ Commit \/ Replace \/ Update \/ Fail
    \/ OutsideSave \/ Redirect

Spec == Init /\ [][Next]_vars

-----------------------------------------------------------------------------
(* What resolve_file serves from the cache is what the file holds at that  *)
(* moment ("Neither identity nor metadata failures may authorize stale     *)
(* cache reuse", src/tools/mod.rs:156).                                    *)
HitIsFresh ==
    Doing("serve") /\ Unchanged => cache[active].content = At(call.path).content

(* No redirection and no merge leaves two entries that list_files would    *)
(* show under one path (CHANGELOG.md:73).                                  *)
OneEntryPerPath ==
    \A f, g \in Files :
        Cached(f) /\ Cached(g) /\ cache[f].path = cache[g].path => f = g

(* A request that names no catalog, and a merge, leave the active file the *)
(* one it was, however its aliases move (CHANGELOG.md:71).                 *)
ActiveIsKept ==
    [][call # None /\ (~call.named \/ call.tool = "merge")
        => ActivePath' \in {ActivePath, None}]_vars

(* remove_locale never takes the source language from the catalog it       *)
(* writes ("Cannot remove the source locale", src/server.rs:268).          *)
SourceLocaleKept ==
    [][Write /\ call.tool = "remove_locale"
        => call.locale # SourceLanguage[call.content]]_vars
=============================================================================
