------------------------ MODULE CatalogServerProofs ------------------------
(***************************************************************************)
(* Theorems about CatalogServer.                                           *)
(***************************************************************************)
EXTENDS CatalogServer, SequenceTheorems, TLAPS

(* OneEntryPerPath is inductive as soon as the cache is a function on the  *)
(* files; what a call carries does not matter to it.                       *)
IInv == DOMAIN cache = Files /\ OneEntryPerPath

(* FileCache::insert keeps the display paths distinct, whatever it inserts *)
(* and under whatever identity.                                            *)
LEMMA InsertKeepsDistinct ==
    ASSUME IInv, NEW identity, NEW path, NEW content, NEW modified,
           Insert(identity, Entry(path, content, modified))
    PROVE  IInv'
<1> DEFINE e == Entry(path, content, modified)
<1>1. e.path = path BY DEF Entry
<1> HIDE DEF e
<1>2. DOMAIN cache' = Files BY DEF Insert, e
<1>3. ASSUME NEW f \in Files, NEW g \in Files, Cached(f)', Cached(g)',
             cache'[f].path = cache'[g].path
      PROVE  f = g
  <2>1. \A h \in Files : cache'[h] =
            IF h = identity THEN e
            ELSE IF Cached(h) /\ cache[h].path = path THEN None ELSE cache[h]
    BY <1>1 DEF Insert, e
  <2>2. \A h \in Files : h # identity /\ Cached(h)' =>
            Cached(h) /\ cache'[h] = cache[h] /\ cache[h].path # path
    BY <2>1 DEF Cached
  <2>3. CASE f # identity /\ g # identity
    BY <1>3, <2>2, <2>3 DEF IInv, OneEntryPerPath
  <2>4. CASE f = identity \/ g = identity
    BY <1>1, <1>3, <2>1, <2>2, <2>4
  <2> QED BY <2>3, <2>4
<1> QED BY <1>2, <1>3 DEF IInv, OneEntryPerPath

(* So does replacing one entry by another of the same path, or by nothing. *)
LEMMA ReplaceKeepsDistinct ==
    ASSUME IInv, NEW x, NEW v, cache' = [cache EXCEPT ![x] = v],
           v = None \/ (Cached(x) /\ v.path = cache[x].path)
    PROVE  IInv'
<1>1. DOMAIN cache' = Files BY DEF IInv
<1>2. \A f \in Files : Cached(f)' => Cached(f) /\ cache'[f].path = cache[f].path
  BY DEF IInv, Cached
<1> QED BY <1>1, <1>2 DEF IInv, OneEntryPerPath

(* Every step keeps the invariant. *)
LEMMA NextKeepsDistinct == IInv /\ [Next]_vars => IInv'
<1> SUFFICES ASSUME IInv, [Next]_vars PROVE IInv' OBVIOUS
<1>1. CASE UNCHANGED cache
  BY <1>1 DEF IInv, OneEntryPerPath, Cached
<1>2. CASE InsertPath BY <1>2, InsertKeepsDistinct DEF InsertPath
<1>3. CASE InsertLoaded BY <1>3, InsertKeepsDistinct DEF InsertLoaded
<1>4. CASE Evict BY <1>4, ReplaceKeepsDistinct DEF Evict
<1>5. CASE Update
  <2> DEFINE f == Identity(call.path)
             v == Entry(cache[f].path, call.content, call.modified)
  <2>1. v.path = cache[f].path BY DEF Entry
  <2>2. CASE Cached(f)
    <3>1. cache' = [cache EXCEPT ![f] = v] BY <1>5, <2>2 DEF Update
    <3> QED BY <3>1, <2>1, <2>2, ReplaceKeepsDistinct
  <2>3. CASE ~Cached(f) BY <1>1, <1>5, <2>3 DEF Update
  <2> QED BY <2>2, <2>3
<1>6. [Next]_vars => UNCHANGED cache \/ InsertPath \/ InsertLoaded \/ Evict \/ Update
  BY DEF Next, vars, Begin, Load, ReadPath, Probe, Vacant, CheckIdentity, ServeCached,
         ServeFresh, Stat, Write, Commit, Replace, Fail, OutsideSave, Redirect
<1> QED BY <1>1, <1>2, <1>3, <1>4, <1>5, <1>6

(* OneEntryPerPath always holds: list_files never shows two entries under  *)
(* one path, whatever redirections and merges there are.                   *)
THEOREM PathsDistinct == Spec => []OneEntryPerPath
<1>1. Init => IInv BY DEF Init, IInv, OneEntryPerPath, Cached
<1>2. IInv => OneEntryPerPath BY DEF IInv
<1> QED BY <1>1, <1>2, NextKeepsDistinct, PTL DEF Spec

-----------------------------------------------------------------------------
(* The pairs of store accesses that follow each other in some handler; a   *)
(* sequence of them is a plan.                                             *)
Follows ==
    {<<"load", "stat">>, <<"load", "keep">>, <<"load", "commit">>,
     <<"read", "stat">>, <<"read", "write">>, <<"probe", "write">>, <<"probe", "replace">>,
     <<"vacant", "write">>, <<"identity", "serve">>, <<"serve", "read">>,
     <<"stat", "insert">>, <<"stat", "update">>, <<"insert", "read">>,
     <<"write", "stat">>, <<"replace", "stat">>,
     <<"commit", "refresh">>, <<"commit", "reload">>, <<"reload", "refresh">>}

Ordered(s) == \A i \in 1 .. Len(s) - 1 : <<s[i], s[i + 1]>> \in Follows
Plan == {s \in Seq(Steps) : s # <<>> /\ Ordered(s)}

(* What is left of a plan is a plan, and its first step may follow.        *)
LEMMA TailOrdered ==
    ASSUME NEW s \in Plan, Tail(s) # <<>>
    PROVE  Tail(s) \in Plan /\ <<Head(s), Head(Tail(s))>> \in Follows
<1>1. s \in Seq(Steps) /\ s # <<>> BY DEF Plan
<1>2. Tail(s) \in Seq(Steps) /\ Len(Tail(s)) = Len(s) - 1 /\ Len(Tail(s)) > 0 BY <1>1
<1>3. \A i \in 1 .. Len(Tail(s)) : Tail(s)[i] = s[i + 1] BY <1>1
<1>4. Ordered(Tail(s))
  <2> SUFFICES ASSUME NEW i \in 1 .. Len(Tail(s)) - 1
               PROVE <<Tail(s)[i], Tail(s)[i + 1]>> \in Follows
    BY DEF Ordered
  <2>1. i + 1 \in 1 .. Len(s) - 1 /\ i \in 1 .. Len(Tail(s)) /\ i + 1 \in 1 .. Len(Tail(s))
    BY <1>1, <1>2
  <2> QED BY <2>1, <1>3 DEF Plan, Ordered
<1>5. <<Head(s), Head(Tail(s))>> \in Follows
  <2>1. 1 \in 1 .. Len(s) - 1 BY <1>1, <1>2
  <2>2. Head(s) = s[1] /\ Head(Tail(s)) = s[2] BY <1>1, <1>2, <1>3
  <2> QED BY <2>1, <2>2 DEF Plan, Ordered
<1> QED BY <1>2, <1>4, <1>5 DEF Plan

(* Two plans joined by steps that may follow each other are a plan.        *)
LEMMA ConcatOrdered ==
    ASSUME NEW s \in Plan, NEW t \in Plan, <<s[Len(s)], Head(t)>> \in Follows
    PROVE  s \o t \in Plan
<1> DEFINE r == s \o t
<1>1. s \in Seq(Steps) /\ t \in Seq(Steps) /\ Len(s) > 0 /\ Len(t) > 0 BY DEF Plan
<1>2. r \in Seq(Steps) /\ Len(r) = Len(s) + Len(t) BY <1>1
<1>3. \A i \in 1 .. Len(s) : r[i] = s[i] BY <1>1
<1>4. \A i \in 1 .. Len(t) : r[Len(s) + i] = t[i] BY <1>1
<1> HIDE DEF r
<1>5. ASSUME NEW i \in 1 .. Len(r) - 1 PROVE <<r[i], r[i + 1]>> \in Follows
  <2>1. CASE i < Len(s)
    <3>1. i \in 1 .. Len(s) - 1 /\ i \in 1 .. Len(s) /\ i + 1 \in 1 .. Len(s) BY <1>1, <2>1
    <3> QED BY <3>1, <1>3 DEF Plan, Ordered
  <2>2. CASE i = Len(s)
    <3>1. Head(t) = t[1] /\ 1 \in 1 .. Len(t) /\ i \in 1 .. Len(s) BY <1>1, <2>2
    <3>2. r[i] = s[Len(s)] /\ r[i + 1] = t[1] BY <3>1, <1>3, <1>4, <2>2
    <3> QED BY <3>1, <3>2
  <2>3. CASE i > Len(s)
    <3> DEFINE j == i - Len(s)
    <3>1. j \in 1 .. Len(t) - 1 /\ j \in 1 .. Len(t) /\ j + 1 \in 1 .. Len(t)
          /\ i = Len(s) + j /\ i + 1 = Len(s) + (j + 1)
      BY <1>1, <1>2, <2>3
    <3>2. r[i] = t[j] /\ r[i + 1] = t[j + 1] BY <3>1, <1>4
    <3> QED BY <3>1, <3>2 DEF Plan, Ordered
  <2> QED BY <1>1, <1>2, <2>1, <2>2, <2>3
<1>6. r # <<>> BY <1>1, <1>2
<1>7. r \in Plan BY <1>2, <1>5, <1>6 DEF Plan, Ordered
<1> QED BY <1>7 DEF r

(* The handlers' sequences, and the parts of which the longer ones consist. *)
LEMMA PartsArePlans ==
    /\ Reread \in Plan /\ WriteBack \in Plan /\ Parse \in Plan /\ Read \in Plan
    /\ Guarded \in Plan /\ SyncSource \in Plan /\ Merge \in Plan
    /\ <<"identity", "serve">> \in Plan /\ <<"read">> \in Plan /\ <<"probe">> \in Plan
    /\ <<"vacant">> \in Plan
  BY DEF Plan, Ordered, Follows, Steps, Reread, WriteBack, Parse, Read, Guarded, SyncSource, Merge

(* The first step of two plans joined is the first's. *)
LEMMA ConcatHead ==
    ASSUME NEW s \in Plan, NEW t \in Plan
    PROVE  Head(s \o t) = Head(s)
<1>1. s \in Seq(Steps) /\ t \in Seq(Steps) /\ Len(s) > 0 BY DEF Plan
<1> QED BY <1>1

(* Every handler's sequence is a plan, and begins with a step that needs   *)
(* nothing from an earlier one.                                            *)
First == {"load", "read", "probe", "vacant", "identity"}

(* That is so for every tool, with and without a path. *)
LEMMA ProgramsArePlans ==
    ASSUME NEW tool \in Tools, NEW named \in BOOLEAN
    PROVE  /\ Program(tool, named) \in Plan
           /\ Head(Program(tool, named)) \in First
           /\ Head(Program(tool, named)) = "identity" => ~named
<1> DEFINE tail == <<"read">> \o WriteBack
<1>w. Head(WriteBack) = "write" BY DEF WriteBack
<1>s. /\ <<"read">>[Len(<<"read">>)] = "read" /\ Head(<<"read">>) = "read"
      /\ <<"probe">>[Len(<<"probe">>)] = "probe" /\ Head(<<"probe">>) = "probe"
      /\ <<"vacant">>[Len(<<"vacant">>)] = "vacant" /\ Head(<<"vacant">>) = "vacant"
  OBVIOUS
<1>f. <<"read", "write">> \in Follows /\ <<"probe", "write">> \in Follows
      /\ <<"vacant", "write">> \in Follows
  BY DEF Follows
<1>1. tail \in Plan /\ Head(tail) = "read"
  BY <1>w, <1>s, <1>f, PartsArePlans, ConcatOrdered, ConcatHead
<1>2. ImportStrings \in Plan /\ Head(ImportStrings) = "probe"
  BY <1>w, <1>s, <1>f, PartsArePlans, ConcatOrdered, ConcatHead DEF ImportStrings
<1>3. Create \in Plan /\ Head(Create) = "vacant"
  BY <1>w, <1>s, <1>f, PartsArePlans, ConcatOrdered, ConcatHead DEF Create
<1>4. KeyTool(TRUE) \in Plan /\ Head(KeyTool(TRUE)) = "read"
  <2>1. Reread[Len(Reread)] = "insert" /\ Head(Reread) = "read" BY DEF Reread
  <2>2. Reread \o tail \in Plan /\ Head(Reread \o tail) = "read"
    BY <1>1, <2>1, PartsArePlans, ConcatOrdered, ConcatHead DEF Follows
  <2> QED BY <2>2 DEF KeyTool, ResolveFile
<1>5. KeyTool(FALSE) \in Plan /\ Head(KeyTool(FALSE)) = "identity"
  <2> DEFINE r == <<"identity", "serve">>
  <2>1. r[Len(r)] = "serve" /\ Head(r) = "identity" OBVIOUS
  <2> HIDE DEF r
  <2>2. r \o tail \in Plan /\ Head(r \o tail) = "identity"
    BY <1>1, <2>1, PartsArePlans, ConcatOrdered, ConcatHead DEF Follows, r
  <2> QED BY <2>2 DEF KeyTool, ResolveFile, r
<1>6. Head(Parse) = "load" /\ Head(Read) = "load" /\ Head(Guarded) = "load"
      /\ Head(SyncSource) = "load" /\ Head(Merge) = "probe"
  BY DEF Parse, Read, Guarded, SyncSource, Merge
<1> QED BY <1>2, <1>3, <1>4, <1>5, <1>6, PartsArePlans DEF Program, Tools, First

-----------------------------------------------------------------------------
(* What the next store access relies on: a resolved identity, a catalog in *)
(* hand, an active entry.                                                  *)
NeedIdentity == {"serve", "keep", "commit", "refresh", "reload"}
NeedContent == {"stat", "insert", "update", "keep", "refresh"}

CallOK ==
    call # None =>
        /\ call.todo \in Plan
        /\ Head(call.todo) \in NeedIdentity => call.identity \in Files
        /\ Head(call.todo) \in NeedContent => call.content \in State
        /\ Head(call.todo) \in {"identity", "serve"} => Cached(active)

TypeInv == TypeOK /\ CallOK

(* A call that goes on keeps what it knows and takes a step that may       *)
(* follow.                                                                 *)
Follower(c) ==
    /\ call' \in Call
    /\ call'.todo \in Plan
    /\ <<Head(call.todo), Head(call'.todo)>> \in Follows
    /\ call'.path = c.path
    /\ call'.identity = c.identity
    /\ call'.content = c.content
    /\ call'.modified = c.modified

(* A call that proceeds with c returns or follows c. *)
LEMMA ProceedFollows ==
    ASSUME TypeInv, call # None, NEW c \in Call, c.todo = call.todo, Proceed(c)
    PROVE  call' = None \/ Follower(c)
<1>1. CASE Tail(call.todo) = <<>> BY <1>1 DEF Proceed
<1>2. CASE Tail(call.todo) # <<>>
  <2>1. Tail(call.todo) \in Plan /\ <<Head(call.todo), Head(Tail(call.todo))>> \in Follows
    BY <1>2, TailOrdered DEF TypeInv, CallOK
  <2>2. Tail(call.todo) \in Seq(Steps) BY <2>1 DEF Plan
  <2>3. call' = [c EXCEPT !.todo = Tail(call.todo)] BY <1>2 DEF Proceed
  <2> QED BY <2>1, <2>2, <2>3 DEF Follower, Call
<1> QED BY <1>1, <1>2

(* A call that goes on is fit for its next step when what that step needs  *)
(* is there.                                                               *)
LEMMA FollowerOK ==
    ASSUME NEW c, call' = None \/ Follower(c),
           call' # None => /\ Head(call'.todo) \in NeedIdentity => c.identity \in Files
                           /\ Head(call'.todo) \in NeedContent => c.content \in State
                           /\ Head(call'.todo) \in {"identity", "serve"} => Cached(active)'
    PROVE  call' \in Call \cup {None} /\ CallOK'
  BY DEF Follower, CallOK

(* Every path leads to a file.                                             *)
LEMMA IdentityIsFile ==
    ASSUME TypeOK, NEW p \in Paths
    PROVE  Identity(p) \in Files /\ At(p).content \in State /\ At(p).modified \in Times
  BY DEF TypeOK, Identity, At, Paths

(* A saved file has its new content and the clock's time.                  *)
LEMMA SaveTypes ==
    ASSUME TypeOK, NEW f \in Files, NEW c \in Contents, Save(f, c)
    PROVE  /\ file' = [file EXCEPT ![f] = [content |-> c, modified |-> clock']]
           /\ file' \in [Files -> [content : State, modified : Times]]
           /\ clock' \in Times /\ clock <= clock'
           /\ FineTimes => clock' = clock + 1
           /\ target' = target
<1>1. PICK t \in {clock + 1} \cup (IF FineTimes THEN {} ELSE {clock}) :
        t \in Times /\ file' = [file EXCEPT ![f] = [content |-> c, modified |-> t]]
        /\ clock' = t /\ target' = target
  BY DEF Save
<1>2. clock \in Nat BY BoundAssumption DEF TypeOK, Times
<1>3. [content |-> c, modified |-> t] \in [content : State, modified : Times]
  BY <1>1 DEF State
<1> QED BY <1>1, <1>2, <1>3 DEF TypeOK

(* An inserted entry leaves the cache typed.                               *)
LEMMA InsertTypes ==
    ASSUME TypeOK, NEW f \in Files, NEW p \in Paths, NEW c \in State, NEW m \in Times,
           Insert(f, Entry(p, c, m))
    PROVE  cache' \in [Files -> CachedFile \cup {None}] /\ active' \in Files
<1>1. Entry(p, c, m) \in CachedFile BY DEF Entry, CachedFile
<1> QED BY <1>1 DEF TypeOK, Insert

(* A step that touches neither the disk nor the cache, and goes on with c. *)
LEMMA QuietStepTypes ==
    ASSUME TypeInv, call # None, NEW c \in Call, c.todo = call.todo, Proceed(c),
           UNCHANGED <<disk, cache, active>>,
           call' # None => /\ Head(call'.todo) \in NeedIdentity => c.identity \in Files
                           /\ Head(call'.todo) \in NeedContent => c.content \in State
                           /\ Head(call'.todo) = "serve" => Cached(active),
           Head(call.todo) # "identity" \/ Cached(active)
    PROVE  TypeInv'
<1>1. call' = None \/ Follower(c) BY ProceedFollows
<1>2. call' # None => Head(call'.todo) # "identity" BY <1>1 DEF Follower, Follows
<1>3. Cached(active)' <=> Cached(active) BY DEF Cached
<1>4. call' \in Call \cup {None} /\ CallOK' BY <1>1, <1>2, <1>3, FollowerOK
<1> QED BY <1>4 DEF TypeInv, TypeOK, disk

(* A request begins with a step that needs nothing, or, without a path,    *)
(* with an active entry.                                                   *)
LEMMA BeginTypes == TypeInv /\ Begin => TypeInv'
<1> SUFFICES ASSUME TypeInv, Begin PROVE TypeInv' OBVIOUS
<1>1. PICK tool \in Tools, p \in Paths \cup {None}, l \in Locales \cup {None} :
        /\ p = None => tool \notin NeedPath /\ ActivePath # None
        /\ call' = [tool |-> tool, named |-> p # None,
                    path |-> IF p = None THEN ActivePath ELSE p,
                    todo |-> Program(tool, p # None),
                    identity |-> None, content |-> None, modified |-> 0,
                    known |-> None, locale |-> l]
  BY DEF Begin
<1>2. p = None => ActivePath \in Paths /\ Cached(active)
  BY <1>1 DEF ActivePath, Cached, TypeInv, TypeOK, CachedFile
<1>3. 0 \in Times BY BoundAssumption DEF Times
<1> DEFINE named == p # None
           prog == Program(tool, named)
           path == IF p = None THEN ActivePath ELSE p
<1>4. named \in BOOLEAN /\ path \in Paths BY <1>2
<1>5. call' = [tool |-> tool, named |-> named, path |-> path, todo |-> prog,
               identity |-> None, content |-> None, modified |-> 0,
               known |-> None, locale |-> l]
  BY <1>1
<1> HIDE DEF named, path
<1>6. prog \in Plan /\ Head(prog) \in First /\ (Head(prog) = "identity" => p = None)
  <2>1. ~named => p = None BY DEF named
  <2> QED BY <1>4, <2>1, ProgramsArePlans
<1> HIDE DEF prog
<1>7. call' \in Call BY <1>3, <1>6, <1>4, <1>5 DEF Call, Plan
<1>8. call'.todo = prog BY <1>5
<1>9. Cached(active)' <=> Cached(active) BY DEF Begin, Cached
<1>10. CallOK'
  <2>1. Head(prog) \notin NeedIdentity \cup NeedContent \cup {"serve"}
    BY <1>6 DEF First, NeedIdentity, NeedContent
  <2> QED BY <1>2, <1>6, <1>8, <1>9, <2>1 DEF CallOK
<1> QED BY <1>7, <1>10 DEF Begin, TypeInv, TypeOK, disk

(* So does a step that only reads the store. *)
LEMMA ReadingTypes ==
    TypeInv /\ (Load \/ ReadPath \/ Probe \/ Vacant \/ CheckIdentity \/ Stat) => TypeInv'
<1> SUFFICES ASSUME TypeInv, call # None,
                    Load \/ ReadPath \/ Probe \/ Vacant \/ CheckIdentity \/ Stat
             PROVE  TypeInv'
  BY DEF Doing, Load, ReadPath, Probe, Vacant, CheckIdentity, Stat
<1>1. call \in Call /\ CallOK BY DEF TypeInv, TypeOK
<1>2. call.path \in Paths BY <1>1 DEF Call
<1>3. Identity(call.path) \in Files /\ At(call.path).content \in State
      /\ At(call.path).modified \in Times
  BY <1>2, IdentityIsFile DEF TypeInv
<1>4. CASE Load
  <2> DEFINE c == [call EXCEPT !.identity = Identity(call.path),
                               !.content = At(call.path).content]
  <2>1. c \in Call /\ c.todo = call.todo /\ c.identity = Identity(call.path)
        /\ c.content = At(call.path).content
    BY <1>1, <1>3 DEF Call
  <2>2. Proceed(c) /\ UNCHANGED <<disk, cache, active>> /\ Head(call.todo) \in {"load", "reload"}
    BY <1>4 DEF Load, Doing
  <2> HIDE DEF c
  <2>3. call' = None \/ Follower(c) BY <2>1, <2>2, ProceedFollows
  <2>4. call' # None => Head(call'.todo) # "serve" BY <2>2, <2>3 DEF Follower, Follows
  <2> QED BY <1>3, <2>1, <2>2, <2>4, QuietStepTypes
<1>5. CASE ReadPath \/ Probe
  <2> DEFINE c == [call EXCEPT !.content = At(call.path).content]
  <2>1. c \in Call /\ c.todo = call.todo /\ c.content = At(call.path).content
    BY <1>1, <1>3 DEF Call
  <2>2. Proceed(c) /\ UNCHANGED <<disk, cache, active>> /\ Head(call.todo) \in {"read", "probe"}
    BY <1>5 DEF ReadPath, Probe, Doing
  <2> HIDE DEF c
  <2>3. call' = None \/ Follower(c) BY <2>1, <2>2, ProceedFollows
  <2>4. call' # None => Head(call'.todo) \notin NeedIdentity
    BY <2>2, <2>3 DEF Follower, Follows, NeedIdentity
  <2> QED BY <1>3, <2>1, <2>2, <2>4, QuietStepTypes DEF NeedIdentity
<1>6. CASE Vacant
  <2>1. Proceed(call) /\ UNCHANGED <<disk, cache, active>> /\ Head(call.todo) = "vacant"
    BY <1>6 DEF Vacant, Doing
  <2>2. call' = None \/ Follower(call) BY <1>1, <2>1, ProceedFollows
  <2>3. call' # None => Head(call'.todo) = "write" BY <2>1, <2>2 DEF Follower, Follows
  <2> QED BY <1>1, <2>1, <2>3, QuietStepTypes DEF NeedIdentity, NeedContent
<1>7. CASE CheckIdentity
  <2> DEFINE c == [call EXCEPT !.identity = Identity(call.path)]
  <2>1. c \in Call /\ c.todo = call.todo /\ c.identity = Identity(call.path)
    BY <1>1, <1>3 DEF Call
  <2>2. Proceed(c) /\ UNCHANGED <<disk, cache, active>> /\ Head(call.todo) = "identity"
    BY <1>7 DEF CheckIdentity, Doing
  <2>3. Cached(active) BY <1>1, <2>2 DEF CallOK
  <2> HIDE DEF c
  <2>4. call' = None \/ Follower(c) BY <2>1, <2>2, ProceedFollows
  <2>5. call' # None => Head(call'.todo) = "serve" BY <2>2, <2>4 DEF Follower, Follows
  <2> QED BY <1>3, <2>1, <2>2, <2>3, <2>5, QuietStepTypes DEF NeedContent
<1>8. CASE Stat
  <2> DEFINE c == [call EXCEPT !.modified = At(call.path).modified]
  <2>1. c \in Call /\ c.todo = call.todo /\ c.content = call.content
    BY <1>1, <1>3 DEF Call
  <2>2. Proceed(c) /\ UNCHANGED <<disk, cache, active>> /\ Head(call.todo) = "stat"
    BY <1>8 DEF Stat, Doing
  <2>3. call.content \in State BY <1>1, <2>2 DEF CallOK, NeedContent
  <2> HIDE DEF c
  <2>4. call' = None \/ Follower(c) BY <2>1, <2>2, ProceedFollows
  <2>5. call' # None => Head(call'.todo) \in {"insert", "update"}
    BY <2>2, <2>4 DEF Follower, Follows
  <2> QED BY <2>1, <2>2, <2>3, <2>5, QuietStepTypes DEF NeedIdentity
<1> QED BY <1>4, <1>5, <1>6, <1>7, <1>8

(* What resolve_file does without a path: serve the entry, or read again   *)
(* before the rest of the handler.                                         *)
LEMMA ServingTypes == TypeInv /\ (ServeCached \/ ServeFresh) => TypeInv'
<1> SUFFICES ASSUME TypeInv, call # None, Head(call.todo) = "serve", ServeCached \/ ServeFresh
             PROVE  TypeInv'
  BY DEF Doing, ServeCached, ServeFresh
<1>1. call \in Call /\ CallOK BY DEF TypeInv, TypeOK
<1>2. CASE ServeCached
  <2> DEFINE c == [call EXCEPT !.known = cache[active].content]
  <2>1. Cached(active) BY <1>1 DEF CallOK
  <2>2. cache[active].content \in State
    BY <2>1 DEF TypeInv, TypeOK, Cached, CachedFile
  <2>3. c \in Call /\ c.todo = call.todo BY <1>1, <2>2 DEF Call
  <2>4. Proceed(c) /\ UNCHANGED <<disk, cache, active>> BY <1>2 DEF ServeCached
  <2> HIDE DEF c
  <2>5. call' = None \/ Follower(c) BY <2>3, <2>4, ProceedFollows
  <2>6. call' # None => Head(call'.todo) = "read" BY <2>5 DEF Follower, Follows
  <2> QED BY <2>3, <2>4, <2>6, QuietStepTypes DEF NeedIdentity, NeedContent
<1>3. CASE ServeFresh
  <2> DEFINE rest == Reread \o Tail(call.todo)
  <2>1. Reread[Len(Reread)] = "insert" /\ Head(Reread) = "read" BY DEF Reread
  <2>2. Reread \in Plan BY PartsArePlans
  <2>3. rest \in Plan /\ Head(rest) = "read"
    <3>1. CASE Tail(call.todo) = <<>>
      <4>1. Reread \in Seq(Steps) BY <2>2 DEF Plan
      <4>2. rest = Reread BY <3>1, <4>1, ConcatEmptySeq
      <4> QED BY <2>1, <2>2, <4>2
    <3>2. CASE Tail(call.todo) # <<>>
      <4>1. Tail(call.todo) \in Plan /\ <<"serve", Head(Tail(call.todo))>> \in Follows
        BY <1>1, <3>2, TailOrdered DEF CallOK
      <4>2. <<"insert", Head(Tail(call.todo))>> \in Follows BY <4>1 DEF Follows
      <4> QED BY <2>1, <2>2, <4>1, <4>2, ConcatOrdered, ConcatHead
    <3> QED BY <3>1, <3>2
  <2>4. call' = [call EXCEPT !.todo = rest] /\ UNCHANGED <<disk, cache, active>>
    BY <1>3 DEF ServeFresh
  <2> HIDE DEF rest
  <2>5. rest \in Seq(Steps) BY <2>3 DEF Plan
  <2>6. call' \in Call /\ call'.todo = rest BY <1>1, <2>4, <2>5 DEF Call
  <2>7. CallOK' BY <2>3, <2>6 DEF CallOK, NeedIdentity, NeedContent
  <2> QED BY <2>4, <2>6, <2>7 DEF TypeInv, TypeOK, disk
<1> QED BY <1>2, <1>3

(* What changes the cache.                                                 *)
LEMMA CachingTypes == TypeInv /\ (InsertPath \/ InsertLoaded \/ Evict \/ Update) => TypeInv'
<1> SUFFICES ASSUME TypeInv, call # None, InsertPath \/ InsertLoaded \/ Evict \/ Update
             PROVE  TypeInv'
  BY DEF Doing, InsertPath, InsertLoaded, Evict, Update
<1>1. call \in Call /\ CallOK BY DEF TypeInv, TypeOK
<1>2. call.path \in Paths /\ call.modified \in Times BY <1>1 DEF Call
<1>3. Identity(call.path) \in Files BY <1>2, IdentityIsFile DEF TypeInv
<1>4. CASE InsertPath
  <2> DEFINE c == [call EXCEPT !.known = call.content]
  <2>1. Head(call.todo) = "insert" /\ Proceed(c) /\ UNCHANGED disk
        /\ Insert(Identity(call.path), Entry(call.path, call.content, call.modified))
    BY <1>4 DEF InsertPath, Doing
  <2>2. call.content \in State BY <1>1, <2>1 DEF CallOK, NeedContent
  <2>3. cache' \in [Files -> CachedFile \cup {None}] /\ active' \in Files
    BY <1>2, <1>3, <2>1, <2>2, InsertTypes DEF TypeInv
  <2>4. c \in Call /\ c.todo = call.todo BY <1>1, <2>2 DEF Call
  <2> HIDE DEF c
  <2>5. call' = None \/ Follower(c) BY <2>1, <2>4, ProceedFollows
  <2>6. call' # None => Head(call'.todo) = "read" BY <2>1, <2>5 DEF Follower, Follows
  <2>7. call' \in Call \cup {None} /\ CallOK'
    BY <2>5, <2>6, FollowerOK DEF NeedIdentity, NeedContent
  <2> QED BY <2>1, <2>3, <2>7 DEF TypeInv, TypeOK, disk
<1>5. CASE InsertLoaded
  <2>1. Head(call.todo) \in {"keep", "refresh"} /\ Proceed(call) /\ UNCHANGED disk
        /\ Insert(call.identity, Entry(call.path, call.content, file[call.identity].modified))
    BY <1>5 DEF InsertLoaded, Doing
  <2>2. call.content \in State /\ call.identity \in Files
    BY <1>1, <2>1 DEF CallOK, NeedContent, NeedIdentity
  <2>3. file[call.identity].modified \in Times BY <2>2 DEF TypeInv, TypeOK
  <2>4. cache' \in [Files -> CachedFile \cup {None}] /\ active' \in Files
    BY <1>2, <2>1, <2>2, <2>3, InsertTypes DEF TypeInv
  <2>5. call' = None \/ Follower(call) BY <1>1, <2>1, ProceedFollows
  <2>6. call' = None BY <2>1, <2>5 DEF Follower, Follows
  <2> QED BY <2>1, <2>4, <2>6 DEF TypeInv, TypeOK, CallOK, disk
<1>6. CASE Evict BY <1>6 DEF Evict, TypeInv, TypeOK, CallOK, disk
<1>7. CASE Update
  <2> DEFINE f == Identity(call.path)
             e == Entry(cache[f].path, call.content, call.modified)
  <2>1. Head(call.todo) = "update" /\ Proceed(call) /\ UNCHANGED <<disk, active>>
        /\ cache' = IF Cached(f) THEN [cache EXCEPT ![f] = e] ELSE cache
    BY <1>7 DEF Update, Doing
  <2>2. call.content \in State BY <1>1, <2>1 DEF CallOK, NeedContent
  <2>3. Cached(f) => e \in CachedFile
    BY <1>2, <1>3, <2>2 DEF TypeInv, TypeOK, Cached, CachedFile, Entry
  <2> HIDE DEF e
  <2>4. cache' \in [Files -> CachedFile \cup {None}] BY <2>1, <2>3 DEF TypeInv, TypeOK
  <2>5. call' = None \/ Follower(call) BY <1>1, <2>1, ProceedFollows
  <2>6. call' = None BY <2>1, <2>5 DEF Follower, Follows
  <2> QED BY <2>1, <2>4, <2>6 DEF TypeInv, TypeOK, CallOK, disk
<1> QED BY <1>4, <1>5, <1>6, <1>7

(* What changes a catalog, by path or by the identity it was loaded from.  *)
LEMMA WritingTypes == TypeInv /\ (Write \/ Commit \/ Replace) => TypeInv'
<1> SUFFICES ASSUME TypeInv, call # None, Write \/ Commit \/ Replace
             PROVE  TypeInv'
  BY DEF Doing, Write, Commit, Replace
<1>1. call \in Call /\ CallOK BY DEF TypeInv, TypeOK
<1>2. call.path \in Paths BY <1>1 DEF Call
<1>3. Identity(call.path) \in Files BY <1>2, IdentityIsFile DEF TypeInv
<1>4. Candidates \subseteq Contents BY DEF Candidates
<1>5. Head(call.todo) = "commit" => call.identity \in Files BY <1>1 DEF CallOK, NeedIdentity
<1>6. PICK f \in Files, d \in Contents :
        Save(f, d) /\ Proceed([call EXCEPT !.content = d]) /\ UNCHANGED <<cache, active>>
        /\ Head(call.todo) \in {"write", "commit", "replace"}
  BY <1>3, <1>4, <1>5 DEF Write, Commit, Replace, Doing
<1> DEFINE c == [call EXCEPT !.content = d]
<1>7. d \in State BY DEF State
<1>8. c \in Call /\ c.todo = call.todo /\ c.content = d /\ c.identity = call.identity
  BY <1>1, <1>7 DEF Call
<1>9. Proceed(c) BY <1>6
<1> HIDE DEF c
<1>10. call' = None \/ Follower(c) BY <1>8, <1>9, ProceedFollows
<1>11. call' # None => /\ Head(call'.todo) \in NeedIdentity => c.identity \in Files
                       /\ Head(call'.todo) \notin {"identity", "serve"}
  BY <1>5, <1>6, <1>8, <1>10 DEF Follower, Follows, NeedIdentity
<1>12. call' \in Call \cup {None} /\ CallOK' BY <1>7, <1>8, <1>10, <1>11, FollowerOK
<1>13. /\ file' \in [Files -> [content : State, modified : Times]]
       /\ clock' \in Times /\ target' = target
  BY <1>6, SaveTypes DEF TypeInv
<1> QED BY <1>6, <1>12, <1>13 DEF TypeInv, TypeOK

(* What other processes do, and a request that ends early.                 *)
LEMMA OtherTypes == TypeInv /\ (Fail \/ OutsideSave \/ Redirect) => TypeInv'
<1> SUFFICES ASSUME TypeInv, Fail \/ OutsideSave \/ Redirect PROVE TypeInv' OBVIOUS
<1>1. CASE Fail BY <1>1 DEF Fail, TypeInv, TypeOK, CallOK, disk
<1>2. CASE OutsideSave
  <2>1. PICK f \in Files, d \in Contents : Save(f, d) BY <1>2 DEF OutsideSave
  <2>2. /\ file' \in [Files -> [content : State, modified : Times]]
        /\ clock' \in Times /\ target' = target
    BY <2>1, SaveTypes DEF TypeInv
  <2>3. UNCHANGED <<cache, active, call>> BY <1>2 DEF OutsideSave
  <2> QED BY <2>2, <2>3 DEF TypeInv, TypeOK, CallOK, Cached
<1>3. CASE Redirect
  <2>1. UNCHANGED <<file, clock, cache, active, call>> /\ target' \in [Aliases -> Files]
    BY <1>3 DEF Redirect, TypeInv, TypeOK
  <2> QED BY <2>1 DEF TypeInv, TypeOK, CallOK, Cached
<1> QED BY <1>1, <1>2, <1>3

(* TypeInv is inductive. *)
LEMMA NextTypes == TypeInv /\ [Next]_vars => TypeInv'
<1> SUFFICES ASSUME TypeInv, [Next]_vars PROVE TypeInv' OBVIOUS
<1>1. CASE UNCHANGED vars
  BY <1>1 DEF vars, disk, TypeInv, TypeOK, CallOK, Cached
<1>2. CASE Next
  BY <1>2, BeginTypes, ReadingTypes, ServingTypes, CachingTypes, WritingTypes, OtherTypes
     DEF Next
<1> QED BY <1>1, <1>2

(* In the initial state there is no request and nothing is cached.         *)
LEMMA InitTypes == Init => TypeInv
<1> SUFFICES ASSUME Init PROVE TypeInv OBVIOUS
<1>1. 0 \in Times BY BoundAssumption DEF Times
<1>2. file \in [Files -> [content : State, modified : Times]] BY <1>1 DEF Init
<1>3. target \in [Aliases -> Files] BY DEF Init
<1> QED BY <1>1, <1>2, <1>3 DEF Init, TypeInv, TypeOK, CallOK

(* TypeOK always holds: every path a request uses leads to a file, the     *)
(* cache is keyed by files, and no handler reads what it has not got.      *)
THEOREM TypeCorrect == Spec => []TypeOK
<1>1. TypeInv => TypeOK BY DEF TypeInv
<1> QED BY <1>1, InitTypes, NextTypes, PTL DEF Spec

-----------------------------------------------------------------------------
(* Freshness, where nothing comes between the steps of a request and no    *)
(* two saves get one time.  An entry with its file's time has its file's   *)
(* content; no time lies ahead of the clock, so a save gives a new one; and *)
(* what a request is about to insert is what the file holds.               *)
CacheFresh ==
    \A f \in Files :
        Cached(f) /\ cache[f].modified = file[f].modified
            => cache[f].content = file[f].content

TimesBounded ==
    /\ \A f \in Files : file[f].modified <= clock
    /\ \A f \in Files : Cached(f) => cache[f].modified <= clock

CallFresh ==
    call # None =>
        /\ Head(call.todo) \in {"stat", "insert", "update"}
            => call.content = At(call.path).content
        /\ Head(call.todo) \in {"insert", "update"}
            => call.modified = At(call.path).modified
        /\ Head(call.todo) \in {"keep", "refresh"}
            => call.content = file[call.identity].content
        /\ Head(call.todo) = "serve" => call.identity = Identity(call.path)

FreshInv == TypeInv /\ CacheFresh /\ TimesBounded /\ CallFresh

(* An entry made of what its file holds keeps the cache fresh.             *)
LEMMA EntryFresh ==
    ASSUME FreshInv, UNCHANGED disk, NEW f \in Files, NEW e,
           e.content = file[f].content, e.modified = file[f].modified,
           \A g \in Files : Cached(g)' =>
                \/ g = f /\ cache'[g] = e
                \/ Cached(g) /\ cache'[g] = cache[g]
    PROVE  CacheFresh' /\ TimesBounded'
<1>1. file' = file /\ clock' = clock BY DEF disk
<1>2. file[f].modified <= clock BY DEF FreshInv, TimesBounded
<1> QED BY <1>1, <1>2 DEF FreshInv, CacheFresh, TimesBounded

(* A save gives its file a time no entry has.                              *)
LEMMA SaveFresh ==
    ASSUME FineTimes, FreshInv, NEW f \in Files, NEW c \in Contents, Save(f, c),
           UNCHANGED cache
    PROVE  CacheFresh' /\ TimesBounded' /\ file'[f].content = c /\ target' = target
<1>1. /\ file' = [file EXCEPT ![f] = [content |-> c, modified |-> clock']]
      /\ clock' = clock + 1 /\ target' = target
  BY SaveTypes DEF FreshInv, TypeInv
<1>2. file'[f].content = c /\ file'[f].modified = clock + 1
  BY <1>1 DEF FreshInv, TypeInv, TypeOK
<1>3. \A g \in Files : g # f => file'[g] = file[g]
  BY <1>1 DEF FreshInv, TypeInv, TypeOK
<1>4. \A g \in Files : file[g].modified \in Nat /\ (Cached(g) => cache[g].modified \in Nat)
  BY BoundAssumption DEF FreshInv, TypeInv, TypeOK, Cached, CachedFile, Times
<1>5. clock \in Nat BY BoundAssumption DEF FreshInv, TypeInv, TypeOK, Times
<1>6. \A g \in Files : Cached(g)' <=> Cached(g) BY DEF Cached
<1>7. CacheFresh'
  <2> SUFFICES ASSUME NEW g \in Files, Cached(g), cache[g].modified = file'[g].modified
               PROVE  cache[g].content = file'[g].content
    BY <1>6 DEF CacheFresh
  <2>1. CASE g = f BY <1>2, <1>4, <1>5, <2>1 DEF FreshInv, TimesBounded
  <2>2. CASE g # f BY <1>3, <2>2 DEF FreshInv, CacheFresh
  <2> QED BY <2>1, <2>2
<1>8. TimesBounded'
  <2> SUFFICES ASSUME NEW g \in Files
               PROVE  file'[g].modified <= clock' /\ (Cached(g) => cache[g].modified <= clock')
    BY <1>6 DEF TimesBounded
  <2>1. file[g].modified <= clock /\ (Cached(g) => cache[g].modified <= clock)
    BY DEF FreshInv, TimesBounded
  <2>2. CASE g = f BY <1>1, <1>2, <1>4, <1>5, <2>1, <2>2
  <2>3. CASE g # f BY <1>1, <1>3, <1>4, <1>5, <2>1, <2>3
  <2> QED BY <2>2, <2>3
<1> QED BY <1>1, <1>2, <1>7, <1>8

(* A request that goes on with c carries what its next step inserts.       *)
LEMMA FollowerFresh ==
    ASSUME NEW c, call' = None \/ Follower(c),
           call' # None =>
             /\ Head(call'.todo) \in {"stat", "insert", "update"}
                  => c.content = file'[Identity(c.path)'].content
             /\ Head(call'.todo) \in {"insert", "update"}
                  => c.modified = file'[Identity(c.path)'].modified
             /\ Head(call'.todo) \in {"keep", "refresh"} => c.content = file'[c.identity].content
             /\ Head(call'.todo) = "serve" => c.identity = Identity(c.path)'
    PROVE  CallFresh'
  BY DEF Follower, CallFresh, At, Identity

(* Steps that change neither the disk nor the cache.                       *)
LEMMA QuietStepFresh ==
    ASSUME FreshInv,
           \/ Begin \/ Load \/ ReadPath \/ Probe \/ Vacant \/ CheckIdentity
           \/ ServeCached \/ ServeFresh \/ Stat \/ Fail
    PROVE  CacheFresh' /\ TimesBounded' /\ CallFresh'
<1>1. UNCHANGED <<disk, cache>>
  BY DEF Begin, Load, ReadPath, Probe, Vacant, CheckIdentity, ServeCached, ServeFresh, Stat, Fail
<1>2. CacheFresh' /\ TimesBounded'
  BY <1>1 DEF FreshInv, CacheFresh, TimesBounded, Cached, disk
<1> SUFFICES CallFresh' BY <1>2
<1>3. file' = file /\ target' = target BY <1>1 DEF disk
<1>4. \A p : Identity(p)' = Identity(p) BY <1>3 DEF Identity
<1>5. TypeInv /\ CallFresh BY DEF FreshInv
<1>6. call # None => call \in Call BY <1>5 DEF TypeInv, TypeOK
<1>7. CASE Begin
  <2>1. PICK tool \in Tools, p \in Paths \cup {None} : call'.todo = Program(tool, p # None)
    BY <1>7 DEF Begin
  <2> DEFINE named == p # None
  <2>2. named \in BOOLEAN /\ call'.todo = Program(tool, named) BY <2>1
  <2> HIDE DEF named
  <2>3. Head(call'.todo) \in First BY <2>2, ProgramsArePlans
  <2> QED BY <2>3 DEF CallFresh, First
<1>8. CASE Load
  <2> DEFINE c == [call EXCEPT !.identity = Identity(call.path),
                               !.content = At(call.path).content]
  <2>1. call # None /\ Proceed(c) /\ Head(call.todo) \in {"load", "reload"}
    BY <1>8 DEF Load, Doing
  <2>2. Identity(call.path) \in Files /\ At(call.path).content \in State
    BY <1>5, <1>6, <2>1, IdentityIsFile DEF TypeInv, Call
  <2>3. c \in Call /\ c.todo = call.todo /\ c.identity = Identity(call.path)
        /\ c.content = At(call.path).content /\ c.path = call.path
    BY <1>6, <2>1, <2>2 DEF Call
  <2> HIDE DEF c
  <2>4. call' = None \/ Follower(c) BY <1>5, <2>1, <2>3, ProceedFollows
  <2>5. call' # None => Head(call'.todo) \notin {"insert", "update", "serve"}
    BY <2>1, <2>4 DEF Follower, Follows
  <2> QED BY <1>3, <1>4, <2>3, <2>4, <2>5, FollowerFresh DEF At
<1>9. CASE ReadPath \/ Probe
  <2> DEFINE c == [call EXCEPT !.content = At(call.path).content]
  <2>1. call # None /\ Proceed(c) /\ Head(call.todo) \in {"read", "probe"}
    BY <1>9 DEF ReadPath, Probe, Doing
  <2>2. At(call.path).content \in State
    BY <1>5, <1>6, <2>1, IdentityIsFile DEF TypeInv, Call
  <2>3. c \in Call /\ c.todo = call.todo /\ c.content = At(call.path).content
        /\ c.path = call.path
    BY <1>6, <2>1, <2>2 DEF Call
  <2> HIDE DEF c
  <2>4. call' = None \/ Follower(c) BY <1>5, <2>1, <2>3, ProceedFollows
  <2>5. call' # None => Head(call'.todo) \in {"stat", "write", "replace"}
    BY <2>1, <2>4 DEF Follower, Follows
  <2> QED BY <1>3, <1>4, <2>3, <2>4, <2>5, FollowerFresh DEF At
<1>10. CASE Vacant
  <2>1. call # None /\ Proceed(call) /\ Head(call.todo) = "vacant" BY <1>10 DEF Vacant, Doing
  <2>2. call' = None \/ Follower(call) BY <1>5, <1>6, <2>1, ProceedFollows
  <2>3. call' # None => Head(call'.todo) = "write" BY <2>1, <2>2 DEF Follower, Follows
  <2> QED BY <2>2, <2>3, FollowerFresh
<1>11. CASE CheckIdentity
  <2> DEFINE c == [call EXCEPT !.identity = Identity(call.path)]
  <2>1. call # None /\ Proceed(c) /\ Head(call.todo) = "identity"
    BY <1>11 DEF CheckIdentity, Doing
  <2>2. Identity(call.path) \in Files
    BY <1>5, <1>6, <2>1, IdentityIsFile DEF TypeInv, Call
  <2>3. c \in Call /\ c.todo = call.todo /\ c.identity = Identity(call.path)
        /\ c.path = call.path
    BY <1>6, <2>1, <2>2 DEF Call
  <2> HIDE DEF c
  <2>4. call' = None \/ Follower(c) BY <1>5, <2>1, <2>3, ProceedFollows
  <2>5. call' # None => Head(call'.todo) = "serve" BY <2>1, <2>4 DEF Follower, Follows
  <2> QED BY <1>4, <2>3, <2>4, <2>5, FollowerFresh
<1>12. CASE ServeCached
  <2> DEFINE c == [call EXCEPT !.known = cache[active].content]
  <2>1. call # None /\ Proceed(c) /\ Head(call.todo) = "serve" BY <1>12 DEF ServeCached, Doing
  <2>2. cache[active].content \in State
    BY <1>5, <2>1 DEF TypeInv, TypeOK, CallOK, Cached, CachedFile
  <2>3. c \in Call /\ c.todo = call.todo BY <1>6, <2>1, <2>2 DEF Call
  <2> HIDE DEF c
  <2>4. call' = None \/ Follower(c) BY <1>5, <2>1, <2>3, ProceedFollows
  <2>5. call' # None => Head(call'.todo) = "read" BY <2>1, <2>4 DEF Follower, Follows
  <2> QED BY <2>4, <2>5, FollowerFresh
<1>13. CASE ServeFresh
  <2> DEFINE t == Tail(call.todo)
  <2>1. call # None /\ Head(call.todo) = "serve" /\ call' = [call EXCEPT !.todo = Reread \o t]
    BY <1>13 DEF ServeFresh, Doing
  <2>2. call.todo \in Seq(Steps) /\ call.todo # <<>> BY <1>5, <2>1 DEF TypeInv, CallOK, Plan
  <2>3. t \in Seq(Steps) BY <2>2
  <2> HIDE DEF t
  <2>4. call'.todo = Reread \o t BY <1>6, <2>1 DEF Call
  <2>5. Head(Reread \o t) = "read" BY <2>3 DEF Reread, Steps
  <2> QED BY <2>4, <2>5 DEF CallFresh
<1>14. CASE Stat
  <2> DEFINE c == [call EXCEPT !.modified = At(call.path).modified]
  <2>1. call # None /\ Proceed(c) /\ Head(call.todo) = "stat" BY <1>14 DEF Stat, Doing
  <2>2. At(call.path).modified \in Times
    BY <1>5, <1>6, <2>1, IdentityIsFile DEF TypeInv, Call
  <2>3. c \in Call /\ c.todo = call.todo /\ c.modified = At(call.path).modified
        /\ c.path = call.path /\ c.content = call.content
    BY <1>6, <2>1, <2>2 DEF Call
  <2>4. call.content = At(call.path).content BY <1>5, <2>1 DEF CallFresh
  <2> HIDE DEF c
  <2>5. call' = None \/ Follower(c) BY <1>5, <2>1, <2>3, ProceedFollows
  <2>6. call' # None => Head(call'.todo) \in {"insert", "update"}
    BY <2>1, <2>5 DEF Follower, Follows
  <2> QED BY <1>3, <1>4, <2>3, <2>4, <2>5, <2>6, FollowerFresh DEF At
<1>15. CASE Fail BY <1>15 DEF Fail, CallFresh
<1> QED BY <1>7, <1>8, <1>9, <1>10, <1>11, <1>12, <1>13, <1>14, <1>15

(* Steps that change the cache.                                            *)
LEMMA CachingStepFresh ==
    ASSUME FreshInv, InsertPath \/ InsertLoaded \/ Evict \/ Update
    PROVE  CacheFresh' /\ TimesBounded' /\ CallFresh'
<1>1. call # None /\ UNCHANGED disk
  BY DEF InsertPath, InsertLoaded, Evict, Update, Doing
<1>2. TypeInv /\ CallFresh /\ call \in Call BY <1>1 DEF FreshInv, TypeInv, TypeOK
<1>3. call.path \in Paths /\ Identity(call.path) \in Files
  BY <1>2, IdentityIsFile DEF TypeInv, Call
<1>4. CASE InsertPath
  <2> DEFINE f == Identity(call.path)
             e == Entry(call.path, call.content, call.modified)
             c == [call EXCEPT !.known = call.content]
  <2>1. Head(call.todo) = "insert" /\ Proceed(c) /\ Insert(f, e) BY <1>4 DEF InsertPath, Doing
  <2>2. e.content = file[f].content /\ e.modified = file[f].modified
    BY <1>1, <1>2, <2>1 DEF CallFresh, Entry, At
  <2>3. call.content \in State BY <1>1, <1>2, <2>1 DEF TypeInv, CallOK, NeedContent
  <2>4. c \in Call /\ c.todo = call.todo BY <1>2, <2>3 DEF Call
  <2> HIDE DEF e, c
  <2>5. \A g \in Files : Cached(g)' =>
            (g = f /\ cache'[g] = e) \/ (Cached(g) /\ cache'[g] = cache[g])
    BY <2>1 DEF Insert, Cached
  <2>6. CacheFresh' /\ TimesBounded' BY <1>1, <1>3, <2>2, <2>5, EntryFresh
  <2>7. call' = None \/ Follower(c) BY <1>1, <1>2, <2>1, <2>4, ProceedFollows
  <2>8. call' # None => Head(call'.todo) = "read" BY <2>1, <2>7 DEF Follower, Follows
  <2> QED BY <2>6, <2>7, <2>8, FollowerFresh
<1>5. CASE InsertLoaded
  <2> DEFINE f == call.identity
             e == Entry(call.path, call.content, file[call.identity].modified)
  <2>1. Head(call.todo) \in {"keep", "refresh"} /\ Proceed(call) /\ Insert(f, e)
    BY <1>5 DEF InsertLoaded, Doing
  <2>2. e.content = file[f].content /\ e.modified = file[f].modified
    BY <1>1, <1>2, <2>1 DEF CallFresh, Entry
  <2>3. f \in Files BY <1>1, <1>2, <2>1 DEF TypeInv, CallOK, NeedIdentity
  <2> HIDE DEF e, f
  <2>4. \A g \in Files : Cached(g)' =>
            (g = f /\ cache'[g] = e) \/ (Cached(g) /\ cache'[g] = cache[g])
    BY <2>1 DEF Insert, Cached
  <2>5. CacheFresh' /\ TimesBounded' BY <1>1, <2>2, <2>3, <2>4, EntryFresh
  <2>6. call' = None \/ Follower(call) BY <1>1, <1>2, <2>1, ProceedFollows
  <2>7. call' = None BY <2>1, <2>6 DEF Follower, Follows
  <2> QED BY <2>5, <2>7 DEF CallFresh
<1>6. CASE Evict
  <2>1. cache' = [cache EXCEPT ![call.identity] = None] /\ call' = None BY <1>6 DEF Evict
  <2>2. \A g \in Files : Cached(g)' => Cached(g) /\ cache'[g] = cache[g]
    BY <1>2, <2>1 DEF TypeInv, TypeOK, Cached
  <2> QED BY <1>1, <2>1, <2>2 DEF FreshInv, CacheFresh, TimesBounded, CallFresh, disk
<1>7. CASE Update
  <2> DEFINE f == Identity(call.path)
             e == Entry(cache[f].path, call.content, call.modified)
  <2>1. Head(call.todo) = "update" /\ Proceed(call)
        /\ cache' = IF Cached(f) THEN [cache EXCEPT ![f] = e] ELSE cache
    BY <1>7 DEF Update, Doing
  <2>2. e.content = file[f].content /\ e.modified = file[f].modified
    BY <1>1, <1>2, <2>1 DEF CallFresh, Entry, At
  <2> HIDE DEF e
  <2>3. \A g \in Files : Cached(g)' =>
            (g = f /\ cache'[g] = e) \/ (Cached(g) /\ cache'[g] = cache[g])
    BY <1>2, <2>1 DEF TypeInv, TypeOK, Cached
  <2>4. CacheFresh' /\ TimesBounded' BY <1>1, <1>3, <2>2, <2>3, EntryFresh
  <2>5. call' = None \/ Follower(call) BY <1>1, <1>2, <2>1, ProceedFollows
  <2>6. call' = None BY <2>1, <2>5 DEF Follower, Follows
  <2> QED BY <2>4, <2>6 DEF CallFresh
<1> QED BY <1>4, <1>5, <1>6, <1>7

(* Steps that save a catalog.                                              *)
LEMMA WritingStepFresh ==
    ASSUME FineTimes, FreshInv, Write \/ Commit \/ Replace
    PROVE  CacheFresh' /\ TimesBounded' /\ CallFresh'
<1>1. call # None BY DEF Write, Commit, Replace, Doing
<1>2. TypeInv /\ call \in Call BY <1>1 DEF FreshInv, TypeInv, TypeOK
<1>3. call.path \in Paths /\ Identity(call.path) \in Files
  BY <1>2, IdentityIsFile DEF TypeInv, Call
<1>4. Head(call.todo) = "commit" => call.identity \in Files
  BY <1>1, <1>2 DEF TypeInv, CallOK, NeedIdentity
<1>5. Candidates \subseteq Contents BY DEF Candidates
<1>6. PICK f \in Files, d \in Contents :
        /\ Save(f, d) /\ Proceed([call EXCEPT !.content = d]) /\ UNCHANGED cache
        /\ \/ Head(call.todo) \in {"write", "replace"} /\ f = Identity(call.path)
           \/ Head(call.todo) = "commit" /\ f = call.identity
  BY <1>3, <1>4, <1>5 DEF Write, Commit, Replace, Doing
<1> DEFINE c == [call EXCEPT !.content = d]
<1>7. c \in Call /\ c.todo = call.todo /\ c.content = d /\ c.identity = call.identity
      /\ c.path = call.path
  BY <1>2 DEF Call, State
<1>8. Proceed(c) BY <1>6
<1> HIDE DEF c
<1>9. call' = None \/ Follower(c) BY <1>1, <1>2, <1>7, <1>8, ProceedFollows
<1>10. CacheFresh' /\ TimesBounded' /\ file'[f].content = d /\ target' = target
  BY <1>6, SaveFresh
<1>11. \A p : Identity(p)' = Identity(p) BY <1>10 DEF Identity
<1>12. CASE Head(call.todo) \in {"write", "replace"}
  <2>1. call' # None => Head(call'.todo) = "stat" BY <1>9, <1>12 DEF Follower, Follows
  <2>2. f = Identity(c.path)
    BY <1>6, <1>7, <1>12
  <2> QED BY <1>7, <1>9, <1>10, <1>11, <2>1, <2>2, FollowerFresh
<1>13. CASE Head(call.todo) = "commit"
  <2>1. call' # None => Head(call'.todo) \in {"refresh", "reload"}
    BY <1>9, <1>13 DEF Follower, Follows
  <2>2. file'[c.identity].content = d BY <1>6, <1>7, <1>10, <1>13
  <2> QED BY <1>7, <1>9, <1>10, <2>1, <2>2, FollowerFresh
<1> QED BY <1>6, <1>12, <1>13

(* FreshInv is inductive when others act between requests only.            *)
LEMMA NextFresh ==
    ASSUME ~Interrupts, FineTimes
    PROVE  FreshInv /\ [Next]_vars => FreshInv'
<1> SUFFICES ASSUME FreshInv, [Next]_vars
             PROVE  CacheFresh' /\ TimesBounded' /\ CallFresh'
  BY NextTypes DEF FreshInv
<1>1. CASE UNCHANGED vars
  BY <1>1 DEF vars, disk, FreshInv, CacheFresh, TimesBounded, CallFresh, Cached, At, Identity
<1>2. CASE OutsideSave
  <2>1. call' = None /\ UNCHANGED cache BY <1>2 DEF OutsideSave, OutsideTurn
  <2>2. PICK f \in Files, d \in Contents : Save(f, d) BY <1>2 DEF OutsideSave
  <2>3. CacheFresh' /\ TimesBounded' BY <2>1, <2>2, SaveFresh
  <2> QED BY <2>1, <2>3 DEF CallFresh
<1>3. CASE Redirect
  <2>1. call' = None /\ UNCHANGED <<file, clock, cache>> BY <1>3 DEF Redirect, OutsideTurn
  <2> QED BY <2>1 DEF FreshInv, CacheFresh, TimesBounded, CallFresh, Cached
<1> QED BY <1>1, <1>2, <1>3, QuietStepFresh, CachingStepFresh, WritingStepFresh DEF Next

(* At first the cache is empty.                                            *)
LEMMA InitFresh == Init => FreshInv
<1> SUFFICES ASSUME Init PROVE CacheFresh /\ TimesBounded /\ CallFresh
  BY InitTypes DEF FreshInv
<1> QED BY DEF Init, CacheFresh, TimesBounded, CallFresh, Cached

(* HitIsFresh always holds where requests are not interrupted and no two   *)
(* saves have one time: resolve_file never serves an entry that its file   *)
(* has left behind, in whatever order requests, saves and redirections     *)
(* come.                                                                   *)
THEOREM HitsFresh ==
    ASSUME ~Interrupts, FineTimes
    PROVE  Spec => []HitIsFresh
<1>1. FreshInv /\ [Next]_vars => FreshInv' BY NextFresh
<1>2. FreshInv => HitIsFresh
  <2> SUFFICES ASSUME FreshInv, Doing("serve"), Unchanged
               PROVE  cache[active].content = At(call.path).content
    BY DEF HitIsFresh
  <2>1. call # None /\ Head(call.todo) = "serve" BY DEF Doing
  <2>2. call.identity = Identity(call.path) /\ Cached(active)
    BY <2>1 DEF FreshInv, TypeInv, CallOK, CallFresh
  <2>3. active \in Files BY <2>2 DEF FreshInv, TypeInv, TypeOK, Cached
  <2> QED BY <2>2, <2>3 DEF FreshInv, CacheFresh, Unchanged, At
<1> QED BY <1>1, <1>2, InitFresh, PTL DEF Spec

-----------------------------------------------------------------------------
(* A request without a path works on the path of the active entry until it *)
(* ends, and a merge has nothing ahead that makes an entry active.         *)
MergeSteps ==
    {<<"probe", "replace", "stat", "update">>, <<"replace", "stat", "update">>,
     <<"stat", "update">>, <<"update">>}

KeptInv ==
    /\ TypeInv
    /\ call # None /\ ~call.named => ActivePath = call.path
    /\ call # None /\ call.tool = "merge" => call.todo \in MergeSteps

(* What is left of a merge.                                                *)
LEMMA MergeTails ==
    ASSUME NEW s \in MergeSteps
    PROVE  /\ Head(s) \in {"probe", "replace", "stat", "update"}
           /\ Tail(s) = <<>> \/ Tail(s) \in MergeSteps
<1>1. CASE s = <<"probe", "replace", "stat", "update">>
  <2>1. Head(s) = "probe" /\ Tail(s) = <<"replace", "stat", "update">> BY <1>1
  <2> QED BY <2>1 DEF MergeSteps
<1>2. CASE s = <<"replace", "stat", "update">>
  <2>1. Head(s) = "replace" /\ Tail(s) = <<"stat", "update">> BY <1>2
  <2> QED BY <2>1 DEF MergeSteps
<1>3. CASE s = <<"stat", "update">>
  <2>1. Head(s) = "stat" /\ Tail(s) = <<"update">> BY <1>3
  <2> QED BY <2>1 DEF MergeSteps
<1>4. CASE s = <<"update">>
  <2>1. Head(s) = "update" /\ Tail(s) = <<>> BY <1>4
  <2> QED BY <2>1
<1> QED BY <1>1, <1>2, <1>3, <1>4 DEF MergeSteps

(* A call that proceeds keeps what was asked.                              *)
LEMMA ProceedKeeps ==
    ASSUME KeptInv, call # None, NEW c, Proceed(c), c \in Call,
           c.named = call.named, c.path = call.path, c.tool = call.tool, c.todo = call.todo,
           ActivePath' = ActivePath \/ (ActivePath' = call.path /\ call.tool # "merge")
    PROVE  /\ call' # None /\ ~call'.named => ActivePath' = call'.path
           /\ call' # None /\ call'.tool = "merge" => call'.todo \in MergeSteps
<1> SUFFICES ASSUME call' # None
             PROVE  /\ ~call'.named => ActivePath' = call'.path
                    /\ call'.tool = "merge" => call'.todo \in MergeSteps
  OBVIOUS
<1>1. call' = [c EXCEPT !.todo = Tail(call.todo)] /\ Tail(call.todo) # <<>> BY DEF Proceed
<1>2. call'.named = call.named /\ call'.path = call.path /\ call'.tool = call.tool
      /\ call'.todo = Tail(call.todo)
  BY <1>1 DEF Call
<1>3. call.tool = "merge" => Tail(call.todo) \in MergeSteps
  BY <1>1, MergeTails DEF KeptInv
<1> QED BY <1>2, <1>3 DEF KeptInv

(* An inserted entry is the active one, under the path of the request.     *)
LEMMA InsertActivates ==
    ASSUME TypeInv, NEW f \in Files, NEW p \in Paths, NEW c \in State, NEW m \in Times,
           Insert(f, Entry(p, c, m))
    PROVE  ActivePath' = p
<1> DEFINE e == Entry(p, c, m)
<1>1. e.path = p /\ e \in CachedFile BY DEF Entry, CachedFile
<1>2. e # None BY <1>1, EntryAssumption
<1> HIDE DEF e
<1>3. cache'[f] = e /\ active' = f BY DEF Insert, e
<1>4. f # None BY NoneAssumption
<1> QED BY <1>1, <1>2, <1>3, <1>4 DEF ActivePath, Cached

(* No step of a request but an insertion moves the active path, or takes   *)
(* it to another.                                                          *)
LEMMA ActiveMoves ==
    ASSUME KeptInv, call # None, Next
    PROVE  \/ ActivePath' = ActivePath
           \/ ActivePath' = call.path /\ call.tool # "merge" /\ (InsertPath \/ InsertLoaded)
           \/ Evict /\ ActivePath' \in {ActivePath, None}
<1> USE DEF KeptInv
<1>1. call \in Call /\ call.path \in Paths /\ call.modified \in Times
  BY DEF TypeInv, TypeOK, Call
<1>2. call.tool = "merge" => Head(call.todo) \in {"probe", "replace", "stat", "update"}
  BY MergeTails
<1>3. CASE InsertPath
  <2>1. Insert(Identity(call.path), Entry(call.path, call.content, call.modified))
        /\ Head(call.todo) = "insert"
    BY <1>3 DEF InsertPath, Doing
  <2>2. call.content \in State BY <2>1 DEF TypeInv, CallOK, NeedContent
  <2>3. Identity(call.path) \in Files BY <1>1, IdentityIsFile DEF TypeInv
  <2> QED BY <1>1, <1>2, <1>3, <2>1, <2>2, <2>3, InsertActivates
<1>4. CASE InsertLoaded
  <2>1. Insert(call.identity, Entry(call.path, call.content, file[call.identity].modified))
        /\ Head(call.todo) \in {"keep", "refresh"}
    BY <1>4 DEF InsertLoaded, Doing
  <2>2. call.content \in State /\ call.identity \in Files
    BY <2>1 DEF TypeInv, CallOK, NeedContent, NeedIdentity
  <2>3. file[call.identity].modified \in Times BY <2>2 DEF TypeInv, TypeOK
  <2> QED BY <1>1, <1>2, <1>4, <2>1, <2>2, <2>3, InsertActivates
<1>5. CASE Evict
  <2>1. cache' = [cache EXCEPT ![call.identity] = None] /\ active' = active BY <1>5 DEF Evict
  <2>2. Cached(active)' => Cached(active) /\ cache'[active] = cache[active]
    BY <2>1, NoneAssumption DEF Cached, TypeInv, TypeOK
  <2> QED BY <1>5, <2>1, <2>2 DEF ActivePath
<1>6. CASE Update
  <2> DEFINE f == Identity(call.path)
             e == Entry(cache[f].path, call.content, call.modified)
  <2>1. active' = active /\ Head(call.todo) = "update"
        /\ cache' = IF Cached(f) THEN [cache EXCEPT ![f] = e] ELSE cache
    BY <1>6 DEF Update, Doing
  <2>2. f \in Files BY <1>1, IdentityIsFile DEF TypeInv
  <2>3. CASE Cached(f)
    <3>1. cache[f] \in CachedFile BY <2>2, <2>3 DEF TypeInv, TypeOK, Cached
    <3>2. call.content \in State BY <2>1 DEF TypeInv, CallOK, NeedContent
    <3>3. e.path = cache[f].path /\ e \in CachedFile
      BY <1>1, <3>1, <3>2 DEF Entry, CachedFile
    <3>4. e # None BY <3>3, EntryAssumption
    <3> HIDE DEF e
    <3>5. \A g \in Files : (Cached(g)' <=> Cached(g)) /\ (Cached(g) => cache'[g].path = cache[g].path)
      BY <2>1, <2>3, <3>3, <3>4 DEF TypeInv, TypeOK, Cached
    <3>6. Cached(active)' \/ Cached(active) => active \in Files
      BY <2>1 DEF TypeInv, TypeOK, Cached
    <3> QED BY <2>1, <3>5, <3>6 DEF ActivePath, Cached
  <2>4. CASE ~Cached(f) BY <2>1, <2>4 DEF ActivePath, Cached
  <2> QED BY <2>3, <2>4
<1>7. ASSUME UNCHANGED <<cache, active>> PROVE ActivePath' = ActivePath
  BY <1>7 DEF ActivePath, Cached
<1>8. UNCHANGED <<cache, active>> \/ InsertPath \/ InsertLoaded \/ Evict \/ Update
  BY DEF Next, Begin, Load, ReadPath, Probe, Vacant, CheckIdentity, ServeCached,
         ServeFresh, Stat, Write, Commit, Replace, Fail, OutsideSave, Redirect
<1> QED BY <1>3, <1>4, <1>5, <1>6, <1>7, <1>8

(* A request that begins without a path begins on the active one.          *)
LEMMA BeginKept ==
    ASSUME KeptInv, Begin
    PROVE  /\ call' # None /\ ~call'.named => ActivePath' = call'.path
           /\ call' # None /\ call'.tool = "merge" => call'.todo \in MergeSteps
<1>1. PICK tool \in Tools, p \in Paths \cup {None}, l \in Locales \cup {None} :
        /\ p = None => tool \notin NeedPath
        /\ call' = [tool |-> tool, named |-> p # None,
                    path |-> IF p = None THEN ActivePath ELSE p,
                    todo |-> Program(tool, p # None),
                    identity |-> None, content |-> None, modified |-> 0,
                    known |-> None, locale |-> l]
  BY DEF Begin
<1>2. ActivePath' = ActivePath BY DEF Begin, ActivePath, Cached
<1>3. call'.named = (p # None) /\ call'.tool = tool /\ call'.todo = Program(tool, p # None)
      /\ (p = None => call'.path = ActivePath)
  BY <1>1
<1>4. tool = "merge" => Program(tool, p # None) \in MergeSteps
  BY DEF Program, Merge, MergeSteps
<1> QED BY <1>2, <1>3, <1>4

(* A step that goes on with the call, with more known about it.            *)
LEMMA ProceedsKept ==
    ASSUME KeptInv, call # None, Next, ~ServeFresh, ~Evict, ~Fail, ~OutsideSave, ~Redirect
    PROVE  /\ call' # None /\ ~call'.named => ActivePath' = call'.path
           /\ call' # None /\ call'.tool = "merge" => call'.todo \in MergeSteps
<1>1. call \in Call /\ call.path \in Paths BY DEF KeptInv, TypeInv, TypeOK, Call
<1>2. Identity(call.path) \in Files /\ At(call.path).content \in State
      /\ At(call.path).modified \in Times
  BY <1>1, IdentityIsFile DEF KeptInv, TypeInv
<1>3. ActivePath' = ActivePath \/ (ActivePath' = call.path /\ call.tool # "merge")
  BY ActiveMoves
<1>4. PICK c : Proceed(c) /\ c \in Call /\ c.named = call.named /\ c.path = call.path
               /\ c.tool = call.tool /\ c.todo = call.todo
  <2>1. CASE Load \/ ReadPath \/ Probe
    <3>1. PICK i \in Files \cup {None}, d \in State :
            Proceed([call EXCEPT !.identity = i, !.content = d])
      <4>1. CASE Load BY <1>2, <4>1 DEF Load
      <4>2. CASE ReadPath \/ Probe
        <5>1. [call EXCEPT !.content = At(call.path).content]
                = [call EXCEPT !.identity = call.identity, !.content = At(call.path).content]
          BY <1>1 DEF Call
        <5> QED BY <1>1, <1>2, <4>2, <5>1 DEF ReadPath, Probe, Call
      <4> QED BY <2>1, <4>1, <4>2
    <3> DEFINE c == [call EXCEPT !.identity = i, !.content = d]
    <3>2. c \in Call /\ c.named = call.named /\ c.path = call.path
          /\ c.tool = call.tool /\ c.todo = call.todo
      BY <1>1 DEF Call
    <3> QED BY <3>1, <3>2
  <2>6. CASE CheckIdentity BY <1>1, <1>2, <2>6 DEF CheckIdentity, Call
  <2>7. CASE Stat BY <1>1, <1>2, <2>7 DEF Stat, Call
  <2>8. CASE Vacant \/ InsertLoaded \/ Update BY <1>1, <2>8 DEF Vacant, InsertLoaded, Update
  <2>2. CASE ServeCached
    <3>1. Head(call.todo) = "serve" BY <2>2 DEF ServeCached, Doing
    <3>2. Cached(active) BY <3>1 DEF KeptInv, TypeInv, CallOK
    <3>3. cache[active] \in CachedFile BY <3>2 DEF KeptInv, TypeInv, TypeOK, Cached
    <3>4. cache[active].content \in State BY <3>3 DEF CachedFile
    <3> QED BY <1>1, <2>2, <3>4 DEF ServeCached, Call
  <2>3. CASE InsertPath
    <3>1. Head(call.todo) = "insert" BY <2>3 DEF InsertPath, Doing
    <3>2. call.content \in State BY <3>1 DEF KeptInv, TypeInv, CallOK, NeedContent
    <3> QED BY <1>1, <2>3, <3>2 DEF InsertPath, Call
  <2>4. CASE Write \/ Commit \/ Replace
    <3>1. Candidates \subseteq State BY DEF Candidates, State
    <3>2. PICK d \in State : Proceed([call EXCEPT !.content = d])
      BY <2>4, <3>1 DEF Write, Commit, Replace
    <3> QED BY <1>1, <3>2 DEF Call
  <2>5. ~Begin BY DEF Begin
  <2> QED BY <2>1, <2>2, <2>3, <2>4, <2>5, <2>6, <2>7, <2>8 DEF Next
<1> QED BY <1>3, <1>4, ProceedKeeps

(* KeptInv is inductive.                                                   *)
LEMMA NextKept == KeptInv /\ [Next]_vars => KeptInv'
<1> SUFFICES ASSUME KeptInv, [Next]_vars
             PROVE  /\ call' # None /\ ~call'.named => ActivePath' = call'.path
                    /\ call' # None /\ call'.tool = "merge" => call'.todo \in MergeSteps
  BY NextTypes DEF KeptInv
<1>1. CASE UNCHANGED vars \/ OutsideSave \/ Redirect
  <2>1. UNCHANGED <<cache, active, call>> BY <1>1 DEF vars, OutsideSave, Redirect
  <2> QED BY <2>1 DEF KeptInv, ActivePath, Cached
<1>2. CASE Fail \/ Evict BY <1>2 DEF Fail, Evict
<1>3. CASE ServeFresh
  <2>1. Head(call.todo) = "serve" /\ call # None /\ UNCHANGED <<cache, active>>
        /\ call' = [call EXCEPT !.todo = Reread \o Tail(@)]
    BY <1>3 DEF ServeFresh, Doing
  <2>2. call.tool # "merge" BY <2>1, MergeTails DEF KeptInv
  <2>3. call'.tool = call.tool /\ call'.named = call.named /\ call'.path = call.path
    BY <2>1 DEF KeptInv, TypeInv, TypeOK, Call
  <2> QED BY <2>1, <2>2, <2>3 DEF KeptInv, ActivePath, Cached
<1>4. CASE Begin BY <1>4, BeginKept
<1>5. CASE Next /\ ~(ServeFresh \/ Evict \/ Fail \/ OutsideSave \/ Redirect \/ Begin)
  <2>1. call # None
    BY <1>5 DEF Next, Load, ReadPath, Probe, Vacant, CheckIdentity, ServeCached, Stat,
                InsertPath, InsertLoaded, Write, Commit, Replace, Update, Doing
  <2> QED BY <1>5, <2>1, ProceedsKept
<1> QED BY <1>1, <1>2, <1>3, <1>4, <1>5

(* ActiveIsKept holds of every step: a request without a path and a merge  *)
(* leave the active file as it is, whatever others save or redirect        *)
(* between their steps.                                                    *)
THEOREM ActiveKept == Spec => ActiveIsKept
<1>1. Init => KeptInv BY InitTypes DEF Init, KeptInv
<1>2. KeptInv /\ [Next]_vars =>
        [call # None /\ (~call.named \/ call.tool = "merge")
            => ActivePath' \in {ActivePath, None}]_vars
  <2> SUFFICES ASSUME KeptInv, Next, call # None, ~call.named \/ call.tool = "merge"
               PROVE  ActivePath' \in {ActivePath, None}
    OBVIOUS
  <2> QED BY ActiveMoves DEF KeptInv
<1> QED BY <1>1, <1>2, NextKept, PTL DEF Spec, ActiveIsKept

-----------------------------------------------------------------------------
(* remove_locale, where nothing comes between the steps of a request: what *)
(* resolve_file has returned is what the file holds when the catalog is    *)
(* read again right before the write.                                      *)
Removing(c) == c # None /\ c.tool = "remove_locale"

RemoveSteps == Steps \ {"probe", "vacant"}

WriteIsSecond(s) == Tail(s) # <<>> /\ Head(Tail(s)) = "write"

RemoveOK ==
    Removing(call) =>
        /\ call.todo \in Seq(RemoveSteps)
        /\ Head(call.todo) = "read" /\ WriteIsSecond(call.todo)
                => call.known = At(call.path).content
        /\ Head(call.todo) = "write" => call.known = call.content

RemoveInv == FreshInv /\ RemoveOK

(* What comes first in two sequences joined, and in the first of them.     *)
LEMMA JoinedFacts ==
    ASSUME NEW S, NEW s \in Seq(S), NEW t \in Seq(S)
    PROVE  /\ s \o t \in Seq(S)
           /\ Len(s \o t) = Len(s) + Len(t) /\ Len(t) \in Nat
           /\ \A i \in 1 .. Len(s) : (s \o t)[i] = s[i]
  OBVIOUS

LEMMA FirstTwo ==
    ASSUME NEW S, NEW s \in Seq(S), Len(s) > 0
    PROVE  Head(s) = s[1] /\ (Len(s) > 1 => Head(Tail(s)) = s[2])
  OBVIOUS

(* To read the file as one without a cache takes more than one step.       *)
LEMMA RereadFirst ==
    ASSUME NEW t \in Seq(RemoveSteps)
    PROVE  /\ Reread \o t \in Seq(RemoveSteps)
           /\ Head(Reread \o t) = "read"
           /\ ~WriteIsSecond(Reread \o t)
<1> DEFINE s == Reread \o t
<1>1. Reread \in Seq(RemoveSteps) /\ Len(Reread) = 3 /\ Reread[1] = "read" /\ Reread[2] = "stat"
  BY DEF Reread, RemoveSteps, Steps
<1>2. s \in Seq(RemoveSteps) /\ Len(s) = 3 + Len(t) /\ Len(t) \in Nat
      /\ \A i \in 1 .. 3 : s[i] = Reread[i]
  <2>1. s \in Seq(RemoveSteps) /\ Len(s) = Len(Reread) + Len(t) /\ Len(t) \in Nat
        /\ \A i \in 1 .. Len(Reread) : s[i] = Reread[i]
    BY <1>1, JoinedFacts, Zenon
  <2> QED BY <1>1, <2>1
<1> HIDE DEF s
<1>3. s[1] = "read" /\ s[2] = "stat" /\ Len(s) > 0 /\ Len(s) > 1
  BY <1>1, <1>2
<1>4. Head(s) = "read" /\ Head(Tail(s)) = "stat"
  BY <1>2, <1>3, FirstTwo
<1> QED BY <1>2, <1>4 DEF s, WriteIsSecond

(* A removal that proceeds goes on with its next step.                     *)
LEMMA RemoveProceeds ==
    ASSUME RemoveInv, call # None, NEW c \in Call, c.todo = call.todo, c.tool = call.tool,
           Proceed(c), Removing(call')
    PROVE  /\ call'.todo \in Seq(RemoveSteps) /\ call'.todo = Tail(call.todo)
           /\ Removing(call)
           /\ <<Head(call.todo), Head(call'.todo)>> \in Follows
           /\ call'.path = c.path /\ call'.content = c.content /\ call'.known = c.known
<1>1. call' = [c EXCEPT !.todo = Tail(call.todo)] /\ Tail(call.todo) # <<>>
  BY DEF Proceed, Removing
<1>2. /\ call'.todo = Tail(call.todo) /\ call'.path = c.path /\ call'.content = c.content
      /\ call'.known = c.known /\ call'.tool = call.tool
  BY <1>1 DEF Call
<1>3. Removing(call)
  BY <1>2 DEF Removing
<1>4. <<Head(call.todo), Head(call'.todo)>> \in Follows
  BY <1>1, <1>2, TailOrdered DEF RemoveInv, FreshInv, TypeInv, CallOK
<1>5. call.todo \in Seq(RemoveSteps) /\ call.todo # <<>>
  BY <1>3 DEF RemoveInv, RemoveOK, FreshInv, TypeInv, CallOK, Plan, Removing
<1>6. Tail(call.todo) \in Seq(RemoveSteps)
  BY <1>5, HeadTailProperties
<1> QED BY <1>2, <1>3, <1>4, <1>6

(* The request comes with the steps of its tool.                           *)
LEMMA BeginRemove == Begin => RemoveOK'
<1> SUFFICES ASSUME Begin PROVE RemoveOK'
  OBVIOUS
<1>1. PICK tool \in Tools, p \in Paths \cup {None}, l \in Locales \cup {None} :
        call' = [tool |-> tool, named |-> p # None,
                 path |-> IF p = None THEN ActivePath ELSE p,
                 todo |-> Program(tool, p # None),
                 identity |-> None, content |-> None, modified |-> 0,
                 known |-> None, locale |-> l]
  BY DEF Begin
<1> DEFINE rest == <<"read">> \o WriteBack
<1>2. call'.tool = tool /\ call'.todo = Program(tool, p # None)
  BY <1>1
<1>3. rest \in Seq(RemoveSteps)
  <2>1. <<"read">> \in Seq(RemoveSteps) /\ WriteBack \in Seq(RemoveSteps)
    BY DEF WriteBack, RemoveSteps, Steps
  <2> QED BY <2>1, JoinedFacts
<1> SUFFICES ASSUME tool = "remove_locale" PROVE RemoveOK'
  BY <1>2 DEF RemoveOK, Removing
<1>4. call'.todo = (IF p # None THEN Reread ELSE <<"identity", "serve">>) \o rest
  BY <1>2 DEF Program, KeyTool, ResolveFile
<1>5. CASE p # None
  <2> HIDE DEF rest
  <2>1. call'.todo = Reread \o rest
    BY <1>4, <1>5
  <2> QED BY <1>3, <2>1, RereadFirst DEF RemoveOK
<1>6. CASE p = None
  <2> DEFINE first == <<"identity", "serve">>
  <2>1. first \in Seq(RemoveSteps) /\ Len(first) = 2 /\ first[1] = "identity"
    BY DEF RemoveSteps, Steps
  <2> HIDE DEF first, rest
  <2>2. first \o rest \in Seq(RemoveSteps) /\ Len(first \o rest) = 2 + Len(rest)
        /\ Len(rest) \in Nat /\ \A i \in 1 .. 2 : (first \o rest)[i] = first[i]
    <3>1. first \o rest \in Seq(RemoveSteps) /\ Len(first \o rest) = Len(first) + Len(rest)
          /\ Len(rest) \in Nat /\ \A i \in 1 .. Len(first) : (first \o rest)[i] = first[i]
      BY <1>3, <2>1, JoinedFacts, Zenon
    <3> QED BY <2>1, <3>1
  <2>3. Head(first \o rest) = "identity"
    <3>1. (first \o rest)[1] = "identity" /\ Len(first \o rest) > 0
      BY <2>1, <2>2
    <3> QED BY <2>2, <3>1, FirstTwo
  <2>4. call'.todo = first \o rest
    BY <1>4, <1>6 DEF first
  <2> QED BY <2>2, <2>3, <2>4 DEF RemoveOK
<1> QED BY <1>5, <1>6

(* Steps that leave the disk alone.                                        *)
LEMMA QuietRemove ==
    ASSUME RemoveInv,
           \/ Load \/ ReadPath \/ Probe \/ Vacant \/ CheckIdentity \/ ServeCached
           \/ Stat \/ InsertPath \/ InsertLoaded \/ Update
    PROVE  RemoveOK'
<1> SUFFICES ASSUME Removing(call') PROVE RemoveOK'
  BY DEF RemoveOK
<1>1. call # None /\ UNCHANGED disk
  BY DEF Load, ReadPath, Probe, Vacant, CheckIdentity, ServeCached, Stat, InsertPath,
         InsertLoaded, Update, Doing
<1>2. TypeInv /\ CallFresh /\ call \in Call
  BY <1>1 DEF RemoveInv, FreshInv, TypeInv, TypeOK
<1>3. call.path \in Paths /\ Identity(call.path) \in Files /\ At(call.path).content \in State
      /\ At(call.path).modified \in Times
  BY <1>2, IdentityIsFile DEF TypeInv, Call
<1>4. \A p : At(p)' = At(p)
  BY <1>1 DEF disk, At, Identity
<1>5. Removing(call) => Head(call.todo) \notin {"probe", "vacant"}
  <2>1. call.todo # <<>>
    BY <1>1, <1>2 DEF TypeInv, CallOK, Plan
  <2> QED BY <2>1, HeadTailProperties DEF RemoveInv, RemoveOK, RemoveSteps
<1>6. CASE ReadPath
  <2> DEFINE c == [call EXCEPT !.content = At(call.path).content]
  <2>1. Proceed(c) /\ Head(call.todo) = "read"
    BY <1>6 DEF ReadPath, Doing
  <2>2. c \in Call /\ c.todo = call.todo /\ c.tool = call.tool /\ c.path = call.path
        /\ c.content = At(call.path).content /\ c.known = call.known
    BY <1>2, <1>3 DEF Call
  <2> HIDE DEF c
  <2>3. /\ call'.todo \in Seq(RemoveSteps) /\ call'.todo = Tail(call.todo)
        /\ Removing(call) /\ <<"read", Head(call'.todo)>> \in Follows
        /\ call'.content = At(call.path).content /\ call'.known = call.known
    BY <1>1, <2>1, <2>2, RemoveProceeds
  <2>4. Head(call'.todo) # "read"
    BY <2>3 DEF Follows
  <2>5. Head(call'.todo) = "write" => WriteIsSecond(call.todo)
    <3>1. call' # None /\ Tail(call.todo) # <<>>
      BY <2>1 DEF Proceed, Removing
    <3> QED BY <2>3, <3>1 DEF WriteIsSecond
  <2> QED BY <2>1, <2>3, <2>4, <2>5 DEF RemoveInv, RemoveOK
<1>7. CASE ServeCached
  <2> DEFINE c == [call EXCEPT !.known = cache[active].content]
  <2>1. Proceed(c) /\ Head(call.todo) = "serve" /\ Unchanged
    BY <1>7 DEF ServeCached, Doing
  <2>2. cache[active].content = At(call.path).content
    <3>1. call.identity = Identity(call.path) /\ Cached(active)
      BY <1>1, <1>2, <2>1 DEF TypeInv, CallOK, CallFresh
    <3>2. active \in Files
      BY <1>2, <3>1 DEF TypeInv, TypeOK, Cached
    <3> QED BY <2>1, <3>1, <3>2 DEF RemoveInv, FreshInv, CacheFresh, Unchanged, At
  <2>3. c \in Call /\ c.todo = call.todo /\ c.tool = call.tool /\ c.path = call.path
        /\ c.known = At(call.path).content
    BY <1>2, <1>3, <2>2 DEF Call
  <2> HIDE DEF c
  <2>4. /\ call'.todo \in Seq(RemoveSteps) /\ <<"serve", Head(call'.todo)>> \in Follows
        /\ call'.path = call.path /\ call'.known = At(call.path).content
    BY <1>1, <2>1, <2>3, RemoveProceeds
  <2>5. Head(call'.todo) # "write"
    BY <2>4 DEF Follows
  <2> QED BY <1>4, <2>4, <2>5 DEF RemoveOK
<1>8. CASE InsertPath
  <2> DEFINE c == [call EXCEPT !.known = call.content]
  <2>1. Proceed(c) /\ Head(call.todo) = "insert"
    BY <1>8 DEF InsertPath, Doing
  <2>2. call.content = At(call.path).content
    BY <1>1, <1>2, <2>1 DEF CallFresh
  <2>3. c \in Call /\ c.todo = call.todo /\ c.tool = call.tool /\ c.path = call.path
        /\ c.known = At(call.path).content
    BY <1>2, <1>3, <2>2 DEF Call
  <2> HIDE DEF c
  <2>4. /\ call'.todo \in Seq(RemoveSteps) /\ <<"insert", Head(call'.todo)>> \in Follows
        /\ call'.path = call.path /\ call'.known = At(call.path).content
    BY <1>1, <2>1, <2>3, RemoveProceeds
  <2>5. Head(call'.todo) # "write"
    BY <2>4 DEF Follows
  <2> QED BY <1>4, <2>4, <2>5 DEF RemoveOK
<1>9. CASE Load \/ Probe \/ Vacant \/ CheckIdentity \/ Stat \/ InsertLoaded \/ Update
  <2>1. PICK c : /\ Proceed(c) /\ c \in Call /\ c.todo = call.todo /\ c.tool = call.tool
                 /\ Head(call.todo) \in {"load", "reload", "probe", "vacant", "identity",
                                         "stat", "keep", "refresh", "update"}
    <3>1. CASE Load
      BY <1>2, <1>3, <3>1 DEF Load, Doing, Call
    <3>2. CASE Probe
      BY <1>2, <1>3, <3>2 DEF Probe, Doing, Call
    <3>3. CASE Vacant \/ InsertLoaded \/ Update
      BY <1>2, <3>3 DEF Vacant, InsertLoaded, Update, Doing
    <3>4. CASE CheckIdentity
      BY <1>2, <1>3, <3>4 DEF CheckIdentity, Doing, Call
    <3>5. CASE Stat
      BY <1>2, <1>3, <3>5 DEF Stat, Doing, Call
    <3> QED BY <1>9, <3>1, <3>2, <3>3, <3>4, <3>5
  <2>2. /\ call'.todo \in Seq(RemoveSteps) /\ Removing(call)
        /\ <<Head(call.todo), Head(call'.todo)>> \in Follows
    BY <1>1, <2>1, RemoveProceeds
  <2>3. Head(call'.todo) \notin {"read", "write"}
    BY <1>5, <2>1, <2>2 DEF Follows
  <2> QED BY <2>2, <2>3 DEF RemoveOK
<1> QED BY <1>6, <1>7, <1>8, <1>9

(* Steps that save a catalog are followed by neither a read nor a write.   *)
LEMMA SavingRemove ==
    ASSUME RemoveInv, Write \/ Commit \/ Replace PROVE RemoveOK'
<1> SUFFICES ASSUME Removing(call') PROVE RemoveOK'
  BY DEF RemoveOK
<1>1. call # None /\ call \in Call
  BY DEF Write, Commit, Replace, Doing, RemoveInv, FreshInv, TypeInv, TypeOK
<1>2. PICK d \in Candidates :
        Proceed([call EXCEPT !.content = d]) /\ Head(call.todo) \in {"write", "commit", "replace"}
  BY DEF Write, Commit, Replace, Doing
<1> DEFINE c == [call EXCEPT !.content = d]
<1>3. c \in Call /\ c.todo = call.todo /\ c.tool = call.tool
  BY <1>1 DEF Call, State, Candidates
<1> HIDE DEF c
<1>4. call'.todo \in Seq(RemoveSteps) /\ <<Head(call.todo), Head(call'.todo)>> \in Follows
  BY <1>1, <1>2, <1>3, RemoveProceeds DEF c
<1>5. Head(call'.todo) \notin {"read", "write"}
  BY <1>2, <1>4 DEF Follows
<1> QED BY <1>4, <1>5 DEF RemoveOK

(* A removal keeps to what it has seen, when others wait for it to end.    *)
LEMMA NextRemoves ==
    ASSUME ~Interrupts, RemoveInv, [Next]_vars PROVE RemoveOK'
<1>1. CASE ServeFresh
  <2> SUFFICES ASSUME Removing(call') PROVE RemoveOK'
    BY DEF RemoveOK
  <2>1. call # None /\ call \in Call /\ call' = [call EXCEPT !.todo = Reread \o Tail(call.todo)]
    BY <1>1 DEF ServeFresh, Doing, RemoveInv, FreshInv, TypeInv, TypeOK
  <2>2. call'.todo = Reread \o Tail(call.todo) /\ call'.tool = call.tool
    BY <2>1 DEF Call
  <2>3. call.todo \in Seq(RemoveSteps) /\ call.todo # <<>>
    BY <2>1, <2>2 DEF RemoveInv, RemoveOK, FreshInv, TypeInv, CallOK, Plan, Removing
  <2>4. Tail(call.todo) \in Seq(RemoveSteps)
    BY <2>3, HeadTailProperties
  <2> QED BY <2>2, <2>4, RereadFirst DEF RemoveOK
<1>2. CASE Evict \/ Fail \/ OutsideSave \/ Redirect
  <2>1. call' = None
    BY <1>2 DEF Evict, Fail, OutsideSave, Redirect, OutsideTurn
  <2> QED BY <2>1 DEF RemoveOK, Removing
<1>3. CASE UNCHANGED vars
  BY <1>3 DEF RemoveInv, RemoveOK, Removing, vars, disk, At, Identity
<1> QED BY <1>1, <1>2, <1>3, BeginRemove, QuietRemove, SavingRemove DEF Next

(* remove_locale never takes the source language from the catalog it       *)
(* writes, although it compares with the catalog that was resolved and     *)
(* writes one read later: where no two saves have one time and others wait *)
(* for a request to end, the two are the same, on the way through the      *)
(* cache too.                                                              *)
THEOREM SourceLocaleStays ==
    ASSUME ~Interrupts, FineTimes
    PROVE  Spec => SourceLocaleKept
<1>1. Init => RemoveInv
  BY InitFresh DEF Init, RemoveInv, RemoveOK, Removing
<1>2. RemoveInv /\ [Next]_vars => RemoveInv'
  BY NextFresh, NextRemoves DEF RemoveInv
<1>3. RemoveInv /\ [Next]_vars =>
        [Write /\ call.tool = "remove_locale" => call.locale # SourceLanguage[call.content]]_vars
  <2> SUFFICES ASSUME RemoveInv, Write, call.tool = "remove_locale"
               PROVE  call.locale # SourceLanguage[call.content]
    OBVIOUS
  <2>1. Removing(call) /\ Head(call.todo) = "write" /\ Candidates # {}
    BY DEF Write, Doing, Removing
  <2>2. call.known = call.content
    BY <2>1 DEF RemoveInv, RemoveOK
  <2> QED BY <2>1, <2>2 DEF Candidates
<1> QED BY <1>1, <1>2, <1>3, PTL DEF Spec, SourceLocaleKept
=============================================================================
