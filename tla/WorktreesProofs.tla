--------------------------- MODULE WorktreesProofs ---------------------------
(* The base database and the base stream survive every command.            *)
EXTENDS WorktreesProperties, TLAPS

(* Every action names the two history variables together.                  *)
USE DEF pastVars

(* What a prune is about to drop never contains the base name.             *)
Doomed == {"terminating", "pruning", "pruning_streams"}

PrunesDerived ==
  \A p \in Procs : /\ pc[p] \in Doomed => Base \notin listed[p]
                   /\ pc[p] = "pruning" => url[p] # Base

Shape == /\ pc = [p \in Procs |-> pc[p]]
         /\ url = [p \in Procs |-> url[p]]
         /\ listed = [p \in Procs |-> listed[p]]

BaseInv == Shape /\ PrunesDerived /\ trees \subseteq Names

(* No name derived from a slug is the base name (derive_db_name,           *)
(* effective_stream_name).                                                 *)
LEMMA DerivedNotBase ==
  ASSUME NEW s \in Seq(DOMAIN Clean)
  PROVE  Prefixed(s) # Base
<1>1. Len(<<"_wt_">> \o s) = 1 + Len(s)  OBVIOUS
<1>2. Len(s) \in Nat  OBVIOUS
<1> QED  BY <1>1, <1>2 DEF Prefixed, Base

(* A sanitised slug is a sequence again.                                   *)
LEMMA SanitizedIsSlug ==
  ASSUME NEW s \in Seq(DOMAIN Clean)
  PROVE  SanitizeSlug(s) \in Seq(DOMAIN Clean)
<1>1. \A i \in DOMAIN s : s[i] \in DOMAIN Clean  OBVIOUS
<1>2. \A i \in DOMAIN s : Clean[s[i]] \in DOMAIN Clean  BY <1>1, WorktreesAssumption
<1>3. DOMAIN s = 1..Len(s) /\ Len(s) \in Nat  OBVIOUS
<1> DEFINE t == [i \in 1..Len(s) |-> Clean[s[i]]]
<1>4. t \in [1..Len(s) -> DOMAIN Clean]  BY <1>2, <1>3
<1> QED  BY <1>3, <1>4 DEF SanitizeSlug

(* Every slug that worktree_slug may return.                               *)
LEMMA SlugsAreSlugs ==
  ASSUME trees \subseteq Names, NEW p \in Procs, NEW d, NEW slug \in SlugsIn(p, d), slug # None
  PROVE  slug \in Seq(DOMAIN Clean)
<1>1. SlugVar[p] \in Seq(DOMAIN Clean)  BY WorktreesAssumption
<1>2. trees \subseteq Seq(DOMAIN Clean)  BY WorktreesAssumption
<1>3. slug = SanitizeSlug(SlugVar[p]) \/ (d \in trees /\ slug = SanitizeSlug(d))
  BY DEF SlugsIn
<1> QED  BY <1>1, <1>2, <1>3, SanitizedIsSlug

(* The identifier keeps at most the first Room characters of a slug.        *)
LEMMA TruncateType ==
  ASSUME NEW s \in Seq(DOMAIN Clean)
  PROVE  Truncate(s) \in Seq(DOMAIN Clean)
<1>a. Room \in Nat  BY WorktreesAssumption
<1>b. Len(s) \in Nat  OBVIOUS
<1>1. Room \in Nat /\ Len(s) \in Nat  BY <1>a, <1>b
<1>2. CASE Len(s) <= Room  BY <1>2 DEF Truncate
<1>3. CASE ~(Len(s) <= Room)
  <2>1. \A i \in 1..Room : s[i] \in DOMAIN Clean  BY <1>1, <1>3
  <2>2. SubSeq(s, 1, Room) = [i \in 1..Room |-> s[i]]  BY <1>1, <1>3
  <2> QED  BY <1>1, <1>3, <2>1, <2>2 DEF Truncate
<1> QED  BY <1>2, <1>3

LEMMA NamesOfSlugsAreDerived ==
  ASSUME NEW slug \in Seq(DOMAIN Clean), slug # None
  PROVE  DbName(slug) # Base /\ StreamName(slug) # Base
BY TruncateType, DerivedNotBase DEF DbName, StreamName

(* An orphan is never the base (orphaned_worktree_dbs,                     *)
(* orphaned_worktree_streams).                                             *)
LEMMA OrphansAreDerived ==
  ASSUME NEW names, NEW active
  PROVE  Base \notin Orphans(names, active)
BY DEF Orphans, IsDerived, Base

(* The initial state.                                                      *)
LEMMA BaseInit == Init => BaseInv
BY WorktreesAssumption DEF Init, BaseInv, Shape, PrunesDerived, Doomed

(* A process that moves on without touching its list keeps the invariant.  *)
LEMMA StepKeeps ==
  ASSUME BaseInv, NEW p \in Procs, NEW from, NEW to, Step(p, from, to),
         UNCHANGED <<url, listed>>,
         trees' = trees, to \in Doomed => from \in Doomed, to # "pruning"
  PROVE  BaseInv'
<1>1. pc' = [q \in Procs |-> IF q = p THEN to ELSE pc[q]]  BY DEF Step, BaseInv, Shape
<1>2. pc[p] = from  BY DEF Step
<1> QED  BY <1>1, <1>2 DEF BaseInv, Shape, PrunesDerived

(* An exit forgets the list and the target.                                *)
LEMMA ExitKeeps ==
  ASSUME BaseInv, NEW p \in Procs, NEW from, NEW result \in Ended, Exit(p, from, result)
  PROVE  BaseInv'
<1>1. /\ pc' = [q \in Procs |-> IF q = p THEN result ELSE pc[q]]
      /\ url' = [q \in Procs |-> IF q = p THEN None ELSE url[q]]
      /\ listed' = [q \in Procs |-> IF q = p THEN {} ELSE listed[q]]
  BY DEF Exit, Step, BaseInv, Shape
<1>2. result \notin Doomed  BY DEF Ended, Doomed
<1>3. trees' = trees  BY DEF Exit
<1> QED  BY <1>1, <1>2, <1>3 DEF BaseInv, Shape, PrunesDerived, Doomed

(* The steps of a prune: what it lists to drop are orphans, and orphans    *)
(* are derived names.                                                      *)
LEMMA PruneKeeps ==
  ASSUME BaseInv, NEW p \in Procs, Prune(p)
  PROVE  BaseInv'
<1> USE DEF BaseInv, Shape, PrunesDerived, Doomed, Step
<1>1. CASE ListDbs(p)  BY <1>1 DEF ListDbs
<1>2. CASE CompareDbs(p)
  <2>1. PICK active : listed' = [listed EXCEPT ![p] = Orphans(listed[p], active)]
    BY <1>2 DEF CompareDbs, KeepOrphans
  <2>2. Base \notin listed'[p]  BY <2>1, OrphansAreDerived
  <2> QED  BY <1>2, <2>1, <2>2 DEF CompareDbs
<1>3. ASSUME NEW d \in listed[p], TerminateSessions(p, d) PROVE BaseInv'
  <2>1. d # Base  BY <1>3 DEF TerminateSessions
  <2>2. /\ pc' = [pc EXCEPT ![p] = "pruning"] /\ pc[p] = "terminating"
        /\ url' = [url EXCEPT ![p] = d] /\ UNCHANGED <<listed, trees>>
    BY <1>3 DEF TerminateSessions
  <2> QED  BY <2>1, <2>2
<1>4. CASE PruneDb(p)  BY <1>4 DEF PruneDb
<1>5. CASE PruneRefused(p)  BY <1>5, ExitKeeps DEF PruneRefused, Ended
<1>6. CASE DbsPruned(p)  BY <1>6 DEF DbsPruned
<1>7. CASE CompareStreams(p)
  <2>1. PICK active : listed' = [listed EXCEPT ![p] = Orphans(streams, active)]
    BY <1>7 DEF CompareStreams, KeepOrphans
  <2>2. Base \notin listed'[p]  BY <2>1, OrphansAreDerived
  <2> QED  BY <1>7, <2>1, <2>2 DEF CompareStreams
<1>8. CASE \E d \in listed[p] : PruneStream(p, d)  BY <1>8 DEF PruneStream
<1>9. CASE StreamsPruned(p)  BY <1>9, ExitKeeps DEF StreamsPruned, Ended
<1> QED  BY <1>1, <1>2, <1>3, <1>4, <1>5, <1>6, <1>7, <1>8, <1>9 DEF Prune

(* Every other step leaves the lists of the prunes alone.                  *)
LEMMA BaseInvNext ==
  ASSUME BaseInv, [Next]_vars
  PROVE  BaseInv'
<1>1. CASE UNCHANGED vars
  BY <1>1 DEF vars, procVars, BaseInv, Shape, PrunesDerived
<1>2. CASE \E n \in Names : AddTree(n) \/ RemoveTree(n)
  BY <1>2 DEF AddTree, RemoveTree, procVars, BaseInv, Shape, PrunesDerived
<1>3. ASSUME NEW p \in Procs, NEW c \in Commands, NEW d \in Checkouts, Start(p, c, d)
      PROVE  BaseInv'
  <2>1. PICK slug \in SlugsIn(p, d) :
          /\ url' = [url EXCEPT ![p] = IF c \in {"migrate", "serve"}
                                       THEN DbName(slug) ELSE None]
          /\ pc' = [pc EXCEPT ![p] = FirstStep(c, slug)]
    BY <1>3 DEF Start
  <2>2. FirstStep(c, slug) \notin Doomed  BY DEF FirstStep, Doomed
  <2> QED  BY <1>3, <2>1, <2>2 DEF Start, BaseInv, Shape, PrunesDerived, Doomed
<1>4. ASSUME NEW p \in Procs, Work(p) \/ PoolChanges(p) \/ Kill(p)
      PROVE  BaseInv'
  <2>1. CASE Prune(p)  BY <2>1, PruneKeeps
  <2>2. CASE NoSuchDb(p) \/ NatsSkipped(p) \/ Unreachable(p) \/ Kill(p) \/ Done(p)
             \/ SessionLost(p) \/ DropRefused(p)
    <3>1. \E from, result : result \in Ended /\ Exit(p, from, result)
      BY <2>2 DEF NoSuchDb, NatsSkipped, Unreachable, Kill, Done, SessionLost,
                  DropRefused, Ended
    <3> QED  BY <3>1, ExitKeeps
  <2>3. CASE ApplyMigration(p) \/ PoolChanges(p)
    BY <2>3 DEF ApplyMigration, PoolChanges, procVars, BaseInv, Shape, PrunesDerived
  <2>4. CASE Connect(p) \/ CreateDb(p) \/ Lock(p) \/ Migrated(p)
             \/ EnsureOfflineStream(p, "streaming", "done")
             \/ DropWorktreeDb(p) \/ DropWorktreeStream(p) \/ Serve(p)
    <3>1. \E from, to : Step(p, from, to) /\ to \notin Doomed
      BY <2>4 DEF Connect, CreateDb, Lock, Migrated, EnsureOfflineStream, Doomed,
                  DropWorktreeDb, DropWorktreeStream, Serve, BuildAuth
    <3>2. UNCHANGED <<url, listed, trees>>
      BY <2>4 DEF Connect, CreateDb, Lock, Migrated, EnsureOfflineStream,
                  DropWorktreeDb, DropWorktreeStream, Serve, BuildAuth
    <3> QED  BY <3>1, <3>2, StepKeeps DEF Doomed
  <2> QED  BY <1>4, <2>1, <2>2, <2>3, <2>4 DEF Work, Migrate, Drop, Serve
<1> QED  BY <1>1, <1>2, <1>3, <1>4 DEF Next

(* No single step removes the base: --drop removes a name derived from a   *)
(* slug, --prune one that it found to be derived.                          *)
LEMMA BaseStays ==
  ASSUME BaseInv, Next
  PROVE  ~Dropped(Base) /\ ~Deleted(Base)
<1> USE DEF Dropped, Deleted
<1>1. ASSUME NEW p \in Procs, DropWorktreeDb(p)  PROVE ~Dropped(Base) /\ ~Deleted(Base)
  <2>1. PICK slug \in WorktreeSlugs(p) \ {None} : DropDb(DbName(slug))
    BY <1>1 DEF DropWorktreeDb
  <2>2. DbName(slug) # Base
    BY <2>1, SlugsAreSlugs, NamesOfSlugsAreDerived DEF BaseInv, WorktreeSlugs
  <2> QED  BY <1>1, <2>1, <2>2 DEF DropWorktreeDb, DropDb, Remove
<1>2. ASSUME NEW p \in Procs, DropWorktreeStream(p)  PROVE ~Dropped(Base) /\ ~Deleted(Base)
  BY <1>2 DEF DropWorktreeStream
<1>3. ASSUME NEW p \in Procs, PruneDb(p)  PROVE ~Dropped(Base) /\ ~Deleted(Base)
  <2>1. url[p] # Base  BY <1>3 DEF PruneDb, Step, BaseInv, PrunesDerived
  <2> QED  BY <1>3, <2>1 DEF PruneDb, DropDb, Remove
<1>4. ASSUME NEW p \in Procs, NEW s, PruneStream(p, s)  PROVE ~Dropped(Base) /\ ~Deleted(Base)
  BY <1>4 DEF PruneStream, BaseInv, PrunesDerived, Doomed
<1>5. ASSUME NEW p \in Procs, Work(p) \/ PoolChanges(p) \/ Kill(p)
      PROVE  ~Dropped(Base) /\ ~Deleted(Base)
  <2>1. CASE Migrate(p)
    BY <2>1 DEF Migrate, CreateDb, Put, Lock, ApplyMigration, Migrated, SessionLost,
                EnsureOfflineStream, Exit
  <2>2. CASE Drop(p)  BY <2>2, <1>1, <1>2 DEF Drop, DropRefused, Exit
  <2>3. CASE Prune(p)
    BY <2>3, <1>3, <1>4 DEF Prune, ListDbs, CompareDbs, PruneRefused, DbsPruned,
                CompareStreams, StreamsPruned, TerminateSessions, Exit
  <2>4. CASE Serve(p)  BY <2>4 DEF Serve, EnsureOfflineStream, BuildAuth
  <2>5. CASE Connect(p) \/ NoSuchDb(p) \/ NatsSkipped(p) \/ Unreachable(p) \/ Done(p)
             \/ PoolChanges(p) \/ Kill(p)
    BY <2>5 DEF Connect, NoSuchDb, NatsSkipped, Unreachable, Done, PoolChanges, Kill, Exit
  <2> QED  BY <1>5, <2>1, <2>2, <2>3, <2>4, <2>5 DEF Work
<1>6. ASSUME NEW p \in Procs, NEW c \in Commands, NEW d \in Checkouts, Start(p, c, d)
      PROVE  ~Dropped(Base) /\ ~Deleted(Base)
  BY <1>6 DEF Start
<1>7. ASSUME NEW n \in Names, AddTree(n) \/ RemoveTree(n)
      PROVE  ~Dropped(Base) /\ ~Deleted(Base)
  BY <1>7 DEF AddTree, RemoveTree
<1> QED  BY <1>5, <1>6, <1>7 DEF Next

(* No command drops the base database or the base stream, whatever the     *)
(* names, the checkouts and the answers of git are.                        *)
THEOREM BaseIsSafe == Spec => BaseIsNeverDropped
<1>1. BaseInv /\ [Next]_vars => BaseInv'  BY BaseInvNext
<1>2. BaseInv /\ [Next]_vars => [~Dropped(Base) /\ ~Deleted(Base)]_vars
  <2>1. CASE Next  BY <2>1, BaseStays
  <2>2. CASE UNCHANGED vars  BY <2>2
  <2> QED  BY <2>1, <2>2
<1> QED  BY BaseInit, <1>1, <1>2, PTL DEF Spec, BaseIsNeverDropped
----------------------------------------------------------------------------
(* Types, and the sessions.                                                *)

(* Where a process may hold a session, which is one to the database its     *)
(* effective URL names.                                                    *)
SessionPhases ==
  {"locking", "migrating", "streaming", "ensuring", "building", "serving", "done"}

SessionsAtUrl ==
  \A p \in Procs : session[p] # None => session[p] = url[p] /\ pc[p] \in SessionPhases

(* The migrator knows what it is about to create.                          *)
CreatesNamed == \A p \in Procs : pc[p] = "creating" => url[p] # None

(* PostgreSQL drops no database that a session is connected to.            *)
SessionsKeepTheirDb == \A p \in Procs : session[p] # None => session[p] \in DOMAIN dbs

TypeInv == TypeOK /\ SessionsAtUrl /\ CreatesNamed /\ SessionsKeepTheirDb

(* A prefixed name is a derived one, and its tail is what was prefixed.     *)
LEMMA PrefixedName ==
  ASSUME NEW s \in Seq(DOMAIN Clean)
  PROVE  Prefixed(s) \in AllNames /\ Tail(Prefixed(s)) = s
<1> DEFINE A == DOMAIN Clean \cup {"_wt_"}
           t == <<"_wt_">> \o s
<1>1. s \in Seq(A) /\ <<"_wt_">> \in Seq(A)  OBVIOUS
<1>2. t \in Seq(A)  BY <1>1
<1>3. /\ Len(s) \in Nat /\ Len(t) = Len(s) + 1 /\ t[1] = "_wt_"
      /\ \A i \in 1..Len(s) : t[i + 1] = s[i]
  BY <1>1
<1>4. t # <<>> /\ Head(t) = "_wt_"  BY <1>2, <1>3
<1>5. Tail(t) \in Seq(A) /\ Len(Tail(t)) = Len(s)  BY <1>2, <1>3, <1>4
<1>6. \A i \in 1..Len(s) : Tail(t)[i] = s[i]  BY <1>2, <1>3, <1>4
<1>7. Tail(t) = s  BY <1>1, <1>5, <1>6
<1> QED  BY <1>2, <1>4, <1>7 DEF Prefixed, AllNames, IsDerived, Base

LEMMA NameTypes ==
  ASSUME NEW slug \in Seq(DOMAIN Clean) \cup {None}
  PROVE  DbName(slug) \in AllNames /\ StreamName(slug) \in AllNames
<1>1. Base \in AllNames  BY DEF Base, AllNames
<1>2. CASE slug = None  BY <1>1, <1>2 DEF DbName, StreamName
<1>3. CASE slug # None
  BY <1>3, TruncateType, PrefixedName DEF DbName, StreamName
<1> QED  BY <1>2, <1>3

(* None is the name of nothing.                                            *)
LEMMA NoneIsNoName == None \notin AllNames
BY WorktreesAssumption DEF AllNames

(* What the first statement of a command may be.                            *)
LEMMA FirstStepType ==
  ASSUME NEW c, NEW slug
  PROVE  FirstStep(c, slug) \in {"creating", "failed", "dropping", "connecting", "listing"}
BY DEF FirstStep

LEMMA LatestType == Latest \in Nat /\ 0 \in 0..Latest /\ Latest \in 0..Latest
<1>1. Latest \in Nat  BY WorktreesAssumption
<1> QED  BY <1>1

LEMMA TypeInit == Init => TypeInv
<1> SUFFICES ASSUME Init PROVE TypeInv  OBVIOUS
<1>1. PICK left \in SUBSET Names :
        /\ dbs = [d \in {Base} \cup {DbName(SanitizeSlug(n)) : n \in left} |-> Latest]
        /\ streams = {Base} \cup {StreamName(SanitizeSlug(n)) : n \in left}
  BY DEF Init
<1>2. \A n \in left : SanitizeSlug(n) \in Seq(DOMAIN Clean)
  BY WorktreesAssumption, SanitizedIsSlug
<1>3. \A n \in left : /\ DbName(SanitizeSlug(n)) \in AllNames
                      /\ StreamName(SanitizeSlug(n)) \in AllNames
  BY <1>2, NameTypes
<1>4. Base \in AllNames  BY DEF Base, AllNames
<1>5. DOMAIN dbs \subseteq AllNames /\ streams \subseteq AllNames
      /\ dbs \in [DOMAIN dbs -> 0..Latest]
  <2>1. DOMAIN dbs = {Base} \cup {DbName(SanitizeSlug(n)) : n \in left}  BY <1>1
  <2>2. \A d \in DOMAIN dbs : dbs[d] = Latest  BY <1>1
  <2>3. Latest \in 0..Latest  BY LatestType
  <2>4. dbs \in [DOMAIN dbs -> 0..Latest]  BY <1>1, <2>1, <2>3
  <2> QED  BY <1>1, <1>3, <1>4, <2>1, <2>4
<1>6. TypeOK
  BY <1>5, WorktreesAssumption DEF Init, TypeOK
<1>7. SessionsAtUrl /\ CreatesNamed /\ SessionsKeepTheirDb
  BY DEF Init, SessionsAtUrl, CreatesNamed, SessionsKeepTheirDb
<1> QED  BY <1>6, <1>7 DEF TypeInv

(* An exit closes the session.                                             *)
LEMMA ExitTypes ==
  ASSUME TypeInv, NEW p \in Procs, NEW from, NEW result \in Ended, Exit(p, from, result)
  PROVE  TypeInv'
<1>1. TypeOK'  BY DEF TypeInv, TypeOK, Exit, Step
<1>2. \A q \in Procs : /\ session'[q] = IF q = p THEN None ELSE session[q]
                       /\ q # p => url'[q] = url[q] /\ pc'[q] = pc[q]
  BY DEF TypeInv, TypeOK, Exit, Step
<1>3. pc'[p] = result /\ result # "creating"  BY DEF TypeInv, TypeOK, Exit, Step, Ended
<1> QED  BY <1>1, <1>2, <1>3 DEF TypeInv, SessionsAtUrl, CreatesNamed, SessionsKeepTheirDb,
           Exit

(* A step that leaves the databases and the sessions alone.                 *)
LEMMA MoveTypes ==
  ASSUME TypeInv, NEW p \in Procs, NEW from, NEW to \in Running \ {"creating"},
         Step(p, from, to), from \in SessionPhases => to \in SessionPhases,
         UNCHANGED <<trees, dbs, cmd, dir, url, session, steady>>,
         blind' \subseteq Procs,
         streams' \subseteq AllNames,
         listed' \in [Procs -> SUBSET AllNames]
  PROVE  TypeInv'
<1>1. TypeOK'  BY DEF TypeInv, TypeOK, Step
<1>2. pc[p] = from /\ \A q \in Procs : pc'[q] = IF q = p THEN to ELSE pc[q]
  BY DEF TypeInv, TypeOK, Step
<1> QED  BY <1>1, <1>2 DEF TypeInv, SessionsAtUrl, CreatesNamed, SessionsKeepTheirDb

(* ensure_offline_stream adds a stream and changes nothing else.           *)
LEMMA StreamsAdded ==
  ASSUME TypeInv, NEW p \in Procs, NEW from, NEW to, EnsureOfflineStream(p, from, to)
  PROVE  /\ streams' \subseteq AllNames
         /\ UNCHANGED <<trees, dbs, cmd, dir, url, session, listed, pastVars>>
<1>1. PICK slug \in SlugsIn(p, dir[p]) : streams' = streams \cup {StreamName(slug)}
  BY DEF EnsureOfflineStream, WorktreeSlugs
<1>2. slug \in Seq(DOMAIN Clean) \cup {None}
  BY SlugsAreSlugs DEF TypeInv, TypeOK
<1>3. StreamName(slug) \in AllNames  BY <1>2, NameTypes
<1> QED  BY <1>1, <1>3 DEF EnsureOfflineStream, TypeInv, TypeOK

(* A database is created with no migration applied, and raised by one at a  *)
(* time.                                                                   *)
LEMMA PutType ==
  ASSUME TypeInv, NEW d \in AllNames, NEW version \in 0..Latest, Put(d, version)
  PROVE  /\ DOMAIN dbs' = DOMAIN dbs \cup {d}
         /\ DOMAIN dbs' \subseteq AllNames /\ dbs' \in [DOMAIN dbs' -> 0..Latest]
<1>1. dbs' = [x \in DOMAIN dbs \cup {d} |-> IF x = d THEN version ELSE dbs[x]]
  BY DEF Put
<1>2. DOMAIN dbs' = DOMAIN dbs \cup {d}  BY <1>1
<1>3. \A x \in DOMAIN dbs \cup {d} : (IF x = d THEN version ELSE dbs[x]) \in 0..Latest
  BY DEF TypeInv, TypeOK
<1> QED  BY <1>1, <1>2, <1>3 DEF TypeInv, TypeOK

(* DROP DATABASE takes a database that nobody is connected to.              *)
LEMMA DropType ==
  ASSUME TypeInv, NEW d, DropDb(d)
  PROVE  /\ DOMAIN dbs' = DOMAIN dbs \ {d}
         /\ DOMAIN dbs' \subseteq AllNames /\ dbs' \in [DOMAIN dbs' -> 0..Latest]
         /\ \A q \in Procs : session[q] # None => session[q] \in DOMAIN dbs'
<1>1. dbs' = [x \in DOMAIN dbs \ {d} |-> dbs[x]]  BY DEF DropDb, Remove
<1>2. DOMAIN dbs' = DOMAIN dbs \ {d}  BY <1>1
<1>3. \A x \in DOMAIN dbs : dbs[x] \in 0..Latest  BY DEF TypeInv, TypeOK
<1>4. \A q \in Procs : session[q] # d  BY DEF DropDb, Connected
<1>5. DOMAIN dbs' \subseteq AllNames /\ dbs' \in [DOMAIN dbs' -> 0..Latest]
  BY <1>1, <1>2, <1>3 DEF TypeInv, TypeOK
<1> QED  BY <1>2, <1>4, <1>5 DEF TypeInv, SessionsKeepTheirDb

(* The steps of the migrator.                                              *)
LEMMA MigrateTypes ==
  ASSUME TypeInv, NEW p \in Procs, Migrate(p)
  PROVE  TypeInv'
<1> USE DEF TypeInv
<1>1. CASE CreateDb(p)
  <2>1. /\ Step(p, "creating", "connecting")
        /\ UNCHANGED <<trees, streams, cmd, dir, url, session, listed, pastVars>>
    BY <1>1 DEF CreateDb
  <2>2. CASE url[p] \in DOMAIN dbs
    BY <1>1, <2>1, <2>2, MoveTypes DEF CreateDb, Running, SessionPhases, TypeOK
  <2>3. CASE url[p] \notin DOMAIN dbs
    <3>0. url[p] \in AllNames  BY <2>1 DEF Step, CreatesNamed, TypeOK
    <3>1. Put(url[p], 0)  BY <1>1, <2>3 DEF CreateDb
    <3>2. /\ DOMAIN dbs \subseteq DOMAIN dbs'
          /\ DOMAIN dbs' \subseteq AllNames /\ dbs' \in [DOMAIN dbs' -> 0..Latest]
      BY <3>0, <3>1, PutType, LatestType
    <3>3. TypeOK'  BY <2>1, <3>2 DEF TypeOK, Step, Running
    <3>4. SessionsAtUrl' /\ CreatesNamed' /\ SessionsKeepTheirDb'
      BY <2>1, <3>2 DEF SessionsAtUrl, CreatesNamed, SessionsKeepTheirDb, Step,
        SessionPhases, TypeOK
    <3> QED  BY <3>3, <3>4
  <2> QED  BY <2>2, <2>3
<1>2. CASE Lock(p) \/ Migrated(p) \/ EnsureOfflineStream(p, "streaming", "done")
  <2>1. \E from, to \in SessionPhases \cap Running : Step(p, from, to) /\ to # "creating"
    BY <1>2 DEF Lock, Migrated, EnsureOfflineStream, SessionPhases, Running
  <2>2. /\ UNCHANGED <<trees, dbs, cmd, dir, url, session, listed, pastVars>>
        /\ streams' \subseteq AllNames
    <3>1. CASE EnsureOfflineStream(p, "streaming", "done")
      BY <3>1, StreamsAdded
    <3>2. CASE Lock(p) \/ Migrated(p)
      BY <3>2 DEF Lock, Migrated, TypeOK
    <3> QED  BY <1>2, <3>1, <3>2
  <2> QED  BY <2>1, <2>2, MoveTypes DEF TypeOK
<1>3. CASE ApplyMigration(p)
  <2>1. url[p] = session[p] /\ url[p] \in DOMAIN dbs
    BY <1>3 DEF ApplyMigration, SessionsAtUrl, SessionsKeepTheirDb
  <2>2. url[p] \in AllNames /\ dbs[url[p]] \in 0..Latest
    BY <2>1 DEF TypeOK
  <2>3. dbs[url[p]] + 1 \in 0..Latest
    BY <1>3, <2>2, LatestType DEF ApplyMigration
  <2>4. DOMAIN dbs' = DOMAIN dbs /\ dbs' \in [DOMAIN dbs' -> 0..Latest]
    BY <1>3, <2>1, <2>2, <2>3, PutType DEF ApplyMigration
  <2> QED  BY <1>3, <2>4 DEF ApplyMigration, procVars, TypeOK, SessionsAtUrl,
             CreatesNamed, SessionsKeepTheirDb
<1>4. CASE SessionLost(p)  BY <1>4, ExitTypes DEF SessionLost, Ended
<1> QED  BY <1>1, <1>2, <1>3, <1>4 DEF Migrate

(* The steps of --drop.                                                    *)
LEMMA DropTypes ==
  ASSUME TypeInv, NEW p \in Procs, Drop(p)
  PROVE  TypeInv'
<1> USE DEF TypeInv
<1>1. CASE DropWorktreeDb(p)
  <2>1. PICK d : DropDb(d)  BY <1>1 DEF DropWorktreeDb
  <2>2. /\ DOMAIN dbs' \subseteq AllNames /\ dbs' \in [DOMAIN dbs' -> 0..Latest]
        /\ \A q \in Procs : session[q] # None => session[q] \in DOMAIN dbs'
    BY <2>1, DropType
  <2>3. /\ Step(p, "dropping", "dropping_stream")
        /\ UNCHANGED <<trees, streams, cmd, dir, url, session, listed, pastVars>>
    BY <1>1 DEF DropWorktreeDb
  <2>4. TypeOK'  BY <2>2, <2>3 DEF TypeOK, Step, Running
  <2> QED  BY <2>2, <2>3, <2>4 DEF SessionsAtUrl, CreatesNamed, SessionsKeepTheirDb, Step,
             SessionPhases, TypeOK
<1>2. CASE DropRefused(p)  BY <1>2, ExitTypes DEF DropRefused, Ended
<1>3. CASE DropWorktreeStream(p)
  <2>1. PICK slug : streams' = streams \ ({StreamName(slug)} \ {Base})
    BY <1>3 DEF DropWorktreeStream
  <2>2. streams' \subseteq AllNames  BY <2>1 DEF TypeOK
  <2> QED  BY <1>3, <2>2, MoveTypes DEF DropWorktreeStream, TypeOK, Running, SessionPhases
<1> QED  BY <1>1, <1>2, <1>3 DEF Drop

(* The steps of --prune.                                                   *)
LEMMA PruneTypes ==
  ASSUME TypeInv, NEW p \in Procs, Prune(p)
  PROVE  TypeInv'
<1> USE DEF TypeInv
<1>1. CASE ListDbs(p) \/ CompareDbs(p) \/ DbsPruned(p) \/ CompareStreams(p)
  <2>1. \E from \in Running \ SessionPhases, to \in Running \ {"creating"} : Step(p, from, to)
    BY <1>1 DEF ListDbs, CompareDbs, DbsPruned, CompareStreams, Running, SessionPhases
  <2>2. /\ UNCHANGED <<trees, dbs, streams, cmd, dir, url, session, steady>>
        /\ blind' \subseteq Procs
    BY <1>1 DEF ListDbs, CompareDbs, DbsPruned, CompareStreams, KeepOrphans, TypeOK
  <2>3. listed' \in [Procs -> SUBSET AllNames]
    <3>1. CASE ListDbs(p) \/ DbsPruned(p)  BY <3>1 DEF ListDbs, DbsPruned, TypeOK
    <3>2. CASE CompareDbs(p) \/ CompareStreams(p)
      <4>1. PICK names \in SUBSET AllNames, active \in {LiveWorktreeSlugs, {}} :
              listed' = [listed EXCEPT ![p] = Orphans(names, active)]
        BY <3>2 DEF CompareDbs, CompareStreams, KeepOrphans, TypeOK
      <4>2. Orphans(names, active) \subseteq AllNames  BY DEF Orphans
      <4> QED  BY <4>1, <4>2 DEF TypeOK
    <3> QED  BY <1>1, <3>1, <3>2
  <2> QED  BY <2>1, <2>2, <2>3, MoveTypes DEF TypeOK
<1>2. ASSUME NEW d \in listed[p], TerminateSessions(p, d) PROVE TypeInv'
  <2>1. session[p] = None
    BY <1>2 DEF TerminateSessions, Step, SessionsAtUrl, SessionPhases
  <2>2. /\ Step(p, "terminating", "pruning") /\ url' = [url EXCEPT ![p] = d]
        /\ session' \in {session, [q \in Procs |-> IF session[q] = d THEN None ELSE session[q]]}
        /\ UNCHANGED <<trees, dbs, streams, cmd, dir, listed, pastVars>>
    BY <1>2 DEF TerminateSessions
  <2>3. TypeOK'  BY <1>2, <2>2 DEF TypeOK, Step, Running
  <2>4. \A q \in Procs : session'[q] # None => q # p /\ session'[q] = session[q]
    BY <2>1, <2>2 DEF TypeOK
  <2>5. \A q \in Procs \ {p} : url'[q] = url[q] /\ pc'[q] = pc[q]
    BY <2>2 DEF TypeOK, Step
  <2>6. pc'[p] = "pruning"  BY <2>2 DEF TypeOK, Step
  <2> QED  BY <2>2, <2>3, <2>4, <2>5, <2>6 DEF SessionsAtUrl, CreatesNamed,
             SessionsKeepTheirDb
<1>3. CASE PruneDb(p)
  <2>1. DropDb(url[p])  BY <1>3 DEF PruneDb
  <2>2. /\ DOMAIN dbs' \subseteq AllNames /\ dbs' \in [DOMAIN dbs' -> 0..Latest]
        /\ \A q \in Procs : session[q] # None => session[q] \in DOMAIN dbs'
    BY <2>1, DropType
  <2>3. /\ Step(p, "pruning", "terminating") /\ listed' = [listed EXCEPT ![p] = @ \ {url[p]}]
        /\ UNCHANGED <<trees, streams, cmd, dir, url, session, pastVars>>
    BY <1>3 DEF PruneDb
  <2>4. TypeOK'  BY <2>2, <2>3 DEF TypeOK, Step, Running
  <2> QED  BY <2>2, <2>3, <2>4 DEF SessionsAtUrl, CreatesNamed, SessionsKeepTheirDb, Step,
             SessionPhases, TypeOK
<1>4. CASE PruneRefused(p) \/ StreamsPruned(p)
  BY <1>4, ExitTypes DEF PruneRefused, StreamsPruned, Ended
<1>5. ASSUME NEW d \in listed[p], PruneStream(p, d) PROVE TypeInv'
  <2>1. /\ streams' \subseteq AllNames /\ listed' \in [Procs -> SUBSET AllNames]
        /\ UNCHANGED <<trees, dbs, pc, cmd, dir, url, session, pastVars>>
    BY <1>5 DEF PruneStream, TypeOK
  <2> QED  BY <2>1 DEF TypeOK, SessionsAtUrl, CreatesNamed, SessionsKeepTheirDb
<1> QED  BY <1>1, <1>2, <1>3, <1>4, <1>5 DEF Prune

(* A session is opened to a database that is there, the one of the process. *)
LEMMA SessionTypes ==
  ASSUME TypeInv, NEW p \in Procs, Connect(p) \/ PoolChanges(p)
  PROVE  TypeInv'
<1> USE DEF TypeInv
<1>1. /\ UNCHANGED <<trees, dbs, streams, cmd, dir, url, listed, pastVars>>
      /\ \E s \in {None, url[p]} : session' = [session EXCEPT ![p] = s]
  BY DEF Connect, PoolChanges
<1>2. session'[p] \in DOMAIN dbs \cup {None}  BY <1>1 DEF Connect, PoolChanges, TypeOK
<1>3. /\ pc' \in [Procs -> {"idle"} \cup Running \cup Ended] /\ pc'[p] \in SessionPhases
      /\ \A q \in Procs \ {p} : pc'[q] = pc[q]
  <2>1. CASE Connect(p)
    BY <2>1 DEF Connect, Step, TypeOK, Running, SessionPhases
  <2>2. CASE PoolChanges(p)
    BY <2>2 DEF PoolChanges, TypeOK, SessionPhases
  <2> QED  BY <2>1, <2>2
<1>4. TypeOK'  BY <1>1, <1>2, <1>3 DEF TypeOK
<1> QED  BY <1>1, <1>2, <1>3, <1>4 DEF SessionsAtUrl, CreatesNamed, SessionsKeepTheirDb,
           TypeOK, SessionPhases

(* Every step keeps the types and the sessions.                            *)
LEMMA TypeNext ==
  ASSUME TypeInv, [Next]_vars
  PROVE  TypeInv'
<1> USE DEF TypeInv
<1>1. CASE UNCHANGED vars
  BY <1>1 DEF vars, procVars, TypeOK, SessionsAtUrl, CreatesNamed, SessionsKeepTheirDb
<1>2. ASSUME NEW n \in Names, AddTree(n) \/ RemoveTree(n) PROVE TypeInv'
  BY <1>2 DEF AddTree, RemoveTree, procVars, TypeOK, SessionsAtUrl, CreatesNamed,
       SessionsKeepTheirDb
<1>3. ASSUME NEW p \in Procs, NEW c \in Commands, NEW d \in Checkouts, Start(p, c, d)
      PROVE  TypeInv'
  <2>1. PICK slug \in SlugsIn(p, d) :
          /\ url' = [url EXCEPT ![p] = IF c \in {"migrate", "serve"}
                                       THEN DbName(slug) ELSE None]
          /\ pc' = [pc EXCEPT ![p] = FirstStep(c, slug)]
    BY <1>3 DEF Start
  <2>2. DbName(slug) \in AllNames /\ DbName(slug) # None
    <3>1. slug \in Seq(DOMAIN Clean) \cup {None}  BY SlugsAreSlugs DEF TypeOK
    <3> QED  BY <3>1, NameTypes, NoneIsNoName
  <2>3. /\ cmd' = [cmd EXCEPT ![p] = c] /\ dir' = [dir EXCEPT ![p] = d]
        /\ steady' = [steady EXCEPT ![p] = trees] /\ pc[p] = "idle"
        /\ UNCHANGED <<trees, dbs, streams, session, listed, blind>>
    BY <1>3 DEF Start
  <2>4. FirstStep(c, slug) \in Running \cup Ended
    BY FirstStepType DEF Running, Ended
  <2>5. TypeOK'  BY <2>1, <2>2, <2>3, <2>4 DEF TypeOK
  <2>6. FirstStep(c, slug) = "creating" => c = "migrate"  BY DEF FirstStep
  <2>7. session[p] = None  BY <2>3 DEF SessionsAtUrl, SessionPhases
  <2> QED  BY <2>1, <2>2, <2>3, <2>5, <2>6, <2>7 DEF TypeOK, SessionsAtUrl, CreatesNamed,
             SessionsKeepTheirDb
<1>4. ASSUME NEW p \in Procs, Work(p) \/ PoolChanges(p) \/ Kill(p) PROVE TypeInv'
  <2>1. CASE Migrate(p) \/ Drop(p) \/ Prune(p) \/ Connect(p) \/ PoolChanges(p)
    BY <2>1, MigrateTypes, DropTypes, PruneTypes, SessionTypes
  <2>2. CASE NoSuchDb(p) \/ NatsSkipped(p) \/ Unreachable(p) \/ Done(p) \/ Kill(p)
    <3>1. \E from, result : result \in Ended /\ Exit(p, from, result)
      BY <2>2 DEF NoSuchDb, NatsSkipped, Unreachable, Done, Kill, Ended
    <3> QED  BY <3>1, ExitTypes
  <2>3. CASE Serve(p)
    <3>1. CASE EnsureOfflineStream(p, "ensuring", "building")
      <4>1. Step(p, "ensuring", "building")  BY <3>1 DEF EnsureOfflineStream
      <4>2. /\ streams' \subseteq AllNames
            /\ UNCHANGED <<trees, dbs, cmd, dir, url, session, listed, pastVars>>
        BY <3>1, StreamsAdded
      <4> QED  BY <4>1, <4>2, MoveTypes DEF Running, SessionPhases, TypeOK
    <3>2. CASE BuildAuth(p)
      BY <3>2, MoveTypes DEF BuildAuth, Running, SessionPhases, TypeOK
    <3> QED  BY <2>3, <3>1, <3>2 DEF Serve
  <2> QED  BY <1>4, <2>1, <2>2, <2>3 DEF Work
<1> QED  BY <1>1, <1>2, <1>3, <1>4 DEF Next

LEMMA TypeInvariance == Spec => []TypeInv
<1>1. TypeInv /\ [Next]_vars => TypeInv'  BY TypeNext
<1> QED  BY TypeInit, <1>1, PTL DEF Spec

(* Names, databases, streams and processes keep to their types: no process  *)
(* migrates or reads a database that is not there.                          *)
THEOREM TypeCorrect == Spec => []TypeOK
BY TypeInvariance, PTL DEF TypeInv
----------------------------------------------------------------------------
(* The steps, by what they do to a prune.                                  *)

(* Where a process is that is about to drop what it listed, and the two     *)
(* places before that.                                                     *)
Prunes   == {"terminating", "pruning", "pruning_streams"}
Compares == {"listing", "comparing"}

(* A step of a process that neither prunes nor exits: it leads nowhere near *)
(* a prune and touches no list and nobody else's session.                   *)
Aside(p) ==
  /\ \E to \in Running \ (Prunes \cup Compares) : pc' = [pc EXCEPT ![p] = to]
  /\ UNCHANGED <<trees, cmd, url, listed, pastVars>>
  /\ \A q \in Procs \ {p} : session'[q] = session[q]

(* A step that moves no process.                                           *)
Still ==
  /\ UNCHANGED <<pc, cmd, url, listed, blind>>
  /\ \A p \in Procs : steady'[p] \subseteq steady[p] \cap trees'

(* How a process starts, for the lists of the prunes.                       *)
Begins(p) ==
  /\ \E c \in Commands, to \in {"creating", "failed", "dropping", "connecting", "listing"} :
       /\ cmd' = [cmd EXCEPT ![p] = c] /\ pc' = [pc EXCEPT ![p] = to]
       /\ to = "listing" => url'[p] = None
  /\ \A q \in Procs \ {p} : url'[q] = url[q]
  /\ steady' = [steady EXCEPT ![p] = trees]
  /\ UNCHANGED <<trees, session, listed, blind>>

LEMMA StepKinds ==
  ASSUME TypeOK, \A p \in Procs : steady[p] \subseteq trees, [Next]_vars
  PROVE  \/ \E p \in Procs : Prune(p) /\ ~PruneRefused(p) /\ ~StreamsPruned(p)
         \/ \E p \in Procs, result \in Ended : \E from : Exit(p, from, result)
         \/ \E p \in Procs : Begins(p) \/ Aside(p)
         \/ Still
<1> DEFINE Goal == \/ \E p \in Procs : Prune(p) /\ ~PruneRefused(p) /\ ~StreamsPruned(p)
                   \/ \E p \in Procs, result \in Ended : \E from : Exit(p, from, result)
                   \/ \E p \in Procs : Begins(p) \/ Aside(p)
                   \/ Still
<1>1. ASSUME UNCHANGED vars PROVE Still
  BY <1>1 DEF vars, procVars, Still
<1>2. ASSUME NEW n \in Names, AddTree(n) \/ RemoveTree(n) PROVE Still
  BY <1>2 DEF AddTree, RemoveTree, procVars, Still, TypeOK
<1>3. ASSUME NEW p \in Procs, NEW c \in Commands, NEW d \in Checkouts, Start(p, c, d)
      PROVE  Begins(p)
  <2>1. PICK slug :
          /\ url' = [url EXCEPT ![p] = IF c \in {"migrate", "serve"}
                                       THEN DbName(slug) ELSE None]
          /\ pc' = [pc EXCEPT ![p] = FirstStep(c, slug)]
    BY <1>3 DEF Start
  <2>2. FirstStep(c, slug) = "listing" => c \notin {"migrate", "serve"}
    BY DEF FirstStep
  <2>3. url'[p] = IF c \in {"migrate", "serve"} THEN DbName(slug) ELSE None
    BY <2>1 DEF TypeOK
  <2>4. \A q \in Procs \ {p} : url'[q] = url[q]  BY <2>1 DEF TypeOK
  <2>5. /\ cmd' = [cmd EXCEPT ![p] = c] /\ steady' = [steady EXCEPT ![p] = trees]
        /\ UNCHANGED <<trees, session, listed, blind>>
    BY <1>3 DEF Start
  <2> QED  BY <2>1, <2>2, <2>3, <2>4, <2>5, FirstStepType DEF Begins
<1>4. ASSUME NEW p \in Procs, Work(p) \/ PoolChanges(p) \/ Kill(p) PROVE Goal
  <2>1. CASE Prune(p) /\ ~PruneRefused(p) /\ ~StreamsPruned(p)  BY <2>1
  <2>2. CASE NoSuchDb(p) \/ NatsSkipped(p) \/ Unreachable(p) \/ Kill(p) \/ Done(p)
             \/ SessionLost(p) \/ DropRefused(p) \/ PruneRefused(p) \/ StreamsPruned(p)
    BY <2>2 DEF NoSuchDb, NatsSkipped, Unreachable, Kill, Done, SessionLost,
                DropRefused, PruneRefused, StreamsPruned, Ended
  <2>3. CASE ApplyMigration(p) \/ PoolChanges(p)
    <3>1. Still
      BY <2>3 DEF ApplyMigration, PoolChanges, procVars, Still
    <3> QED  BY <3>1
  <2>4. CASE Connect(p) \/ CreateDb(p) \/ Lock(p) \/ Migrated(p)
             \/ EnsureOfflineStream(p, "streaming", "done")
             \/ DropWorktreeDb(p) \/ DropWorktreeStream(p) \/ Serve(p)
    <3>1. \E to \in Running \ (Prunes \cup Compares) : pc' = [pc EXCEPT ![p] = to]
      <4> USE DEF Running, Prunes, Compares
      <4>1. CASE Connect(p)
        <5>1. \E to \in {"ensuring", "locking"} : pc' = [pc EXCEPT ![p] = to]
          BY <4>1 DEF Connect, Step
        <5> QED  BY <5>1
      <4>2. CASE CreateDb(p) \/ Lock(p) \/ Migrated(p)
        BY <4>2 DEF CreateDb, Lock, Migrated, Step
      <4>3. CASE EnsureOfflineStream(p, "streaming", "done")
        BY <4>3 DEF EnsureOfflineStream, Step
      <4>4. CASE DropWorktreeDb(p) \/ DropWorktreeStream(p)
        BY <4>4 DEF DropWorktreeDb, DropWorktreeStream, Step
      <4>5. CASE Serve(p)  BY <4>5 DEF Serve, EnsureOfflineStream, BuildAuth, Step
      <4> QED  BY <2>4, <4>1, <4>2, <4>3, <4>4, <4>5
    <3>2. UNCHANGED <<trees, cmd, url, listed, pastVars>>
      BY <2>4 DEF Connect, CreateDb, Lock, Migrated, EnsureOfflineStream,
                  DropWorktreeDb, DropWorktreeStream, Serve, BuildAuth
    <3>3. \A q \in Procs \ {p} : session'[q] = session[q]
      BY <2>4 DEF Connect, CreateDb, Lock, Migrated, EnsureOfflineStream,
                  DropWorktreeDb, DropWorktreeStream, Serve, BuildAuth, TypeOK
    <3>4. Aside(p)  BY <3>1, <3>2, <3>3 DEF Aside
    <3> QED  BY <3>4
  <2> QED  BY <1>4, <2>1, <2>2, <2>3, <2>4 DEF Work, Migrate, Drop, Serve
<1> HIDE DEF Goal
<1>5. Goal
  BY <1>1, <1>2, <1>3, <1>4 DEF Next, Goal
<1> QED  BY <1>5 DEF Goal
----------------------------------------------------------------------------
(* Live worktrees.                                                         *)

(* What a prune is about to drop holds no name of a worktree that has been  *)
(* there since it started, if git listed that worktree.                     *)
Spares(p) ==
  /\ steady[p] \subseteq trees
  /\ pc[p] = "pruning" => url[p] \in listed[p]
  /\ p \notin blind =>
       \A n \in steady[p] :
         /\ pc[p] \in {"terminating", "pruning"} /\ Len(n) <= Room =>
              DbName(SanitizeSlug(n)) \notin listed[p]
         /\ pc[p] = "pruning_streams" => StreamName(SanitizeSlug(n)) \notin listed[p]

LiveAreSpared == \A p \in Procs : Spares(p)

(* A slug is not None, and sanitising keeps its length.                     *)
LEMMA SlugIsSome == ASSUME NEW s \in Seq(DOMAIN Clean) PROVE s # None
<1>1. s \in Seq(DOMAIN Clean \cup {"_wt_"})  OBVIOUS
<1> QED  BY <1>1, WorktreesAssumption

LEMMA SanitizedLength ==
  ASSUME NEW s \in Seq(DOMAIN Clean)
  PROVE  Len(SanitizeSlug(s)) = Len(s)
<1>1. SanitizeSlug(s) = [i \in 1..Len(s) |-> Clean[s[i]]] /\ Len(s) \in Nat
  BY DEF SanitizeSlug
<1> QED  BY <1>1

(* The worktrees that git lists have no orphans: their stream never is one, *)
(* nor is their database when its name takes the whole slug.                *)
LEMMA LiveAreNoOrphans ==
  ASSUME trees \subseteq Names, NEW names, NEW n \in trees
  PROVE  /\ StreamName(SanitizeSlug(n)) \notin Orphans(names, LiveWorktreeSlugs)
         /\ Len(n) <= Room =>
              DbName(SanitizeSlug(n)) \notin Orphans(names, LiveWorktreeSlugs)
<1>1. SanitizeSlug(n) \in LiveWorktreeSlugs  BY DEF LiveWorktreeSlugs
<1>2. n \in Seq(DOMAIN Clean)  BY WorktreesAssumption
<1>3. SanitizeSlug(n) \in Seq(DOMAIN Clean)  BY <1>2, SanitizedIsSlug
<1>4. SanitizeSlug(n) # None  BY <1>3, SlugIsSome
<1>5. Len(SanitizeSlug(n)) = Len(n)  BY <1>2, SanitizedLength
<1>6. Tail(Prefixed(SanitizeSlug(n))) \in LiveWorktreeSlugs  BY <1>1, <1>3, PrefixedName
<1>7. Prefixed(SanitizeSlug(n)) \notin Orphans(names, LiveWorktreeSlugs)
  BY <1>6 DEF Orphans
<1>8. StreamName(SanitizeSlug(n)) = Prefixed(SanitizeSlug(n))  BY <1>4 DEF StreamName
<1>9. Len(n) <= Room => DbName(SanitizeSlug(n)) = Prefixed(SanitizeSlug(n))
  BY <1>4, <1>5 DEF DbName, Truncate
<1> QED  BY <1>7, <1>8, <1>9

LEMMA SparedInit == Init => LiveAreSpared
BY DEF Init, LiveAreSpared, Spares

(* A step of one process that leaves the worktrees alone, seen from the     *)
(* others.                                                                 *)
LEMMA OthersSpared ==
  ASSUME LiveAreSpared, TypeOK, NEW p \in Procs, trees' = trees,
         \A q \in Procs \ {p} : /\ pc'[q] = pc[q] /\ url'[q] = url[q]
                                /\ listed'[q] = listed[q] /\ steady'[q] = steady[q]
                                /\ (q \in blind' <=> q \in blind),
         Spares(p)'
  PROVE  LiveAreSpared'
BY DEF LiveAreSpared, Spares

(* The list of a prune whose git worktree list did not fail.                *)
LEMMA KeptOrphans ==
  ASSUME TypeOK, NEW p \in Procs, NEW names, KeepOrphans(p, names)
  PROVE  /\ listed'[p] \subseteq names
         /\ p \notin blind' => listed'[p] = Orphans(names, LiveWorktreeSlugs)
         /\ \A q \in Procs \ {p} : listed'[q] = listed[q] /\ (q \in blind' <=> q \in blind)
<1>1. ASSUME NEW active, listed' = [listed EXCEPT ![p] = Orphans(names, active)]
      PROVE  /\ listed'[p] = Orphans(names, active) /\ listed'[p] \subseteq names
             /\ \A q \in Procs \ {p} : listed'[q] = listed[q]
  BY <1>1 DEF Orphans, TypeOK
<1>2. CASE p \in blind'
  BY <1>1, <1>2 DEF KeepOrphans
<1>3. CASE p \notin blind'
  BY <1>1, <1>3 DEF KeepOrphans
<1> QED  BY <1>2, <1>3

(* What a prune does: it compares, and then only takes names off its list.  *)
LEMMA PruneSpares ==
  ASSUME LiveAreSpared, TypeOK,
         NEW p \in Procs, Prune(p), ~PruneRefused(p), ~StreamsPruned(p)
  PROVE  LiveAreSpared'
<1>1. /\ UNCHANGED <<trees, steady>>
      /\ \A q \in Procs \ {p} : /\ pc'[q] = pc[q] /\ url'[q] = url[q]
                                /\ listed'[q] = listed[q] /\ (q \in blind' <=> q \in blind)
  <2>1. CASE CompareDbs(p)
    BY <2>1, KeptOrphans DEF CompareDbs, Step, TypeOK
  <2>2. CASE CompareStreams(p)
    BY <2>2, KeptOrphans DEF CompareStreams, Step, TypeOK
  <2>3. CASE ~CompareDbs(p) /\ ~CompareStreams(p)
    BY <2>3 DEF Prune, ListDbs, TerminateSessions, PruneDb, DbsPruned, PruneStream,
         Step, TypeOK
  <2> QED  BY <2>1, <2>2, <2>3
<1>2. steady[p] \subseteq trees  BY DEF LiveAreSpared, Spares
<1>3. steady'[p] = steady[p] /\ trees' = trees  BY <1>1
<1>4. ASSUME ListDbs(p) \/ DbsPruned(p) PROVE Spares(p)'
  BY <1>2, <1>3, <1>4 DEF ListDbs, DbsPruned, Step, TypeOK, Spares
<1>5. ASSUME CompareDbs(p) PROVE Spares(p)'
  <2>1. KeepOrphans(p, listed[p])  BY <1>5 DEF CompareDbs
  <2>2. pc'[p] \in {"terminating", "comparing_streams"}
    BY <1>5 DEF CompareDbs, Step, TypeOK
  <2>3. ASSUME p \notin blind', NEW n \in steady[p], Len(n) <= Room
        PROVE  DbName(SanitizeSlug(n)) \notin listed'[p]
    <3>1. n \in trees /\ trees \subseteq Names  BY <1>2 DEF TypeOK
    <3> QED  BY <2>1, <2>3, <3>1, KeptOrphans, LiveAreNoOrphans
  <2> QED  BY <1>2, <1>3, <2>2, <2>3 DEF Spares
<1>6. ASSUME NEW d \in listed[p], TerminateSessions(p, d) PROVE Spares(p)'
  <2>1. /\ pc'[p] = "pruning" /\ pc[p] = "terminating" /\ listed'[p] = listed[p]
        /\ url'[p] = d /\ blind' = blind
    BY <1>6 DEF TerminateSessions, Step, TypeOK
  <2> QED  BY <1>2, <1>3, <2>1 DEF LiveAreSpared, Spares
<1>7. ASSUME PruneDb(p) PROVE Spares(p)'
  <2>1. /\ pc[p] = "pruning" /\ pc'[p] = "terminating" /\ blind' = blind
        /\ listed'[p] \subseteq listed[p]
    BY <1>7 DEF PruneDb, Step, TypeOK
  <2> QED  BY <1>2, <1>3, <2>1 DEF LiveAreSpared, Spares
<1>8. ASSUME CompareStreams(p) PROVE Spares(p)'
  <2>1. KeepOrphans(p, streams)  BY <1>8 DEF CompareStreams
  <2>2. pc'[p] \in {"pruning_streams", "done"}
    BY <1>8 DEF CompareStreams, Step, TypeOK
  <2>3. ASSUME p \notin blind', NEW n \in steady[p]
        PROVE  StreamName(SanitizeSlug(n)) \notin listed'[p]
    <3>1. n \in trees /\ trees \subseteq Names  BY <1>2 DEF TypeOK
    <3> QED  BY <2>1, <2>3, <3>1, KeptOrphans, LiveAreNoOrphans
  <2> QED  BY <1>2, <1>3, <2>2, <2>3 DEF Spares
<1>9. ASSUME NEW d \in listed[p], PruneStream(p, d) PROVE Spares(p)'
  <2>1. /\ pc'[p] = "pruning_streams" /\ pc[p] = "pruning_streams" /\ blind' = blind
        /\ listed'[p] \subseteq listed[p]
    BY <1>9 DEF PruneStream, TypeOK
  <2> QED  BY <1>2, <1>3, <2>1 DEF LiveAreSpared, Spares
<1>10. Spares(p)'  BY <1>4, <1>5, <1>6, <1>7, <1>8, <1>9 DEF Prune
<1> QED  BY <1>1, <1>10, OthersSpared

(* The steps of the other commands lead nowhere near a prune.               *)
LEMMA SparedNext ==
  ASSUME LiveAreSpared, TypeOK, [Next]_vars
  PROVE  LiveAreSpared'
<1>0. \A p \in Procs : steady[p] \subseteq trees  BY DEF LiveAreSpared, Spares
<1>1. ASSUME NEW p \in Procs, NEW from, NEW result \in Ended, Exit(p, from, result)
      PROVE  LiveAreSpared'
  <2>1. /\ trees' = trees /\ steady'[p] = {} /\ pc'[p] = result
        /\ \A q \in Procs \ {p} : /\ pc'[q] = pc[q] /\ url'[q] = url[q]
                                  /\ listed'[q] = listed[q] /\ steady'[q] = steady[q]
                                  /\ (q \in blind' <=> q \in blind)
    BY <1>1 DEF Exit, Step, TypeOK
  <2>2. Spares(p)'  BY <2>1 DEF Ended, Spares
  <2> QED  BY <2>1, <2>2, OthersSpared
<1>2. ASSUME NEW p \in Procs, Begins(p) PROVE LiveAreSpared'
  <2>1. /\ trees' = trees /\ steady'[p] = trees /\ pc'[p] \notin Prunes
        /\ \A q \in Procs \ {p} : /\ pc'[q] = pc[q] /\ url'[q] = url[q]
                                  /\ listed'[q] = listed[q] /\ steady'[q] = steady[q]
                                  /\ (q \in blind' <=> q \in blind)
    BY <1>2 DEF Begins, Prunes, TypeOK
  <2>2. Spares(p)'  BY <2>1 DEF Prunes, Spares
  <2> QED  BY <2>1, <2>2, OthersSpared
<1>3. ASSUME NEW p \in Procs, Aside(p) PROVE LiveAreSpared'
  <2>1. /\ pc'[p] \notin Prunes /\ \A q \in Procs \ {p} : pc'[q] = pc[q]
        /\ UNCHANGED <<trees, url, listed, steady, blind>>
    BY <1>3 DEF Aside, TypeOK
  <2>2. Spares(p)'  BY <1>0, <2>1 DEF Prunes, Spares
  <2> QED  BY <2>1, <2>2, OthersSpared
<1>4. ASSUME Still PROVE LiveAreSpared'
  BY <1>4 DEF Still, LiveAreSpared, Spares
<1> QED  BY <1>0, <1>1, <1>2, <1>3, <1>4, PruneSpares, StepKinds

(* A list changes in the steps of its own process, which drop nothing but   *)
(* what is on it.                                                          *)
LEMMA PruneDropsListed ==
  ASSUME LiveAreSpared, TypeOK, Next, NEW p \in Procs, listed'[p] # listed[p],
         p \notin blind, NEW n \in steady[p]
  PROVE  /\ Len(n) <= Room => ~Dropped(DbName(SanitizeSlug(n)))
         /\ ~Deleted(StreamName(SanitizeSlug(n)))
<1> USE DEF Dropped, Deleted
<1>1. CASE PruneDb(p)
  <2>1. UNCHANGED streams /\ dbs' = [x \in DOMAIN dbs \ {url[p]} |-> dbs[x]]
    BY <1>1 DEF PruneDb, DropDb, Remove
  <2>2. Len(n) <= Room => url[p] # DbName(SanitizeSlug(n))
    BY <1>1 DEF PruneDb, Step, LiveAreSpared, Spares
  <2> QED  BY <2>1, <2>2
<1>2. ASSUME NEW d \in listed[p], PruneStream(p, d)
      PROVE  UNCHANGED dbs /\ ~Deleted(StreamName(SanitizeSlug(n)))
  BY <1>2 DEF PruneStream, LiveAreSpared, Spares
<1>3. ASSUME NEW q \in Procs, NEW from, NEW result, Exit(q, from, result)
      PROVE  UNCHANGED <<dbs, streams>>
  BY <1>3 DEF Exit
<1>4. CASE ListDbs(p) \/ CompareDbs(p) \/ CompareStreams(p)
  BY <1>4 DEF ListDbs, CompareDbs, CompareStreams
<1>5. ASSUME NEW q \in Procs, Prune(q), ~PruneRefused(q), ~StreamsPruned(q)
      PROVE  \/ q = p /\ (PruneDb(p) \/ ListDbs(p) \/ CompareDbs(p) \/ CompareStreams(p))
             \/ \E d \in listed[p] : PruneStream(p, d)
  <2>1. q = p
    <3>1. CASE CompareDbs(q) \/ CompareStreams(q)
      BY <3>1, KeptOrphans DEF CompareDbs, CompareStreams
    <3>2. CASE ListDbs(q) \/ PruneDb(q) \/ DbsPruned(q)
      BY <3>2 DEF ListDbs, PruneDb, DbsPruned, TypeOK
    <3>3. ASSUME NEW d \in listed[q], TerminateSessions(q, d) \/ PruneStream(q, d)
          PROVE  q = p
      BY <3>3 DEF TerminateSessions, PruneStream, TypeOK
    <3> QED  BY <1>5, <3>1, <3>2, <3>3 DEF Prune
  <2>2. ~DbsPruned(q) /\ ~\E d \in listed[q] : TerminateSessions(q, d)
    BY <2>1 DEF DbsPruned, TerminateSessions
  <2> QED  BY <1>5, <2>1, <2>2 DEF Prune
<1>6. ASSUME NEW q \in Procs,
             \/ NoSuchDb(q) \/ NatsSkipped(q) \/ Unreachable(q) \/ Kill(q) \/ Done(q)
             \/ SessionLost(q) \/ DropRefused(q) \/ PruneRefused(q) \/ StreamsPruned(q)
      PROVE  UNCHANGED <<dbs, streams>>
  <2>1. \E from, result : Exit(q, from, result)
    BY <1>6 DEF NoSuchDb, NatsSkipped, Unreachable, Kill, Done, SessionLost,
                DropRefused, PruneRefused, StreamsPruned
  <2> QED  BY <1>3, <2>1
<1>7. ASSUME NEW q \in Procs,
             \/ ApplyMigration(q) \/ PoolChanges(q) \/ Connect(q) \/ CreateDb(q) \/ Lock(q)
             \/ Migrated(q) \/ EnsureOfflineStream(q, "streaming", "done")
             \/ DropWorktreeDb(q) \/ DropWorktreeStream(q) \/ Serve(q)
      PROVE  FALSE
  BY <1>7 DEF ApplyMigration, PoolChanges, procVars, Connect, CreateDb, Lock, Migrated,
       EnsureOfflineStream, DropWorktreeDb, DropWorktreeStream, Serve, BuildAuth
<1>8. ASSUME NEW q \in Procs, NEW c \in Commands, NEW d \in Checkouts, Start(q, c, d)
      PROVE  FALSE
  BY <1>8 DEF Start
<1>9. ASSUME NEW m \in Names, AddTree(m) \/ RemoveTree(m) PROVE FALSE
  BY <1>9 DEF AddTree, RemoveTree, procVars
<1>10. ASSUME NEW q \in Procs, Work(q) \/ PoolChanges(q) \/ Kill(q)
       PROVE  /\ Len(n) <= Room => ~Dropped(DbName(SanitizeSlug(n)))
              /\ ~Deleted(StreamName(SanitizeSlug(n)))
  BY <1>1, <1>2, <1>4, <1>5, <1>6, <1>7, <1>10 DEF Work, Migrate, Drop, Serve
<1> QED  BY <1>8, <1>9, <1>10 DEF Next

(* A prune leaves the stream of every worktree that is there throughout, and *)
(* its database where the name holds the whole slug, unless the git worktree *)
(* list that it goes by has failed (orphaned_worktree_dbs,                  *)
(* orphaned_worktree_streams).                                             *)
THEOREM LiveWorktreesAreSpared == Spec => NeverPrunesLive
<1>1. LiveAreSpared /\ TypeInv /\ [Next]_vars => LiveAreSpared'
  BY SparedNext DEF TypeInv
<1>2. LiveAreSpared /\ TypeInv /\ [Next]_vars =>
        [\A p \in Procs :
           (cmd[p] = "prune" /\ listed'[p] # listed[p]) =>
             /\ \A d \in DOMAIN dbs : IsLiveDb(p, d) => ~Dropped(d)
             /\ \A n \in steady[p] :
                  p \notin blind => ~Deleted(StreamName(SanitizeSlug(n)))]_vars
  <2>1. CASE Next  BY <2>1, PruneDropsListed DEF TypeInv, IsLiveDb
  <2>2. CASE UNCHANGED vars  BY <2>2
  <2> QED  BY <2>1, <2>2
<1> QED  BY SparedInit, <1>1, <1>2, TypeInvariance, PTL DEF Spec, NeverPrunesLive
----------------------------------------------------------------------------
(* The sessions of the others.                                             *)

(* A prune has one target at a time, which it has not had before.           *)
OneTarget ==
  \A p \in Procs :
    /\ pc[p] \in Compares => url[p] = None
    /\ pc[p] \in {"terminating", "pruning"} => cmd[p] = "prune"
    /\ pc[p] = "terminating" => url[p] \notin listed[p]

LEMMA OneTargetInit == Init => OneTarget
BY DEF Init, OneTarget, Compares

(* Seen from the other processes.                                          *)
LEMMA OthersTargets ==
  ASSUME OneTarget, NEW p \in Procs,
         \A q \in Procs \ {p} : /\ pc'[q] = pc[q] /\ url'[q] = url[q]
                                /\ listed'[q] = listed[q] /\ cmd'[q] = cmd[q],
         pc'[p] \in Compares => url'[p] = None,
         pc'[p] \in {"terminating", "pruning"} => cmd'[p] = "prune",
         pc'[p] = "terminating" => url'[p] \notin listed'[p]
  PROVE  OneTarget'
BY DEF OneTarget

LEMMA PruneTargets ==
  ASSUME OneTarget, TypeOK,
         NEW p \in Procs, Prune(p), ~PruneRefused(p), ~StreamsPruned(p)
  PROVE  OneTarget'
<1> USE DEF TypeOK, Step, Compares
<1>1. CASE ListDbs(p)
  BY <1>1, OthersTargets DEF ListDbs, OneTarget
<1>2. CASE CompareDbs(p)
  <2>1. /\ listed'[p] \subseteq listed[p]
        /\ \A q \in Procs \ {p} : listed'[q] = listed[q]
    BY <1>2, KeptOrphans DEF CompareDbs
  <2>2. url[p] = None  BY <1>2 DEF CompareDbs, OneTarget
  <2>3. None \notin listed'[p]  BY <2>1, NoneIsNoName
  <2> QED  BY <1>2, <2>1, <2>2, <2>3, OthersTargets DEF CompareDbs
<1>3. ASSUME NEW d \in listed[p], TerminateSessions(p, d) PROVE OneTarget'
  BY <1>3, OthersTargets DEF TerminateSessions, OneTarget
<1>4. CASE PruneDb(p)
  BY <1>4, OthersTargets DEF PruneDb, OneTarget
<1>5. CASE DbsPruned(p)
  BY <1>5, OthersTargets DEF DbsPruned
<1>6. CASE CompareStreams(p)
  <2>1. \A q \in Procs \ {p} : listed'[q] = listed[q]
    BY <1>6, KeptOrphans DEF CompareStreams
  <2> QED  BY <1>6, <2>1, OthersTargets DEF CompareStreams
<1>7. ASSUME NEW d \in listed[p], PruneStream(p, d) PROVE OneTarget'
  BY <1>7, OthersTargets DEF PruneStream
<1> QED  BY <1>1, <1>2, <1>3, <1>4, <1>5, <1>6, <1>7 DEF Prune

LEMMA OneTargetNext ==
  ASSUME OneTarget, LiveAreSpared, TypeOK, [Next]_vars
  PROVE  OneTarget'
<1>0. \A p \in Procs : steady[p] \subseteq trees  BY DEF LiveAreSpared, Spares
<1>1. ASSUME NEW p \in Procs, NEW from, NEW result \in Ended, Exit(p, from, result)
      PROVE  OneTarget'
  BY <1>1, OthersTargets DEF Exit, Step, TypeOK, Ended, Compares
<1>2. ASSUME NEW p \in Procs, Begins(p) PROVE OneTarget'
  BY <1>2, OthersTargets DEF Begins, TypeOK, Compares
<1>3. ASSUME NEW p \in Procs, Aside(p) PROVE OneTarget'
  BY <1>3, OthersTargets DEF Aside, TypeOK, Compares, Prunes
<1>4. ASSUME Still PROVE OneTarget'
  BY <1>4 DEF Still, OneTarget
<1> QED  BY <1>0, <1>1, <1>2, <1>3, <1>4, PruneTargets, StepKinds

(* Nobody ends the session of another process but a prune that comes to a   *)
(* database for the first time.                                            *)
LEMMA OnlyTerminates ==
  ASSUME OneTarget, LiveAreSpared, TypeOK, BaseInv, [Next]_vars,
         NEW p \in Procs, NEW q \in Procs, p # q,
         pc'[p] # pc[p], session'[q] # session[q]
  PROVE  /\ cmd[p] = "prune"
         /\ session[q] \in listed[p] \ {Base, url[p]}
         /\ ~IsLiveDb(p, session[q])
<1>0. \A r \in Procs : steady[r] \subseteq trees  BY DEF LiveAreSpared, Spares
<1>1. ASSUME NEW r \in Procs, NEW from, NEW result, Exit(r, from, result) PROVE FALSE
  BY <1>1 DEF Exit, Step, TypeOK
<1>2. ASSUME NEW r \in Procs, Begins(r) \/ Aside(r) PROVE FALSE
  BY <1>2 DEF Begins, Aside, TypeOK
<1>3. ~Still  BY DEF Still
<1>4. PICK r \in Procs : Prune(r) /\ ~PruneRefused(r) /\ ~StreamsPruned(r)
  BY <1>0, <1>1, <1>2, <1>3, StepKinds
<1>5. PICK d \in listed[r] : TerminateSessions(r, d)
  BY <1>4 DEF Prune, ListDbs, CompareDbs, PruneDb, DbsPruned, CompareStreams, PruneStream
<1>6. r = p  BY <1>5 DEF TerminateSessions, Step, TypeOK
<1>7. session[q] = d /\ pc[p] = "terminating" /\ d \in listed[p]
  BY <1>5, <1>6 DEF TerminateSessions, Step, TypeOK
<1>8. cmd[p] = "prune" /\ d # url[p]  BY <1>7 DEF OneTarget
<1>9. d # Base  BY <1>7 DEF BaseInv, PrunesDerived, Doomed
<1>10. ~IsLiveDb(p, d)  BY <1>7 DEF LiveAreSpared, Spares, IsLiveDb
<1> QED  BY <1>7, <1>8, <1>9, <1>10

(* A session ends by its own process, or by a prune of a derived database   *)
(* that no worktree it knows of uses, once: who comes back before the DROP  *)
(* stays (prune_worktree_dbs).                                             *)
THEOREM ReconnectsAreSafe == Spec => ReconnectsAreKept
<1>1. OneTarget /\ LiveAreSpared /\ TypeInv /\ BaseInv /\ [Next]_vars
        => OneTarget' /\ LiveAreSpared' /\ BaseInv'
  BY SparedNext, OneTargetNext, BaseInvNext DEF TypeInv
<1>2. OneTarget /\ LiveAreSpared /\ TypeInv /\ BaseInv /\ [Next]_vars =>
        [\A p, q \in Procs :
           p # q /\ pc'[p] # pc[p] /\ session'[q] # session[q] =>
             /\ cmd[p] = "prune"
             /\ session[q] \in listed[p] \ {Base, url[p]}
             /\ ~IsLiveDb(p, session[q])]_vars
  BY OnlyTerminates DEF TypeInv
<1> QED
  BY SparedInit, OneTargetInit, BaseInit, <1>1, <1>2, TypeInvariance, PTL
     DEF Spec, ReconnectsAreKept
============================================================================
