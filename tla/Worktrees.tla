------------------------------ MODULE Worktrees ------------------------------
(***************************************************************************)
(* The per-worktree PostgreSQL databases and JetStream streams: the slug   *)
(* of a checkout and the names derived from it (db.rs, nats.rs), the       *)
(* migrate binary with its --drop and --prune commands (bin/migrate.rs),   *)
(* and the API's start-up (main.rs), all of which run side by side in any  *)
(* checkout while git worktrees come and go.                               *)
(*                                                                         *)
(* A process is one invocation of a binary; one action runs from one call  *)
(* to PostgreSQL, NATS or git to the next.                                 *)
(***************************************************************************)
EXTENDS Naturals, Sequences

CONSTANTS
  Procs,        \* invocations, each used at most once
  Names,        \* directory names under .claude/worktrees: character sequences
  Clean,        \* lower-cases a character, or replaces it by an underscore
  SlugVar,      \* SlugVar[p]: EPISTL_WORKTREE_SLUG in p's environment, or <<>>
  Commands,     \* the commands that processes may run
  Checkouts,    \* where they may run: names of worktrees, and Primary
  Primary,      \* the primary checkout
  Room,         \* the bytes that a 63-byte identifier leaves for the slug
  Latest,       \* the number of migrations
  GitFaults,    \* the git commands that may fail
  ServerFaults, \* whether PostgreSQL, NATS and the rest of the
                \* configuration may be out of reach
  None

ASSUME WorktreesAssumption ==
  /\ Names \subseteq Seq(DOMAIN Clean) \ {<<>>}
  /\ \A c \in DOMAIN Clean : Clean[c] \in DOMAIN Clean
  /\ SlugVar \in [Procs -> Seq(DOMAIN Clean)]
  /\ Checkouts \subseteq Names \cup {Primary}
  /\ Primary \notin Names
  /\ Room \in Nat
  /\ Latest \in Nat
  /\ GitFaults \subseteq {"rev-parse", "worktree list"}
  /\ ServerFaults \in BOOLEAN
  /\ None \notin Seq(DOMAIN Clean \cup {"_wt_"}) \cup Names

VARIABLES
  trees,     \* the git worktrees under .claude/worktrees
  dbs,       \* the databases of the server, each with its migration version
  streams,   \* the JetStream streams
  pc,        \* where each process is
  cmd,       \* the command it runs
  dir,       \* the checkout it runs in
  url,       \* the database its effective URL names, or that prune drops
  session,   \* the database it has a connection to
  listed,    \* prune: the databases, then the streams, it found
  \* history
  steady,    \* the worktrees that have been there since it started
  blind      \* the prunes whose list a failing git worktree list gave

procVars == <<pc, cmd, dir, url, session, listed>>
pastVars == <<steady, blind>>
vars == <<trees, dbs, streams, procVars, pastVars>>
----------------------------------------------------------------------------
(* Names.  A name is what follows the base name: <<>> is the base itself.  *)

Base == <<>>

SanitizeSlug(s) == [i \in DOMAIN s |-> Clean[s[i]]]

Prefixed(s) == <<"_wt_">> \o s

Truncate(s) == IF Len(s) <= Room THEN s ELSE SubSeq(s, 1, Room)

DbName(slug)     == IF slug = None THEN Base ELSE Prefixed(Truncate(slug))
StreamName(slug) == IF slug = None THEN Base ELSE Prefixed(slug)

IsDerived(name) == name # Base /\ Head(name) = "_wt_"

(* worktree_slug asks the environment and then git, at every call.  git    *)
(* has no answer in a checkout that has been removed.                      *)
SlugsIn(p, d) ==
  IF SlugVar[p] # <<>> THEN {SanitizeSlug(SlugVar[p])}
  ELSE IF d \in trees
       THEN {SanitizeSlug(d)} \cup {None : f \in GitFaults \cap {"rev-parse"}}
       ELSE {None}

WorktreeSlugs(p) == SlugsIn(p, dir[p])

(* Mutant: the names are compared as git prints them.                      *)
LiveWorktreeNames == trees

LiveWorktreeSlugs == {SanitizeSlug(n) : n \in trees}

Orphans(names, active) == {d \in names : IsDerived(d) /\ Tail(d) \notin active}
----------------------------------------------------------------------------
Ended   == {"ok", "failed"}
Running == {"creating", "connecting", "locking", "migrating", "streaming",
            "dropping", "dropping_stream", "listing", "comparing",
            "terminating", "pruning", "comparing_streams", "pruning_streams",
            "ensuring", "building", "serving", "done"}

AllNames == {d \in Seq(DOMAIN Clean \cup {"_wt_"}) : d = Base \/ IsDerived(d)}

TypeOK ==
  /\ trees \subseteq Names
  /\ DOMAIN dbs \subseteq AllNames
  /\ dbs \in [DOMAIN dbs -> 0..Latest]
  /\ streams \subseteq AllNames
  /\ pc \in [Procs -> {"idle"} \cup Running \cup Ended]
  /\ cmd \in [Procs -> Commands \cup {None}]
  /\ dir \in [Procs -> Checkouts \cup {None}]
  /\ url \in [Procs -> AllNames \cup {None}]
  /\ session \in [Procs -> AllNames \cup {None}]
  /\ listed \in [Procs -> SUBSET AllNames]
  /\ steady \in [Procs -> SUBSET Names]
  /\ blind \subseteq Procs

(* Earlier commands may have left databases and streams of any worktree.   *)
Init ==
  /\ trees = Checkouts \ {Primary}
  /\ \E left \in SUBSET Names :
       /\ dbs = [d \in {Base} \cup {DbName(SanitizeSlug(n)) : n \in left} |-> Latest]
       /\ streams = {Base} \cup {StreamName(SanitizeSlug(n)) : n \in left}
  /\ pc = [p \in Procs |-> "idle"]
  /\ cmd = [p \in Procs |-> None]
  /\ dir = [p \in Procs |-> None]
  /\ url = [p \in Procs |-> None]
  /\ session = [p \in Procs |-> None]
  /\ listed = [p \in Procs |-> {}]
  /\ steady = [p \in Procs |-> {}]
  /\ blind = {}
----------------------------------------------------------------------------
(* Helpers.                                                                *)

Step(p, from, to) == pc[p] = from /\ pc' = [pc EXCEPT ![p] = to]

(* Exit with or without an error: the connections of the process close and *)
(* its memory is gone.                                                     *)
Exit(p, from, result) ==
  /\ Step(p, from, result)
  /\ cmd' = [cmd EXCEPT ![p] = None]
  /\ dir' = [dir EXCEPT ![p] = None]
  /\ url' = [url EXCEPT ![p] = None]
  /\ session' = [session EXCEPT ![p] = None]
  /\ listed' = [listed EXCEPT ![p] = {}]
  /\ steady' = [steady EXCEPT ![p] = {}]
  /\ blind' = blind \ {p}
  /\ UNCHANGED <<trees, dbs, streams>>

Connected(d) == \E p \in Procs : session[p] = d

Put(d, version) ==
  dbs' = [x \in DOMAIN dbs \cup {d} |-> IF x = d THEN version ELSE dbs[x]]

Remove(d) == dbs' = [x \in DOMAIN dbs \ {d} |-> dbs[x]]

FirstStep(c, slug) ==
  IF c = "migrate" THEN "creating"
  ELSE IF c = "drop" THEN IF slug = None THEN "failed" ELSE "dropping"
  ELSE IF c = "serve" THEN "connecting"
  ELSE "listing"

(* A binary starts: it reads its flags and, to migrate or to serve, derives *)
(* the effective URL; --drop refuses to run without a slug.                *)
Start(p, c, d) ==
  /\ pc[p] = "idle"
  /\ d \in trees \cup {Primary}
  /\ cmd' = [cmd EXCEPT ![p] = c]
  /\ dir' = [dir EXCEPT ![p] = d]
  /\ \E slug \in SlugsIn(p, d) :
       /\ url' = [url EXCEPT ![p] = IF c \in {"migrate", "serve"}
                                    THEN DbName(slug) ELSE None]
       /\ pc' = [pc EXCEPT ![p] = FirstStep(c, slug)]
  /\ steady' = [steady EXCEPT ![p] = trees]
  /\ UNCHANGED <<trees, dbs, streams, session, listed, blind>>
----------------------------------------------------------------------------
(* migrate                                                                 *)

(* create_db_if_missing: a database that exists already is a success.      *)
CreateDb(p) ==
  /\ Step(p, "creating", "connecting")
  /\ IF url[p] \in DOMAIN dbs THEN UNCHANGED dbs ELSE Put(url[p], 0)
  /\ UNCHANGED <<trees, streams, cmd, dir, url, session, listed, pastVars>>

(* Both binaries connect to the effective URL; the database is there, or   *)
(* the process exits.                                                      *)
Connect(p) ==
  /\ url[p] \in DOMAIN dbs
  /\ Step(p, "connecting", IF cmd[p] = "serve" THEN "ensuring" ELSE "locking")
  /\ session' = [session EXCEPT ![p] = url[p]]
  /\ UNCHANGED <<trees, dbs, streams, cmd, dir, url, listed, pastVars>>

NoSuchDb(p) ==
  /\ url[p] \notin DOMAIN dbs
  /\ \E from \in {"connecting", "building"} : Exit(p, from, "failed")

(* The migrator takes an advisory lock of its database.                    *)
Lock(p) ==
  /\ Step(p, "locking", "migrating")
  /\ session[p] # None
  /\ ~\E q \in Procs : pc[q] = "migrating" /\ session[q] = session[p]
  /\ UNCHANGED <<trees, dbs, streams, cmd, dir, url, session, listed, pastVars>>

(* Mutant: the migration is applied without looking at the version.        *)
ApplyMigrationAgain(p) ==
  /\ pc[p] = "migrating" /\ session[p] # None
  /\ Put(url[p], dbs[url[p]] + 1)
  /\ UNCHANGED <<trees, streams, procVars, pastVars>>

ApplyMigration(p) ==
  /\ pc[p] = "migrating" /\ session[p] # None
  /\ dbs[url[p]] < Latest
  /\ Put(url[p], dbs[url[p]] + 1)
  /\ UNCHANGED <<trees, streams, procVars, pastVars>>

Migrated(p) ==
  /\ session[p] # None
  /\ Step(p, "migrating", "streaming")
  /\ dbs[url[p]] = Latest
  /\ UNCHANGED <<trees, dbs, streams, cmd, dir, url, session, listed, pastVars>>

(* Mutant: the migrator waits for a connection that is gone.               *)
SessionLostUnnoticed(p) == FALSE /\ UNCHANGED vars

SessionLost(p) ==
  /\ session[p] = None
  /\ \E from \in {"locking", "migrating"} : Exit(p, from, "failed")

(* ensure_offline_stream: the name is derived anew; an existing stream is  *)
(* left as it is.                                                          *)
EnsureOfflineStream(p, from, to) ==
  /\ Step(p, from, to)
  /\ \E slug \in WorktreeSlugs(p) : streams' = streams \cup {StreamName(slug)}
  /\ UNCHANGED <<trees, dbs, cmd, dir, url, session, listed, pastVars>>

(* migrate and drop go on without a NATS server that cannot be reached.    *)
NatsSkipped(p) ==
  /\ ServerFaults
  /\ \E from \in {"streaming", "dropping_stream", "comparing_streams"} :
       Exit(p, from, "ok")

Migrate(p) == \/ CreateDb(p) \/ Lock(p) \/ ApplyMigration(p) \/ Migrated(p)
              \/ SessionLost(p) \/ EnsureOfflineStream(p, "streaming", "done")
----------------------------------------------------------------------------
(* migrate --drop                                                          *)

(* DROP DATABASE IF EXISTS fails while another session is connected to it, *)
(* and succeeds when there is no such database.                            *)
DropDb(d) == ~Connected(d) /\ Remove(d)

DropWorktreeDb(p) ==
  /\ Step(p, "dropping", "dropping_stream")
  /\ \E slug \in WorktreeSlugs(p) \ {None} : DropDb(DbName(slug))
  /\ UNCHANGED <<trees, streams, cmd, dir, url, session, listed, pastVars>>

DropRefused(p) ==
  /\ \E slug \in WorktreeSlugs(p) : slug = None \/ Connected(DbName(slug))
  /\ Exit(p, "dropping", "failed")

(* Mutant: the base stream is not refused.                                 *)
DropAnyStream(p) ==
  /\ Step(p, "dropping_stream", "done")
  /\ \E slug \in WorktreeSlugs(p) : streams' = streams \ {StreamName(slug)}
  /\ UNCHANGED <<trees, dbs, cmd, dir, url, session, listed, pastVars>>

DropWorktreeStream(p) ==
  /\ Step(p, "dropping_stream", "done")
  /\ \E slug \in WorktreeSlugs(p) : streams' = streams \ ({StreamName(slug)} \ {Base})
  /\ UNCHANGED <<trees, dbs, cmd, dir, url, session, listed, pastVars>>

Drop(p) == DropWorktreeDb(p) \/ DropRefused(p) \/ DropWorktreeStream(p)
----------------------------------------------------------------------------
(* migrate --prune                                                         *)

ListDbs(p) ==
  /\ Step(p, "listing", "comparing")
  /\ listed' = [listed EXCEPT ![p] = DOMAIN dbs]
  /\ UNCHANGED <<trees, dbs, streams, cmd, dir, url, session, pastVars>>

(* live_worktree_slugs: a failing git yields no worktree at all, and so    *)
(* every derived name is an orphan.                                        *)
KeepOrphans(p, names) ==
  \/ /\ listed' = [listed EXCEPT ![p] = Orphans(names, LiveWorktreeSlugs)]
     /\ blind' = blind \ {p}
  \/ /\ "worktree list" \in GitFaults
     /\ listed' = [listed EXCEPT ![p] = Orphans(names, {})]
     /\ blind' = blind \cup {p}

CompareDbs(p) ==
  /\ Step(p, "comparing",
          IF cmd[p] = "prune" THEN "terminating" ELSE "comparing_streams")
  /\ KeepOrphans(p, listed[p])
  /\ UNCHANGED <<trees, dbs, streams, cmd, dir, url, session, steady>>

(* pg_terminate_backend closes every session of the database; a failure of *)
(* the query is ignored.                                                   *)
TerminateSessions(p, d) ==
  /\ Step(p, "terminating", "pruning")
  /\ d \in listed[p]
  /\ url' = [url EXCEPT ![p] = d]
  /\ \/ session' = [q \in Procs |-> IF session[q] = d THEN None ELSE session[q]]
     \/ ServerFaults /\ UNCHANGED session
  /\ UNCHANGED <<trees, dbs, streams, cmd, dir, listed, pastVars>>

(* Mutant: DROP DATABASE ... WITH (FORCE), which ends the sessions that     *)
(* came back.                                                              *)
PruneDbForced(p) ==
  /\ Step(p, "pruning", "terminating")
  /\ Remove(url[p])
  /\ session' = [q \in Procs |-> IF session[q] = url[p] THEN None ELSE session[q]]
  /\ listed' = [listed EXCEPT ![p] = @ \ {url[p]}]
  /\ UNCHANGED <<trees, streams, cmd, dir, url, pastVars>>

PruneDb(p) ==
  /\ Step(p, "pruning", "terminating")
  /\ DropDb(url[p])
  /\ listed' = [listed EXCEPT ![p] = @ \ {url[p]}]
  /\ UNCHANGED <<trees, streams, cmd, dir, url, session, pastVars>>

PruneRefused(p) == Connected(url[p]) /\ Exit(p, "pruning", "failed")

DbsPruned(p) ==
  /\ Step(p, "terminating", "comparing_streams")
  /\ listed[p] = {}
  /\ blind' = blind \ {p}
  /\ UNCHANGED <<trees, dbs, streams, cmd, dir, url, session, listed, steady>>

(* The worktrees are listed a second time, for the streams.                *)
CompareStreams(p) ==
  /\ Step(p, "comparing_streams", IF cmd[p] = "prune" THEN "pruning_streams" ELSE "done")
  /\ KeepOrphans(p, streams)
  /\ UNCHANGED <<trees, dbs, streams, cmd, dir, url, session, steady>>

PruneStream(p, s) ==
  /\ pc[p] = "pruning_streams" /\ s \in listed[p]
  /\ streams' = streams \ {s}
  /\ listed' = [listed EXCEPT ![p] = @ \ {s}]
  /\ UNCHANGED <<trees, dbs, pc, cmd, dir, url, session, pastVars>>

StreamsPruned(p) == listed[p] = {} /\ Exit(p, "pruning_streams", "ok")

Prune(p) ==
  \/ ListDbs(p) \/ CompareDbs(p) \/ PruneDb(p) \/ PruneRefused(p) \/ DbsPruned(p)
  \/ CompareStreams(p) \/ StreamsPruned(p)
  \/ \E d \in listed[p] : TerminateSessions(p, d) \/ PruneStream(p, d)
----------------------------------------------------------------------------
(* The API server                                                          *)

(* build_auth connects to the database a second time.                      *)
BuildAuth(p) ==
  /\ Step(p, "building", "serving")
  /\ url[p] \in DOMAIN dbs
  /\ UNCHANGED <<trees, dbs, streams, cmd, dir, url, session, listed, pastVars>>

(* The pool opens its connections when it needs one, and closes idle ones. *)
PoolChanges(p) ==
  /\ pc[p] \in {"ensuring", "building", "serving", "done"} /\ cmd[p] = "serve"
  /\ session' = [session EXCEPT ![p] = IF @ = None THEN url[p] ELSE None]
  /\ session'[p] \in DOMAIN dbs \cup {None}
  /\ UNCHANGED <<trees, dbs, streams, pc, cmd, dir, url, listed, pastVars>>

Serve(p) == EnsureOfflineStream(p, "ensuring", "building") \/ BuildAuth(p)

Done(p) == Exit(p, "done", "ok")

(* Whatever a binary cannot reach before it has something to do ends it.   *)
Unreachable(p) ==
  /\ ServerFaults
  /\ \E from \in {"creating", "connecting", "dropping", "listing",
                   "ensuring", "building"} : Exit(p, from, "failed")
----------------------------------------------------------------------------
(* The environment: a process is stopped at any point; worktrees come and  *)
(* go.                                                                     *)

Kill(p) == \E from \in Running : Exit(p, from, "failed")

AddTree(n) ==
  /\ n \notin trees
  /\ trees' = trees \cup {n}
  /\ UNCHANGED <<dbs, streams, procVars, pastVars>>

RemoveTree(n) ==
  /\ n \in trees
  /\ trees' = trees \ {n}
  /\ steady' = [p \in Procs |-> steady[p] \ {n}]
  /\ UNCHANGED <<dbs, streams, procVars, blind>>
----------------------------------------------------------------------------
Work(p) == \/ Connect(p) \/ NoSuchDb(p) \/ NatsSkipped(p) \/ Unreachable(p)
           \/ Migrate(p) \/ Drop(p) \/ Prune(p) \/ Serve(p) \/ Done(p)

Next ==
  \/ \E p \in Procs : \/ \E c \in Commands, d \in Checkouts : Start(p, c, d)
                      \/ Work(p) \/ PoolChanges(p) \/ Kill(p)
  \/ \E n \in Names : AddTree(n) \/ RemoveTree(n)

Spec == Init /\ [][Next]_vars

(* A running binary takes its next step.                                   *)
FairSpec == Spec /\ \A p \in Procs : WF_vars(Work(p))
=============================================================================
