------------------------- MODULE WorktreesProperties -------------------------
(* What the worktree databases and streams promise.                        *)
EXTENDS Worktrees

Dropped(d) == d \in DOMAIN dbs /\ d \notin DOMAIN dbs'
Deleted(s) == s \in streams /\ s \notin streams'

(* No command ever drops the base database or the base stream, although    *)
(* every call derives the names anew and git may fail to answer between    *)
(* two of them (drop_worktree_db, drop_worktree_stream, --prune).          *)
BaseIsNeverDropped == [][~Dropped(Base) /\ ~Deleted(Base)]_vars

(* A database that p may not take for an orphan: that of a worktree that    *)
(* has been there since p started, provided that git has listed it and     *)
(* that the database name takes the whole slug: derive_db_name cuts longer *)
(* ones, and orphaned_worktree_dbs compares what is left with the slugs.   *)
IsLiveDb(p, d) ==
  \E n \in steady[p] :
    p \notin blind /\ Len(n) <= Room /\ d = DbName(SanitizeSlug(n))

(* A prune does not touch the stream of a worktree that has been there     *)
(* since before the prune started, nor its database (prune_worktree_dbs:   *)
(* "Never touches the base DB or a live worktree's DB"), unless the git    *)
(* worktree list it goes by has failed (db.rs:386) or the name of the      *)
(* database was cut (db.rs:374).                                           *)
NeverPrunesLive ==
  [][\A p \in Procs :
       (cmd[p] = "prune" /\ listed'[p] # listed[p]) =>
         /\ \A d \in DOMAIN dbs : IsLiveDb(p, d) => ~Dropped(d)
         /\ \A n \in steady[p] :
              p \notin blind => ~Deleted(StreamName(SanitizeSlug(n)))]_vars

(* Only a prune ends the session of another process, and only on a derived *)
(* database that it is about to drop and that belongs to no worktree it    *)
(* has seen alive.  A server that connects again after pg_terminate_backend *)
(* and before the DROP is left alone: the prune fails (db.rs:449-463).     *)
ReconnectsAreKept ==
  [][\A p, q \in Procs :
       p # q /\ pc'[p] # pc[p] /\ session'[q] # session[q] =>
         /\ cmd[p] = "prune"
         /\ session[q] \in listed[p] \ {Base, url[p]}
         /\ ~IsLiveDb(p, session[q])]_vars

(* Every command but the server comes to an end: neither the lock, nor a   *)
(* session that was cut, nor a database that vanished makes it hang.       *)
CommandEnds ==
  \A p \in Procs : (pc[p] \in Running /\ cmd[p] # "serve") ~> pc[p] \in Ended
=============================================================================
