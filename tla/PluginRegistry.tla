---------------------------- MODULE PluginRegistry ----------------------------
(***************************************************************************)
(* packages/plugins/registry.py: installing, rolling back and removing     *)
(* plugins in a directory tree with a record file and an event log.        *)
(*                                                                         *)
(* One operator works at a time (the registry has no lock).  A step is one *)
(* rename, copy or file replacement; between any two of them the process   *)
(* may end, and a copy may fail half-way.                                  *)
(***************************************************************************)
EXTENDS Naturals, Sequences, SequencesExt

CONSTANTS
    Packages,       \* reviewed sources: name, version and directory mtime
    Finds,          \* name -> the names whose backups the glob "<name>-*" finds
    Now,            \* the mtime of an unfinished copy
    MaxBackups,     \* directories under .rollback (a bound)
    MaxFaults,      \* failing copies and crashes (a bound)
    None

Names == DOMAIN Finds

\* A plugin name may be the beginning of another one ("erp" and "erp-mock"),
\* which may be the beginning of a third.
ASSUME RegistryAssumption ==
    /\ \A p \in Packages : DOMAIN p = {"name", "version", "mtime"} /\ p.name \in Names
    /\ \A p \in Packages : p.mtime \in Nat /\ p.mtime < Now
    /\ \A n \in Names : n \in Finds[n] /\ Finds[n] \subseteq Names
    /\ \A n \in Names : \A m \in Finds[n] : Finds[m] \subseteq Finds[n]
    /\ Now \in Nat /\ MaxBackups \in Nat /\ MaxFaults \in Nat

\* A directory with a copy of a package, or with a part of it.
Tree == [pkg : Packages, whole : BOOLEAN]

Kinds == {"replaced", "current", "removed"}

Record == [tree : Tree, review : {"approved", "rollback"}]

ASSUME NoneAssumption == None \notin Names \cup Tree \cup Record

VARIABLES
    dirs,       \* the directory of each name, or None
    backups,    \* .rollback: [name, kind, tree], oldest first
    records,    \* registry.json: [tree, review] or None, per name
    events,     \* events.jsonl, as a set of <<action, name, package>>
    faults,
    pc,
    cur,        \* the operation at work: [op, name, tree, moved]
    \* observers
    placed,     \* packages that were active once
    torn        \* names whose latest operation was interrupted

fileVars == <<dirs, backups, records, events>>
opVars == <<pc, cur>>
observers == <<placed, torn>>
vars == <<fileVars, faults, opVars, observers>>

NoOp == [op |-> "none", name |-> None, tree |-> None, moved |-> FALSE]

TypeOK ==
    /\ dirs \in [Names -> Tree \cup {None}]
    /\ backups \in Seq([name : Names, kind : Kinds, tree : Tree])
    /\ Len(backups) <= MaxBackups
    /\ records \in [Names -> Record \cup {None}]
    /\ events \subseteq {"install", "rollback", "remove"} \X Names
                          \X (Packages \cup {None})
    /\ faults \in 0..MaxFaults
    /\ pc \in {"idle", "stage", "copy", "record", "unrecord", "event"}
    /\ placed \subseteq Packages
    /\ torn \subseteq Names

Init ==
    /\ dirs = [n \in Names |-> None]
    /\ backups = <<>>
    /\ records = [n \in Names |-> None]
    /\ events = {}
    /\ faults = 0
    /\ pc = "idle"
    /\ cur = NoOp
    /\ placed = {}
    /\ torn = {}

Mtime(tree) == IF tree.whole THEN tree.pkg.mtime ELSE Now

\* Faulty variants of MoveAway: every backup is named as rollback names its
\* own; the old version is deleted.
MoveAwayAsCurrent(n, kind) ==
    /\ IF dirs[n] = None THEN UNCHANGED backups
       ELSE backups' = Append(backups, [name |-> n, kind |-> "current", tree |-> dirs[n]])
    /\ dirs' = [dirs EXCEPT ![n] = None]

MoveAwayDeleted(n, kind) ==
    /\ dirs' = [dirs EXCEPT ![n] = None]
    /\ UNCHANGED backups

\* shutil.move of a directory to .rollback, which keeps its mtime.
MoveAway(n, kind) ==
    /\ IF dirs[n] = None THEN UNCHANGED backups
       ELSE backups' = Append(backups, [name |-> n, kind |-> kind, tree |-> dirs[n]])
    /\ dirs' = [dirs EXCEPT ![n] = None]

Begin(op, n, tree, place) ==
    /\ pc = "idle"
    /\ Len(backups) < MaxBackups
    /\ cur' = [op |-> op, name |-> n, tree |-> tree, moved |-> dirs[n] # None]
    /\ pc' = place
    /\ UNCHANGED <<records, events, faults, observers>>

-----------------------------------------------------------------------------
(* install *)

Install(p) ==
    /\ Begin("install", p.name, [pkg |-> p, whole |-> TRUE], "stage")
    /\ MoveAway(p.name, "replaced")

\* copytree to a staging directory, and the rename that puts it in place.
Place ==
    /\ pc = "stage"
    /\ dirs' = [dirs EXCEPT ![cur.name] = cur.tree]
    /\ placed' = placed \cup {cur.tree.pkg}
    /\ pc' = "record"
    /\ UNCHANGED <<backups, records, events, faults, cur, torn>>

\* Faulty variant of StageFails: the old version is not brought back.
StageFailsUnrestored ==
    /\ pc = "stage"
    /\ faults < MaxFaults
    /\ faults' = faults + 1
    /\ pc' = "idle"
    /\ cur' = NoOp
    /\ UNCHANGED <<fileVars, observers>>

\* The except branch: the old version comes back and the error is raised.
StageFails ==
    /\ pc = "stage"
    /\ faults < MaxFaults
    /\ faults' = faults + 1
    /\ IF cur.moved
       THEN /\ dirs' = [dirs EXCEPT ![cur.name] = Last(backups).tree]
            /\ backups' = Front(backups)
       ELSE UNCHANGED <<dirs, backups>>
    /\ pc' = "idle"
    /\ cur' = NoOp
    /\ UNCHANGED <<records, events, observers>>

-----------------------------------------------------------------------------
(* rollback *)

\* Faulty variant of Candidates: also the versions that rollbacks put aside.
CandidatesWithCurrent(n) == {b \in Range(backups) : b.name \in Finds[n]}

\* glob("<name>-*") without the versions that a rollback put aside.
Candidates(n) ==
    {b \in Range(backups) : b.name \in Finds[n] /\ b.kind # "current"}

\* sorted by mtime, newest first; copytree has given each the mtime of the
\* directory it was copied from.
Newest(n) ==
    {b \in Candidates(n) : \A c \in Candidates(n) : Mtime(c.tree) <= Mtime(b.tree)}

Rollback(n) ==
    /\ \E b \in Newest(n) : Begin("rollback", n, b.tree, "copy")
    /\ MoveAway(n, "current")

\* copytree, this time straight to the destination.
CopyBack ==
    /\ pc = "copy"
    /\ dirs' = [dirs EXCEPT ![cur.name] = cur.tree]
    /\ pc' = "record"
    /\ UNCHANGED <<backups, records, events, faults, cur, observers>>

-----------------------------------------------------------------------------
(* remove, and the end of every operation *)

RemovePlugin(n) ==
    /\ dirs[n] # None
    /\ Begin("remove", n, dirs[n], "unrecord")
    /\ MoveAway(n, "removed")

RecordOf(op, tree) ==
    [tree |-> tree, review |-> IF op = "install" THEN "approved" ELSE "rollback"]

\* _write_records: a temporary file and a rename.
WriteRecord ==
    /\ pc = "record"
    /\ records' = [records EXCEPT ![cur.name] = RecordOf(cur.op, cur.tree)]
    /\ pc' = "event"
    /\ UNCHANGED <<dirs, backups, events, faults, cur, observers>>

DropRecord ==
    /\ pc = "unrecord"
    /\ records' = [records EXCEPT ![cur.name] = None]
    /\ pc' = "event"
    /\ UNCHANGED <<dirs, backups, events, faults, cur, observers>>

AppendEvent ==
    /\ pc = "event"
    /\ events' = events \cup
          {<<cur.op, cur.name, IF cur.op = "remove" THEN None ELSE cur.tree.pkg>>}
    /\ torn' = torn \ {cur.name}
    /\ pc' = "idle"
    /\ cur' = NoOp
    /\ UNCHANGED <<dirs, backups, records, faults, placed>>

\* The process ends, or a call raises that nothing catches.  A copy straight
\* to the destination may have got half-way.
Interrupt ==
    /\ pc # "idle"
    /\ faults < MaxFaults
    /\ faults' = faults + 1
    /\ \/ UNCHANGED dirs
       \/ /\ pc = "copy"
          /\ dirs' = [dirs EXCEPT ![cur.name] = [cur.tree EXCEPT !.whole = FALSE]]
    /\ torn' = torn \cup {cur.name}
    /\ pc' = "idle"
    /\ cur' = NoOp
    /\ UNCHANGED <<backups, records, events, placed>>

\* A partial copy without a readable manifest: rollback raises after copying.
ManifestMissing ==
    /\ pc = "record"
    /\ ~cur.tree.whole
    /\ torn' = torn \cup {cur.name}
    /\ pc' = "idle"
    /\ cur' = NoOp
    /\ UNCHANGED <<fileVars, faults, placed>>

Next ==
    \/ \E p \in Packages : Install(p)
    \/ Place \/ StageFails
    \/ \E n \in Names : Rollback(n) \/ RemovePlugin(n)
    \/ CopyBack \/ ManifestMissing
    \/ WriteRecord \/ DropRecord \/ AppendEvent
    \/ Interrupt

Spec == Init /\ [][Next]_vars

-----------------------------------------------------------------------------
(* Properties *)

\* Names whose latest operation came to its end.
Settled == {n \in Names : n \notin torn /\ cur.name # n}

\* registry.json names what is in the directories, and the event log has it
\* as what it is, except for a name whose latest operation was interrupted: a
\* failed installation leaves the old version in place, and the next complete
\* operation repairs the rest.  The states are well typed.
RecordAgrees ==
    /\ TypeOK
    /\ \A n \in Settled :
          /\ records[n] = None <=> dirs[n] = None
          /\ records[n] # None =>
                /\ records[n].tree = dirs[n]
                /\ <<IF records[n].review = "approved" THEN "install" ELSE "rollback",
                     n, records[n].tree.pkg>> \in events

\* A version that was active once is still there, whole, as the active one or
\* as a backup, whatever was interrupted since.
NothingLost ==
    \A p \in placed :
        \/ \E n \in Names : dirs[n] = [pkg |-> p, whole |-> TRUE]
        \/ \E b \in Range(backups) : b.tree = [pkg |-> p, whole |-> TRUE]

\* When the record names a directory that is missing, there is a whole backup
\* among the candidates of rollback.
Repairable ==
    \A n \in Names : (records[n] # None /\ dirs[n] = None) =>
        \E b \in Candidates(n) : b.tree.whole

\* Where the versions of a plugin are that installations replaced and removals
\* took away, the latest at the end.
Previous(n) ==
    {i \in DOMAIN backups : backups[i].name = n /\ backups[i].kind # "current"}

\* What rollback finds are whole versions of this plugin, with dates in the order
\* in which they were put aside.
InOrder(n) ==
    /\ \A b \in Candidates(n) : b.name = n /\ b.tree.whole
    /\ \A i, j \in Previous(n) : i < j =>
          \/ Mtime(backups[i].tree) < Mtime(backups[j].tree)
          \/ backups[i].tree = backups[j].tree

\* EXT-004, "previous known-good version can be restored": rollback goes back to
\* the version that the latest installation or removal put aside, however many
\* rollbacks came before, and not to one that a rollback put aside.  The code
\* goes by the mtimes of all that its glob finds: it is excused where their
\* order is another one (InOrder), or a part of a copy or another plugin, whose
\* name begins with this name, is among them.
RollbackRestoresPrevious ==
    (cur.op = "rollback" /\ InOrder(cur.name)) =>
        \A i \in Previous(cur.name) :
            (\A j \in Previous(cur.name) : j <= i) => cur.tree = backups[i].tree
=============================================================================
