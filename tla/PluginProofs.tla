---------------------------- MODULE PluginProofs ----------------------------
(***************************************************************************)
(* Theorems about PluginRegistry: records, directories, backups and events *)
(* fit together, for any plugins, however many operations are interrupted. *)
(***************************************************************************)
EXTENDS PluginRegistry, TLAPS

-----------------------------------------------------------------------------
(* The inductive invariant *)

\* What an installation that fails at its staging directory goes back to.
Staging == pc = "stage" /\ cur.moved

OldDirs == IF Staging THEN [dirs EXCEPT ![cur.name] = Last(backups).tree] ELSE dirs

OldBackups == IF Staging THEN Front(backups) ELSE backups

\* The candidates of a rollback of n, if these are the backups.
CandidatesIn(n, bs) == {b \in Range(bs) : b.name \in Finds[n] /\ b.kind # "current"}

\* The tree is the newest of these candidates.
NewestIn(tree, n, bs) ==
    /\ \E b \in CandidatesIn(n, bs) : b.tree = tree
    /\ \A b \in CandidatesIn(n, bs) : Mtime(b.tree) <= Mtime(tree)

\* Where a directory is missing or a part of a copy, and wherever a rollback
\* finds something, there is a whole backup to roll back to.
WholeBehind(d, bs) ==
    \A n \in Names :
        (\/ CandidatesIn(n, bs) # {}
         \/ d[n] # None /\ ~d[n].whole
         \/ d[n] = None /\ records[n] # None) => \E b \in CandidatesIn(n, bs) : b.tree.whole

Kept(d, bs) ==
    \A p \in placed :
        \/ \E n \in Names : d[n] = [pkg |-> p, whole |-> TRUE]
        \/ \E b \in Range(bs) : b.tree = [pkg |-> p, whole |-> TRUE]

FilesOK(d, bs) == WholeBehind(d, bs) /\ Kept(d, bs)

\* The record and the event log agree with the directory of a name.
AgreesOn(n, d) ==
    /\ records[n] = None <=> d[n] = None
    /\ records[n] # None =>
          /\ records[n].tree = d[n]
          /\ <<IF records[n].review = "approved" THEN "install" ELSE "rollback",
               n, records[n].tree.pkg>> \in events

\* What the place of the operator says about the operation and the files.
OperationOK ==
    /\ cur \in [op : {"install", "rollback", "remove"}, name : Names, tree : Tree, moved : BOOLEAN]
    /\ pc = "stage" => cur.op = "install"
    /\ pc = "copy" => cur.op = "rollback"
    /\ pc = "record" => cur.op \in {"install", "rollback"}
    /\ pc = "unrecord" => cur.op = "remove"
    /\ cur.op = "install" => cur.tree.whole
    /\ cur.op = "rollback" => NewestIn(cur.tree, cur.name, backups)
    /\ pc \in {"stage", "copy", "unrecord"} => dirs[cur.name] = None
    /\ pc = "record" => dirs[cur.name] = cur.tree
    /\ pc = "event" => IF cur.op = "remove"
                       THEN dirs[cur.name] = None /\ records[cur.name] = None
                       ELSE /\ dirs[cur.name] = cur.tree
                            /\ records[cur.name] = RecordOf(cur.op, cur.tree)
    /\ Staging => backups # <<>> /\ Last(backups).name = cur.name

\* Names whose latest operation came to its end, or would if it failed now.
Quiet == {n \in Names : n \notin torn /\ (cur.name = n => pc = "stage")}

RegistryInv ==
    /\ TypeOK
    /\ IF pc = "idle" THEN cur = NoOp ELSE OperationOK
    /\ FilesOK(dirs, backups)
    /\ FilesOK(OldDirs, OldBackups)
    /\ \A n \in Quiet : AgreesOn(n, OldDirs)

-----------------------------------------------------------------------------
(* Backups as sequences *)

LEMMA AppendBackup ==
    ASSUME NEW S, NEW s \in Seq(S), NEW e \in S
    PROVE  /\ Append(s, e) \in Seq(S) /\ Append(s, e) # <<>>
           /\ Len(Append(s, e)) = Len(s) + 1
           /\ Range(Append(s, e)) = Range(s) \cup {e}
           /\ Front(Append(s, e)) = s
           /\ Last(Append(s, e)) = e
<1>1. /\ Append(s, e) \in Seq(S) /\ Append(s, e) # <<>>
      /\ Len(Append(s, e)) = Len(s) + 1
      /\ Last(Append(s, e)) = e
  BY DEF Last
<1>2. Range(Append(s, e)) = Range(s) \cup {e}
  <2>1. DOMAIN Append(s, e) = 1..Len(s) + 1 /\ DOMAIN s = 1..Len(s)
    OBVIOUS
  <2>2. \A i \in 1..Len(s) : Append(s, e)[i] = s[i]
    OBVIOUS
  <2>3. Append(s, e)[Len(s) + 1] = e
    OBVIOUS
  <2> QED  BY <2>1, <2>2, <2>3 DEF Range
<1>3. Front(Append(s, e)) = s
  BY DEF Front
<1> QED  BY <1>1, <1>2, <1>3

LEMMA FrontOfBackups ==
    ASSUME NEW S, NEW s \in Seq(S), s # <<>>
    PROVE  /\ Front(s) \in Seq(S) /\ Len(Front(s)) = Len(s) - 1
           /\ Last(s) \in S
           /\ Range(s) = Range(Front(s)) \cup {Last(s)}
<1>1. Len(s) \in Nat \ {0} /\ DOMAIN s = 1..Len(s) /\ Last(s) \in S
  BY DEF Last
<1>2. /\ Front(s) \in Seq(S) /\ Len(Front(s)) = Len(s) - 1
      /\ \A i \in 1..Len(s) - 1 : Front(s)[i] = s[i]
  BY <1>1 DEF Front
<1>3. DOMAIN Front(s) = 1..Len(s) - 1
  BY <1>1, <1>2
<1> QED  BY <1>1, <1>2, <1>3 DEF Range, Last

LEMMA RangeOfBackups ==
    ASSUME NEW S, NEW s \in Seq(S)
    PROVE  Range(s) \subseteq S
BY DEF Range

-----------------------------------------------------------------------------
(* Files *)

Backup == [name : Names, kind : Kinds, tree : Tree]

\* What a move to .rollback does.
LEMMA Moved ==
    ASSUME TypeOK, NEW n \in Names, NEW kind \in Kinds, MoveAway(n, kind),
           Len(backups) < MaxBackups
    PROVE  /\ dirs' \in [Names -> Tree \cup {None}] /\ dirs'[n] = None
           /\ backups' \in Seq(Backup) /\ Len(backups') <= MaxBackups
           /\ \A m \in Names \ {n} : dirs'[m] = dirs[m]
           /\ dirs[n] = None => dirs' = dirs /\ backups' = backups
           /\ dirs[n] # None =>
                /\ backups' # <<>> /\ Last(backups').name = n
                /\ Front(backups') = backups
                /\ [dirs' EXCEPT ![n] = Last(backups').tree] = dirs
                /\ Range(backups') = Range(backups)
                                       \cup {[name |-> n, kind |-> kind, tree |-> dirs[n]]}
<1>1. /\ dirs' \in [Names -> Tree \cup {None}] /\ dirs'[n] = None
      /\ \A m \in Names \ {n} : dirs'[m] = dirs[m]
      /\ dirs[n] = None => dirs' = dirs
  BY DEF TypeOK, MoveAway
<1>2. CASE dirs[n] = None
  BY <1>1, <1>2 DEF TypeOK, MoveAway, Backup
<1>3. CASE dirs[n] # None
  <2> DEFINE e == [name |-> n, kind |-> kind, tree |-> dirs[n]]
  <2>1. e \in Backup /\ e.name = n /\ e.tree = dirs[n] /\ backups \in Seq(Backup)
    BY <1>3 DEF TypeOK, Backup
  <2>2. backups' = Append(backups, e)
    BY <1>3 DEF MoveAway
  <2>3. /\ backups' \in Seq(Backup) /\ backups' # <<>> /\ Len(backups') = Len(backups) + 1
        /\ Range(backups') = Range(backups) \cup {e}
        /\ Front(backups') = backups /\ Last(backups') = e
    BY <2>1, <2>2, AppendBackup
  <2>4. [dirs' EXCEPT ![n] = dirs[n]] = dirs
    BY <1>1 DEF TypeOK, MoveAway
  <2>5. Len(backups) \in Nat /\ Len(backups') <= MaxBackups
    BY <2>1, <2>3, RegistryAssumption
  <2> QED  BY <1>1, <1>3, <2>1, <2>3, <2>4, <2>5
<1> QED  BY <1>2, <1>3

LEMMA BackupTypes ==
    ASSUME TypeOK
    PROVE  \A b \in Range(backups) : b \in Backup
BY RangeOfBackups DEF TypeOK, Backup

\* A move to .rollback loses nothing, and leaves something to go back to.
LEMMA MovedFiles ==
    ASSUME TypeOK, FilesOK(dirs, backups), NEW n \in Names, NEW kind \in Kinds,
           MoveAway(n, kind), Len(backups) < MaxBackups, UNCHANGED <<records, placed>>,
           kind = "current" => CandidatesIn(n, backups) # {}
    PROVE  FilesOK(dirs, backups)'
<1>1. /\ dirs'[n] = None
      /\ \A m \in Names \ {n} : dirs'[m] = dirs[m]
      /\ dirs[n] = None => dirs' = dirs /\ backups' = backups
  BY Moved
<1>2. CASE dirs[n] = None
  BY <1>1, <1>2 DEF FilesOK, WholeBehind, Kept, CandidatesIn
<1>3. CASE dirs[n] # None
  <2> DEFINE e == [name |-> n, kind |-> kind, tree |-> dirs[n]]
  <2>1. Range(backups') = Range(backups) \cup {e}
    BY <1>3, Moved
  <2>2. \A m \in Names : CandidatesIn(m, backups) \subseteq CandidatesIn(m, backups')
    BY <2>1 DEF CandidatesIn
  <2>3. ASSUME NEW m \in Names, n \in Finds[m], kind # "current"
        PROVE  \E b \in CandidatesIn(m, backups') : b.tree.whole
    <3>1. CASE dirs[n].whole
      <4>1. e \in CandidatesIn(m, backups') /\ e.tree.whole
        BY <2>1, <2>3, <3>1 DEF CandidatesIn
      <4> QED  BY <4>1
    <3>2. CASE ~dirs[n].whole
      <4>1. PICK b \in CandidatesIn(n, backups) : b.tree.whole
        BY <1>3, <3>2 DEF FilesOK, WholeBehind
      <4>2. b \in CandidatesIn(m, backups)
        BY <2>3, RegistryAssumption DEF CandidatesIn
      <4> QED  BY <2>2, <4>1, <4>2
    <3> QED  BY <3>1, <3>2
  <2>4. ASSUME NEW m \in Names, \E b \in CandidatesIn(m, backups) : b.tree.whole
        PROVE  \E b \in CandidatesIn(m, backups') : b.tree.whole
    BY <2>2, <2>4
  <2>5. WholeBehind(dirs, backups)'
    <3> SUFFICES ASSUME NEW m \in Names,
                        \/ CandidatesIn(m, backups') # {}
                        \/ dirs'[m] # None /\ ~dirs'[m].whole
                        \/ dirs'[m] = None /\ records[m] # None
                 PROVE  \E b \in CandidatesIn(m, backups') : b.tree.whole
      BY DEF WholeBehind, CandidatesIn
    <3>1. CASE CandidatesIn(m, backups) # {}
      BY <2>4, <3>1 DEF FilesOK, WholeBehind
    <3>2. CASE CandidatesIn(m, backups) = {} /\ CandidatesIn(m, backups') # {}
      <4>1. n \in Finds[m] /\ kind # "current"
        BY <2>1, <3>2 DEF CandidatesIn
      <4> QED  BY <2>3, <4>1
    <3>3. CASE m = n /\ CandidatesIn(m, backups) = {}
      BY <2>3, <3>3, RegistryAssumption
    <3>4. CASE m # n /\ CandidatesIn(m, backups') = {}
      <4>1. dirs'[m] = dirs[m]
        BY <1>1, <3>4
      <4> QED  BY <2>4, <3>4, <4>1 DEF FilesOK, WholeBehind
    <3> QED  BY <3>1, <3>2, <3>3, <3>4
  <2>6. Kept(dirs, backups)'
    <3> SUFFICES ASSUME NEW p \in placed
                 PROVE  \/ \E m \in Names : dirs'[m] = [pkg |-> p, whole |-> TRUE]
                        \/ \E b \in Range(backups') : b.tree = [pkg |-> p, whole |-> TRUE]
      BY DEF Kept
    <3>1. CASE \E b \in Range(backups) : b.tree = [pkg |-> p, whole |-> TRUE]
      BY <2>1, <3>1
    <3>2. ASSUME NEW m \in Names, dirs[m] = [pkg |-> p, whole |-> TRUE]
          PROVE  \/ dirs'[m] = [pkg |-> p, whole |-> TRUE]
                 \/ \E b \in Range(backups') : b.tree = [pkg |-> p, whole |-> TRUE]
      <4>1. CASE m # n
        BY <1>1, <3>2, <4>1
      <4>2. CASE m = n
        <5>1. e \in Range(backups') /\ e.tree = [pkg |-> p, whole |-> TRUE]
          BY <2>1, <3>2, <4>2
        <5> QED  BY <5>1
      <4> QED  BY <4>1, <4>2
    <3> QED  BY <3>1, <3>2 DEF FilesOK, Kept
  <2> QED  BY <2>5, <2>6 DEF FilesOK
<1> QED  BY <1>2, <1>3

\* A copy in an empty place loses nothing.
LEMMA PutFiles ==
    ASSUME TypeOK, FilesOK(dirs, backups), NEW n \in Names, NEW tree \in Tree,
           dirs[n] = None, dirs' = [dirs EXCEPT ![n] = tree], UNCHANGED <<backups, records>>,
           tree.whole \/ CandidatesIn(n, backups) # {},
           placed' = placed \/ (placed' = placed \cup {tree.pkg} /\ tree.whole)
    PROVE  FilesOK(dirs, backups)'
<1>1. /\ dirs'[n] = tree /\ tree # None
      /\ \A m \in Names \ {n} : dirs'[m] = dirs[m]
  BY NoneAssumption DEF TypeOK
<1>2. WholeBehind(dirs, backups)'
  <2> SUFFICES ASSUME NEW m \in Names,
                      \/ CandidatesIn(m, backups) # {}
                      \/ dirs'[m] # None /\ ~dirs'[m].whole
                      \/ dirs'[m] = None /\ records[m] # None
               PROVE  \E b \in CandidatesIn(m, backups) : b.tree.whole
    BY DEF WholeBehind, CandidatesIn
  <2> QED  BY <1>1 DEF FilesOK, WholeBehind
<1>3. Kept(dirs, backups)'
  <2>1. tree.whole => tree = [pkg |-> tree.pkg, whole |-> TRUE]
    BY DEF Tree
  <2>2. \A p \in placed : dirs[n] # [pkg |-> p, whole |-> TRUE]
    <3>1. \A p \in Packages : [pkg |-> p, whole |-> TRUE] \in Tree
      BY DEF Tree
    <3> QED  BY <3>1, NoneAssumption DEF TypeOK
  <2> SUFFICES ASSUME NEW p \in placed'
               PROVE  \/ \E m \in Names : dirs'[m] = [pkg |-> p, whole |-> TRUE]
                      \/ \E b \in Range(backups) : b.tree = [pkg |-> p, whole |-> TRUE]
    BY DEF Kept
  <2>3. CASE p \in placed
    <3>1. \A m \in Names : dirs[m] = [pkg |-> p, whole |-> TRUE] => dirs'[m] = dirs[m]
      BY <1>1, <2>2, <2>3
    <3> QED  BY <2>3, <3>1 DEF FilesOK, Kept
  <2>4. CASE p = tree.pkg /\ tree.whole
    BY <1>1, <2>1, <2>4
  <2> QED  BY <2>3, <2>4
<1> QED  BY <1>2, <1>3 DEF FilesOK

-----------------------------------------------------------------------------
(* Names at rest *)

\* The files as they are, and as a failing installation would leave them,
\* differ for its own name only.
LEMMA OldView ==
    ASSUME RegistryInv, pc # "idle"
    PROVE  /\ \A m \in Names \ {cur.name} : OldDirs[m] = dirs[m]
           /\ pc # "stage" => OldDirs = dirs /\ OldBackups = backups
<1>1. CASE Staging
  <2>1. backups \in Seq(Backup) /\ backups # <<>> /\ Last(backups).name = cur.name
    BY <1>1 DEF RegistryInv, OperationOK, TypeOK, Backup
  <2>2. Range(backups) = Range(Front(backups)) \cup {Last(backups)}
    BY <2>1, FrontOfBackups
  <2>3. \A m \in Names \ {cur.name} : OldDirs[m] = dirs[m]
    BY <1>1 DEF OldDirs, RegistryInv, TypeOK
  <2> QED  BY <1>1, <2>1, <2>2, <2>3 DEF OldBackups, Staging
<1>2. CASE ~Staging
  BY <1>2 DEF OldDirs, OldBackups
<1> QED  BY <1>1, <1>2

\* An operation on n leaves the other names at rest.
LEMMA QuietStep ==
    ASSUME RegistryInv, NEW n \in Names,
           \A m \in Quiet' : m # n => m \in Quiet,
           \A m \in Names \ {n} : OldDirs'[m] = OldDirs[m] /\ records'[m] = records[m],
           events \subseteq events',
           n \in Quiet' => AgreesOn(n, OldDirs)'
    PROVE  \A m \in Quiet' : AgreesOn(m, OldDirs)'
<1> SUFFICES ASSUME NEW m \in Quiet', m # n
             PROVE  AgreesOn(m, OldDirs)'
  OBVIOUS
<1>1. m \in Names /\ AgreesOn(m, OldDirs)
  BY DEF RegistryInv, Quiet
<1> QED  BY <1>1 DEF AgreesOn

-----------------------------------------------------------------------------
(* The operations *)

\* The beginning of an operation on n.
LEMMA BeginStep ==
    ASSUME RegistryInv, NEW op \in {"install", "rollback", "remove"}, NEW n \in Names,
           NEW tree \in Tree, NEW place \in {"stage", "copy", "unrecord"}, NEW kind \in Kinds,
           Begin(op, n, tree, place), MoveAway(n, kind),
           kind = "current" => CandidatesIn(n, backups) # {},
           op = "install" <=> place = "stage", op = "rollback" <=> place = "copy",
           op = "install" => tree.whole,
           op = "rollback" => kind = "current" /\ NewestIn(tree, n, backups)
    PROVE  RegistryInv'
<1>0. /\ pc = "idle" /\ cur = NoOp /\ Len(backups) < MaxBackups
      /\ pc' = place
      /\ cur' = [op |-> op, name |-> n, tree |-> tree, moved |-> dirs[n] # None]
      /\ UNCHANGED <<records, events, faults, placed, torn>>
  BY DEF RegistryInv, Begin, observers
<1>1. /\ dirs' \in [Names -> Tree \cup {None}] /\ dirs'[n] = None
      /\ backups' \in Seq(Backup) /\ Len(backups') <= MaxBackups
      /\ \A m \in Names \ {n} : dirs'[m] = dirs[m]
      /\ dirs[n] = None => dirs' = dirs /\ backups' = backups
      /\ dirs[n] # None => /\ backups' # <<>> /\ Last(backups').name = n
                           /\ Front(backups') = backups
                           /\ [dirs' EXCEPT ![n] = Last(backups').tree] = dirs
                           /\ Range(backups') = Range(backups)
                                                  \cup {[name |-> n, kind |-> kind, tree |-> dirs[n]]}
  BY <1>0, Moved DEF RegistryInv
<1>2. TypeOK'
  BY <1>0, <1>1 DEF RegistryInv, TypeOK, Backup
<1>3. OldDirs = dirs /\ OldBackups = backups
  BY <1>0 DEF OldDirs, OldBackups, Staging
<1>4. place = "stage" => OldDirs' = dirs /\ OldBackups' = backups
  BY <1>0, <1>1 DEF OldDirs, OldBackups, Staging
<1>5. place # "stage" => OldDirs' = dirs' /\ OldBackups' = backups'
  BY <1>0 DEF OldDirs, OldBackups, Staging
<1>6. FilesOK(dirs, backups)'
  BY <1>0, MovedFiles DEF RegistryInv
<1>7. FilesOK(OldDirs, OldBackups)'
  <2>1. CASE place = "stage"
    BY <1>0, <1>4, <2>1 DEF RegistryInv, FilesOK, WholeBehind, Kept
  <2>2. CASE place # "stage"
    BY <1>5, <1>6, <2>2 DEF FilesOK, WholeBehind, Kept
  <2> QED  BY <2>1, <2>2
<1>8. OperationOK'
  <2>1. /\ cur'.op = op /\ cur'.name = n /\ cur'.tree = tree /\ cur'.moved = (dirs[n] # None)
        /\ cur' \in [op : {"install", "rollback", "remove"}, name : Names, tree : Tree, moved : BOOLEAN]
    BY <1>0
  <2>2. op = "rollback" => CandidatesIn(n, backups') = CandidatesIn(n, backups)
    BY <1>1 DEF CandidatesIn
  <2>3. Staging' => backups' # <<>> /\ Last(backups').name = n
    BY <1>0, <1>1, <2>1 DEF Staging
  <2>4. cur'.op = "rollback" => NewestIn(cur'.tree, cur'.name, backups')
    BY <2>1, <2>2 DEF NewestIn
  <2>5. /\ pc' = "stage" => cur'.op = "install"
        /\ pc' = "copy" => cur'.op = "rollback"
        /\ pc' \notin {"record", "event"}
        /\ pc' = "unrecord" => cur'.op = "remove"
        /\ cur'.op = "install" => cur'.tree.whole
        /\ dirs'[cur'.name] = None
    BY <1>0, <1>1, <2>1
  <2> QED  BY <2>1, <2>3, <2>4, <2>5 DEF OperationOK, NewestIn, CandidatesIn
<1>9. \A m \in Quiet' : AgreesOn(m, OldDirs)'
  <2>1. \A m \in Quiet' : m \in Quiet
    BY <1>0, NoneAssumption DEF Quiet, NoOp
  <2>2. n \in Quiet' => place = "stage"
    BY <1>0 DEF Quiet
  <2>3. n \in Quiet' => AgreesOn(n, OldDirs)'
    BY <1>0, <1>3, <1>4, <2>1, <2>2 DEF RegistryInv, AgreesOn
  <2>4. \A m \in Names \ {n} : OldDirs'[m] = OldDirs[m] /\ records'[m] = records[m]
    BY <1>0, <1>1, <1>3, <1>4, <1>5
  <2> QED  BY <1>0, <2>1, <2>3, <2>4, QuietStep
<1> QED  BY <1>0, <1>2, <1>6, <1>7, <1>8, <1>9 DEF RegistryInv

LEMMA InstallStep ==
    ASSUME RegistryInv, NEW p \in Packages, Install(p)
    PROVE  RegistryInv'
<1> DEFINE tree == [pkg |-> p, whole |-> TRUE]
<1>1. p.name \in Names /\ tree \in Tree /\ tree.whole
  BY RegistryAssumption DEF Tree
<1>2. Begin("install", p.name, tree, "stage") /\ MoveAway(p.name, "replaced")
  BY DEF Install
<1> HIDE DEF tree
<1> QED  BY <1>1, <1>2, BeginStep DEF Kinds

LEMMA RollbackStep ==
    ASSUME RegistryInv, NEW n \in Names, Rollback(n)
    PROVE  RegistryInv'
<1>1. PICK b \in Newest(n) : Begin("rollback", n, b.tree, "copy")
  BY DEF Rollback
<1>2. MoveAway(n, "current")
  BY DEF Rollback
<1>3. b \in CandidatesIn(n, backups) /\ NewestIn(b.tree, n, backups)
  BY DEF Newest, Candidates, CandidatesIn, NewestIn
<1>4. b.tree \in Tree
  BY <1>3, BackupTypes DEF RegistryInv, CandidatesIn, Backup
<1> QED  BY <1>1, <1>2, <1>3, <1>4, BeginStep DEF Kinds

LEMMA RemoveStep ==
    ASSUME RegistryInv, NEW n \in Names, RemovePlugin(n)
    PROVE  RegistryInv'
<1>1. dirs[n] \in Tree
  BY DEF RemovePlugin, RegistryInv, TypeOK
<1> QED  BY <1>1, BeginStep DEF RemovePlugin, Kinds

\* A failing installation goes back to the files before it.
LEMMA StageFailsStep ==
    ASSUME RegistryInv, StageFails
    PROVE  RegistryInv'
<1>0. /\ pc = "stage" /\ OperationOK /\ TypeOK /\ pc' = "idle" /\ cur' = NoOp
      /\ UNCHANGED <<records, events, placed, torn>>
      /\ faults' \in 0..MaxFaults
  BY RegistryAssumption DEF RegistryInv, StageFails, TypeOK, observers
<1>1. dirs' = OldDirs /\ backups' = OldBackups
  BY <1>0 DEF StageFails, OldDirs, OldBackups, Staging
<1>2. OldDirs' = OldDirs /\ OldBackups' = OldBackups
  BY <1>0, <1>1 DEF OldDirs, OldBackups, Staging
<1>3. OldDirs \in [Names -> Tree \cup {None}] /\ OldBackups \in Seq(Backup) /\ Len(OldBackups) <= MaxBackups
  <2>1. CASE Staging
    <3>1. /\ Front(backups) \in Seq(Backup) /\ Len(Front(backups)) = Len(backups) - 1
          /\ Last(backups) \in Backup
      BY <1>0, <2>1, FrontOfBackups DEF OperationOK, TypeOK, Backup
    <3>2. Len(backups) \in Nat /\ MaxBackups \in Nat
      BY <1>0, RegistryAssumption DEF TypeOK
    <3>3. OldDirs \in [Names -> Tree \cup {None}]
      <4>1. Last(backups).tree \in Tree
        BY <3>1 DEF Backup
      <4> QED  BY <1>0, <2>1, <4>1 DEF OldDirs, TypeOK
    <3>4. Len(Front(backups)) <= MaxBackups
      BY <1>0, <3>1, <3>2 DEF TypeOK
    <3> QED  BY <2>1, <3>1, <3>3, <3>4 DEF OldBackups
  <2>2. CASE ~Staging
    BY <1>0, <2>2 DEF OldDirs, OldBackups, TypeOK, Backup
  <2> QED  BY <2>1, <2>2
<1>4. TypeOK'
  BY <1>0, <1>1, <1>3 DEF TypeOK, Backup
<1>5. FilesOK(OldDirs, OldBackups)' /\ FilesOK(dirs, backups)'
  BY <1>0, <1>1, <1>2 DEF RegistryInv, FilesOK, WholeBehind, Kept
<1>6. \A m \in Quiet' : AgreesOn(m, OldDirs)'
  <2>1. \A m \in Quiet' : m \in Quiet
    BY <1>0 DEF Quiet
  <2> QED  BY <1>0, <1>2, <2>1 DEF RegistryInv, AgreesOn
<1> QED  BY <1>0, <1>4, <1>5, <1>6 DEF RegistryInv

\* A copy to the place of the name, which is empty: of a whole package by an
\* installation, of the chosen backup by a rollback.
LEMMA CopyStep ==
    ASSUME RegistryInv, Place \/ CopyBack
    PROVE  RegistryInv'
<1> DEFINE n == cur.name
<1>0. /\ pc \in {"stage", "copy"} /\ OperationOK /\ TypeOK /\ pc' = "record" /\ cur' = cur
      /\ dirs' = [dirs EXCEPT ![n] = cur.tree]
      /\ UNCHANGED <<backups, records, events, faults, torn>>
      /\ pc = "stage" => placed' = placed \cup {cur.tree.pkg}
      /\ pc = "copy" => placed' = placed
  BY DEF RegistryInv, Place, CopyBack, observers
<1>1. /\ n \in Names /\ cur.tree \in Tree /\ dirs[n] = None
      /\ cur.tree.pkg \in Packages
      /\ cur.tree.whole \/ CandidatesIn(n, backups) # {}
      /\ pc = "stage" => cur.tree.whole
  BY <1>0 DEF OperationOK, NewestIn, Tree
<1>2. TypeOK'
  BY <1>0, <1>1 DEF TypeOK
<1>3. FilesOK(dirs, backups)'
  BY <1>0, <1>1, PutFiles DEF RegistryInv
<1>4. OldDirs' = dirs' /\ OldBackups' = backups'
  BY <1>0 DEF OldDirs, OldBackups, Staging
<1>5. FilesOK(OldDirs, OldBackups)'
  BY <1>3, <1>4 DEF FilesOK, WholeBehind, Kept
<1>6. OperationOK'
  <2>1. dirs'[cur.name] = cur.tree
    BY <1>0, <1>1 DEF TypeOK
  <2>2. pc = "stage" => cur.op = "install"
    BY <1>0 DEF OperationOK
  <2>3. cur.op \in {"install", "rollback"}
    BY <1>0 DEF OperationOK
  <2> QED  BY <1>0, <2>1, <2>3 DEF OperationOK, NewestIn, CandidatesIn, Staging
<1>7. \A m \in Quiet' : AgreesOn(m, OldDirs)'
  <2>1. n \notin Quiet' /\ \A m \in Quiet' : m \in Quiet
    BY <1>0 DEF Quiet
  <2>2. \A m \in Names \ {n} : OldDirs'[m] = OldDirs[m] /\ records'[m] = records[m]
    BY <1>0, <1>1, <1>4, OldView DEF TypeOK
  <2> QED  BY <1>0, <1>1, <2>1, <2>2, QuietStep
<1> QED  BY <1>0, <1>2, <1>3, <1>5, <1>6, <1>7 DEF RegistryInv

\* Steps that leave the directories and the backups alone.
LEMMA RecordStep ==
    ASSUME RegistryInv, WriteRecord \/ DropRecord
    PROVE  RegistryInv'
<1> DEFINE n == cur.name
<1>0. /\ pc \in {"record", "unrecord"} /\ OperationOK /\ TypeOK /\ pc' = "event" /\ cur' = cur
      /\ UNCHANGED <<dirs, backups, events, faults, placed, torn>>
      /\ pc = "record" => records' = [records EXCEPT ![n] = RecordOf(cur.op, cur.tree)]
      /\ pc = "unrecord" => records' = [records EXCEPT ![n] = None]
  BY DEF RegistryInv, WriteRecord, DropRecord, observers
<1>1. /\ n \in Names /\ cur.tree \in Tree
      /\ RecordOf(cur.op, cur.tree) \in Record
      /\ \A m \in Names \ {n} : records'[m] = records[m]
      /\ pc = "record" => dirs[n] = cur.tree /\ records'[n] = RecordOf(cur.op, cur.tree)
      /\ pc = "unrecord" => dirs[n] = None /\ records'[n] = None
  BY <1>0 DEF OperationOK, RecordOf, Record, TypeOK
<1>2. TypeOK'
  BY <1>0, <1>1 DEF TypeOK
<1>3. OldDirs = dirs /\ OldBackups = backups /\ OldDirs' = dirs /\ OldBackups' = backups
  BY <1>0 DEF OldDirs, OldBackups, Staging
<1>4. dirs[n] = None => records'[n] = None
  BY <1>0, <1>1, NoneAssumption
<1>5. FilesOK(dirs, backups)'
  <2>1. WholeBehind(dirs, backups)'
    <3> SUFFICES ASSUME NEW m \in Names,
                        \/ CandidatesIn(m, backups) # {}
                        \/ dirs[m] # None /\ ~dirs[m].whole
                        \/ dirs[m] = None /\ records'[m] # None
                 PROVE  \E b \in CandidatesIn(m, backups) : b.tree.whole
      BY <1>0 DEF WholeBehind, CandidatesIn
    <3>1. dirs[m] = None /\ records'[m] # None => records[m] # None
      BY <1>1, <1>4
    <3> QED  BY <3>1 DEF RegistryInv, FilesOK, WholeBehind
  <2> QED  BY <1>0, <2>1 DEF RegistryInv, FilesOK, Kept
<1>6. FilesOK(OldDirs, OldBackups)'
  BY <1>0, <1>3, <1>5 DEF FilesOK, WholeBehind, Kept
<1>7. OperationOK'
  BY <1>0, <1>1 DEF OperationOK, NewestIn, CandidatesIn, Staging
<1>8. \A m \in Quiet' : AgreesOn(m, OldDirs)'
  <2>1. n \notin Quiet' /\ \A m \in Quiet' : m \in Quiet
    BY <1>0 DEF Quiet
  <2> QED  BY <1>0, <1>1, <1>3, <2>1, QuietStep
<1> QED  BY <1>0, <1>2, <1>5, <1>6, <1>7, <1>8 DEF RegistryInv

\* The end of an operation.
LEMMA EventStep ==
    ASSUME RegistryInv, AppendEvent
    PROVE  RegistryInv'
<1>a. PICK n \in Names : n = cur.name
  BY DEF RegistryInv, AppendEvent, OperationOK
<1>0. /\ pc = "event" /\ OperationOK /\ TypeOK /\ pc' = "idle" /\ cur' = NoOp
      /\ UNCHANGED <<dirs, backups, records, faults, placed>>
      /\ torn' = torn \ {n}
      /\ events' = events \cup
            {<<cur.op, n, IF cur.op = "remove" THEN None ELSE cur.tree.pkg>>}
  BY <1>a DEF RegistryInv, AppendEvent
<1>1. /\ n \in Names /\ cur.tree \in Tree /\ cur.op \in {"install", "rollback", "remove"}
      /\ cur.tree.pkg \in Packages
  BY <1>0, <1>a DEF OperationOK, Tree
<1>2. TypeOK'
  BY <1>0, <1>1 DEF TypeOK
<1>3. OldDirs = dirs /\ OldBackups = backups /\ OldDirs' = dirs /\ OldBackups' = backups
  BY <1>0 DEF OldDirs, OldBackups, Staging
<1>4. FilesOK(dirs, backups)' /\ FilesOK(OldDirs, OldBackups)'
  BY <1>0, <1>3 DEF RegistryInv, FilesOK, WholeBehind, Kept
<1>5. AgreesOn(n, OldDirs)'
  <2>1. CASE cur.op = "remove"
    BY <1>0, <1>a, <1>3, <2>1 DEF OperationOK, AgreesOn
  <2>2. CASE cur.op # "remove"
    <3>1. /\ dirs[n] = cur.tree /\ records[n] = RecordOf(cur.op, cur.tree)
          /\ records[n] \in Record /\ records[n] # None /\ dirs[n] # None
          /\ records[n].tree = cur.tree
          /\ records[n].review = IF cur.op = "install" THEN "approved" ELSE "rollback"
      BY <1>0, <1>a, <1>1, <2>2, NoneAssumption DEF OperationOK, RecordOf, Record
    <3>2. <<IF records[n].review = "approved" THEN "install" ELSE "rollback",
            n, records[n].tree.pkg>> \in events'
      BY <1>0, <1>1, <2>2, <3>1
    <3> QED  BY <1>0, <1>3, <3>1, <3>2 DEF AgreesOn
  <2> QED  BY <2>1, <2>2
<1>6. \A m \in Quiet' : AgreesOn(m, OldDirs)'
  <2>1. \A m \in Quiet' : m # n => m \in Quiet
    BY <1>0, <1>a DEF Quiet
  <2> QED  BY <1>0, <1>1, <1>3, <1>5, <2>1, QuietStep
<1> QED  BY <1>0, <1>2, <1>4, <1>6 DEF RegistryInv

\* An interruption tears the name at work, and no other.
LEMMA InterruptStep ==
    ASSUME RegistryInv, Interrupt \/ ManifestMissing
    PROVE  RegistryInv'
<1>a. PICK n \in Names : n = cur.name
  BY DEF RegistryInv, Interrupt, ManifestMissing, OperationOK
<1>0. /\ pc # "idle" /\ OperationOK /\ TypeOK /\ pc' = "idle" /\ cur' = NoOp
      /\ UNCHANGED <<backups, records, events, placed>>
      /\ faults' \in 0..MaxFaults
      /\ torn' = torn \cup {n}
      /\ dirs' = dirs \/ (/\ pc = "copy"
                          /\ dirs' = [dirs EXCEPT ![n] = [cur.tree EXCEPT !.whole = FALSE]])
  BY <1>a, RegistryAssumption DEF RegistryInv, Interrupt, ManifestMissing, TypeOK, fileVars
<1>1. /\ dirs' \in [Names -> Tree \cup {None}]
      /\ \A m \in Names \ {n} : dirs'[m] = dirs[m]
      /\ FilesOK(dirs, backups)'
  <2>1. CASE dirs' = dirs
    BY <1>0, <2>1 DEF TypeOK, RegistryInv, FilesOK, WholeBehind, Kept
  <2>2. CASE pc = "copy" /\ dirs' = [dirs EXCEPT ![n] = [cur.tree EXCEPT !.whole = FALSE]]
    <3>1. PICK tree \in Tree : tree = [cur.tree EXCEPT !.whole = FALSE]
      BY <1>0 DEF OperationOK, Tree
    <3>2. dirs[n] = None /\ CandidatesIn(n, backups) # {}
      BY <1>0, <1>a, <2>2, <3>1 DEF OperationOK, NewestIn, Tree
    <3>3. FilesOK(dirs, backups)'
      BY <1>0, <2>2, <3>1, <3>2, PutFiles DEF RegistryInv
    <3> QED  BY <1>0, <2>2, <3>1, <3>3 DEF TypeOK
  <2> QED  BY <1>0, <2>1, <2>2
<1>2. TypeOK'
  BY <1>0, <1>1 DEF TypeOK
<1>3. OldDirs' = dirs' /\ OldBackups' = backups'
  BY <1>0 DEF OldDirs, OldBackups, Staging
<1>4. FilesOK(OldDirs, OldBackups)'
  BY <1>1, <1>3 DEF FilesOK, WholeBehind, Kept
<1>5. \A m \in Quiet' : AgreesOn(m, OldDirs)'
  <2>1. n \notin Quiet' /\ \A m \in Quiet' : m \in Quiet
    BY <1>0, <1>a DEF Quiet
  <2>2. \A m \in Names \ {n} : OldDirs'[m] = OldDirs[m] /\ records'[m] = records[m]
    BY <1>0, <1>a, <1>1, <1>3, OldView
  <2> QED  BY <1>0, <2>1, <2>2, QuietStep
<1> QED  BY <1>0, <1>1, <1>2, <1>4, <1>5 DEF RegistryInv

-----------------------------------------------------------------------------
(* Theorems *)

LEMMA RegistryInit == Init => RegistryInv
<1> SUFFICES ASSUME Init PROVE RegistryInv
  OBVIOUS
<1>1. TypeOK
  BY RegistryAssumption DEF Init, TypeOK
<1>2. OldDirs = dirs /\ OldBackups = backups /\ Range(backups) = {}
  BY DEF Init, OldDirs, OldBackups, Staging, Range
<1>3. FilesOK(dirs, backups)
  BY <1>2 DEF Init, FilesOK, WholeBehind, Kept, CandidatesIn
<1>4. \A n \in Names : AgreesOn(n, OldDirs)
  BY <1>2 DEF Init, AgreesOn
<1> QED  BY <1>1, <1>2, <1>3, <1>4 DEF Init, RegistryInv, Quiet

LEMMA RegistryStep == RegistryInv /\ [Next]_vars => RegistryInv'
<1>1. ASSUME RegistryInv, Next PROVE RegistryInv'
  BY <1>1, InstallStep, RollbackStep, RemoveStep, StageFailsStep, CopyStep, RecordStep,
     EventStep, InterruptStep DEF Next
<1>2. ASSUME RegistryInv, UNCHANGED vars PROVE RegistryInv'
  <2> USE <1>2 DEF vars, fileVars, opVars, observers
  <2>1. OldDirs' = OldDirs /\ OldBackups' = OldBackups
    BY DEF OldDirs, OldBackups, Staging
  <2>2. TypeOK'
    BY DEF RegistryInv, TypeOK
  <2>3. FilesOK(dirs, backups)' /\ FilesOK(OldDirs, OldBackups)'
    BY <2>1 DEF RegistryInv, FilesOK, WholeBehind, Kept
  <2>4. IF pc' = "idle" THEN cur' = NoOp ELSE OperationOK'
    BY DEF RegistryInv, OperationOK, NewestIn, Staging, CandidatesIn
  <2>5. \A m \in Quiet' : AgreesOn(m, OldDirs)'
    BY <2>1 DEF RegistryInv, Quiet, AgreesOn
  <2> QED  BY <2>2, <2>3, <2>4, <2>5 DEF RegistryInv
<1> QED  BY <1>1, <1>2

LEMMA AlwaysRegistryInv == Spec => []RegistryInv
BY RegistryInit, RegistryStep, PTL DEF Spec

\* registry.json and events.jsonl agree with the directory of every name whose
\* latest install, rollback or remove came to its end, with any number of
\* interruptions and failed installations.
THEOREM RecordsAgree == Spec => []RecordAgrees
<1>1. RegistryInv => RecordAgrees
  <2> SUFFICES ASSUME RegistryInv, NEW n \in Settled
               PROVE  AgreesOn(n, dirs)
    BY DEF RegistryInv, RecordAgrees, AgreesOn
  <2>1. n \in Quiet /\ n \in Names /\ n # cur.name
    BY DEF Settled, Quiet
  <2>2. OldDirs[n] = dirs[n]
    BY <2>1, OldView DEF OldDirs, Staging
  <2> QED  BY <2>1, <2>2 DEF RegistryInv, AgreesOn
<1> QED  BY <1>1, AlwaysRegistryInv, PTL

\* install, rollback and remove never lose a version that was active once.
THEOREM NothingIsLost == Spec => []NothingLost
<1>1. RegistryInv => NothingLost
  BY DEF RegistryInv, FilesOK, Kept, NothingLost
<1> QED  BY <1>1, AlwaysRegistryInv, PTL

\* Where registry.json names a directory that is missing, rollback finds a
\* whole backup, although interrupted copies may be among the backups.
THEOREM InterruptionsAreRepairable == Spec => []Repairable
<1>1. RegistryInv => Repairable
  BY DEF RegistryInv, FilesOK, WholeBehind, Repairable, Candidates, CandidatesIn
<1> QED  BY <1>1, AlwaysRegistryInv, PTL

\* What rollback restores is the version that the latest installation or removal
\* of the plugin put aside, wherever the dates of its whole candidates, all of
\* this plugin, are in the order in which they were put aside.
THEOREM RollbacksRestorePrevious == Spec => []RollbackRestoresPrevious
<1>1. RegistryInv => RollbackRestoresPrevious
  <2> SUFFICES ASSUME RegistryInv, cur.op = "rollback", InOrder(cur.name),
                      NEW i \in Previous(cur.name),
                      \A j \in Previous(cur.name) : j <= i
               PROVE  cur.tree = backups[i].tree
    BY DEF RollbackRestoresPrevious
  <2>1. OperationOK /\ TypeOK
    BY DEF RegistryInv, NoOp
  <2>2. PICK k \in DOMAIN backups : /\ backups[k] \in CandidatesIn(cur.name, backups)
                                    /\ backups[k].tree = cur.tree
    BY <2>1 DEF OperationOK, NewestIn, CandidatesIn, Range
  <2>3. k \in Previous(cur.name) /\ k <= i
    BY <2>2 DEF InOrder, Candidates, CandidatesIn, Previous
  <2>4. k \in Nat /\ i \in DOMAIN backups /\ i \in Nat
    BY <2>1 DEF TypeOK, Previous
  <2>5. backups[i] \in CandidatesIn(cur.name, backups)
    <3>1. cur.name \in Finds[cur.name]
      BY <2>1, RegistryAssumption DEF OperationOK
    <3> QED  BY <2>4, <3>1 DEF Previous, CandidatesIn, Range
  <2>6. Mtime(backups[i].tree) <= Mtime(cur.tree)
    BY <2>1, <2>5 DEF OperationOK, NewestIn
  <2>7. Mtime(backups[i].tree) \in Nat /\ Mtime(cur.tree) \in Nat
    <3>1. backups[i].tree \in Tree /\ cur.tree \in Tree
      <4>1. backups[i] \in Backup
        BY <2>1, <2>5, BackupTypes DEF CandidatesIn
      <4>2. cur.tree \in Tree
        BY <2>1 DEF OperationOK
      <4> QED  BY <4>1, <4>2 DEF Backup
    <3>2. \A tree \in Tree : tree.pkg \in Packages /\ tree.pkg.mtime \in Nat
      BY RegistryAssumption DEF Tree
    <3> QED  BY <3>1, <3>2, RegistryAssumption DEF Mtime
  <2>8. CASE k < i
    BY <2>2, <2>3, <2>6, <2>7, <2>8 DEF InOrder
  <2> QED  BY <2>2, <2>3, <2>4, <2>8
<1> QED  BY <1>1, AlwaysRegistryInv, PTL

=============================================================================
