------------------------------ MODULE Attachments ------------------------------
(***************************************************************************)
(* packages/attachments and the attachment handlers of                     *)
(* services/api/app.py: an attachment is a row in the metadata store and   *)
(* an object in the blob store, written and removed one after the other.   *)
(*                                                                         *)
(* Requests run concurrently, in threads or in replicas.  A step is one    *)
(* call of the metadata store or of the blob store, or the audit append    *)
(* with the response after it.  Uploads that fail validation or the        *)
(* malware scan have touched nothing and are left out; so are list and     *)
(* metadata, which only read.                                              *)
(***************************************************************************)
EXTENDS Naturals

CONSTANTS
    Handlers,       \* requests and purges at work at the same time
    Owners,         \* authenticated workspace, tenant and user
    Ids,            \* attachment ids (uuid4); a bound on the uploads
    MaxFaults,      \* requests that fail (a bound)
    None            \* Python's None

ASSUME BudgetAssumption == MaxFaults \in Nat

VARIABLES
    rows,       \* the attachments table: the owner, or None, per id
    blobs,      \* ids whose content is in the blob store
    audit,      \* the events appended, as <<type, id>>
    used,       \* ids given out
    old,        \* ids whose created_at is before the retention cutoff
    faults,
    \* a request
    pc,
    call,
    \* observers, read by no request
    gone,       \* ids that a finished delete or purge has dealt with
    purged,     \* ids whose row a purge has removed
    swept,      \* ids that were old when a purge began that has returned
    broken      \* <<operation, id>> that failed half way

storeVars == <<rows, blobs>>
clockVars == <<used, old, faults>>
requestVars == <<pc, call>>
observers == <<gone, purged, swept, broken>>
vars == <<storeVars, audit, clockVars, requestVars, observers>>

Operations == {"upload", "read", "delete", "purge"}

\* id is the attachment at hand; a purge has a list of further ones in todo,
\* and notes in due, an observer, all that was old when it began.
Call == [op : Operations, who : Owners \cup {None}, id : Ids \cup {None},
         todo : SUBSET Ids, due : SUBSET Ids]

ASSUME NoneAssumption == None \notin Owners \cup Ids \cup Call

Places == {"idle", "put", "create", "undo", "created", "find", "fetch",
           "next", "unblob", "unrow", "unrow2", "deleted"}

TypeOK ==
    /\ rows \in [Ids -> Owners \cup {None}]
    /\ blobs \subseteq Ids
    /\ audit \subseteq {"created", "deleted"} \X Ids
    /\ used \subseteq Ids
    /\ old \subseteq used
    /\ faults \in 0..MaxFaults
    /\ pc \in [Handlers -> Places]
    /\ call \in [Handlers -> Call \cup {None}]
    /\ gone \subseteq Ids
    /\ purged \subseteq Ids
    /\ swept \subseteq Ids
    /\ broken \subseteq Operations \X Ids

Init ==
    /\ rows = [i \in Ids |-> None]
    /\ blobs = {}
    /\ audit = {}
    /\ used = {}
    /\ old = {}
    /\ faults = 0
    /\ pc = [h \in Handlers |-> "idle"]
    /\ call = [h \in Handlers |-> None]
    /\ gone = {}
    /\ purged = {}
    /\ swept = {}
    /\ broken = {}

Goto(h, place) == pc' = [pc EXCEPT ![h] = place]

Begin(h, op, who, i, place) ==
    /\ pc[h] = "idle"
    /\ Goto(h, place)
    /\ call' = [call EXCEPT ![h] =
          [op |-> op, who |-> who, id |-> i, todo |-> {}, due |-> {}]]

Done(h) ==
    /\ Goto(h, "idle")
    /\ call' = [call EXCEPT ![h] = None]

-----------------------------------------------------------------------------
(* Faulty variants of definitions below, used by no specification *)

AuditDeletedForgotten(h) ==
    /\ pc[h] = "deleted"
    /\ Done(h)
    /\ UNCHANGED <<storeVars, audit, clockVars, observers>>

UndoForgotten(h) ==
    /\ pc[h] = "undo"
    /\ Done(h)
    /\ UNCHANGED <<storeVars, audit, clockVars, observers>>

DeleteBlobForgotten(h) ==
    /\ pc[h] = "unblob"
    /\ Goto(h, "unrow")
    /\ UNCHANGED <<storeVars, audit, clockVars, call, observers>>

PurgeReturnsEarly(h) ==
    /\ pc[h] = "next"
    /\ swept' = swept \cup call[h].due
    /\ Done(h)
    /\ UNCHANGED <<storeVars, audit, clockVars, gone, purged, broken>>

-----------------------------------------------------------------------------
(* upload *)

\* The file was validated and scanned, and the record made up.
Upload(h, who, i) ==
    /\ i \notin used
    /\ used' = used \cup {i}
    /\ Begin(h, "upload", who, i, "put")
    /\ UNCHANGED <<storeVars, audit, old, faults, observers>>

\* blob_store.put; that it may fail, with no cleanup, is RequestFails.
Put(h) ==
    /\ pc[h] = "put"
    /\ blobs' = blobs \cup {call[h].id}
    /\ Goto(h, "create")
    /\ UNCHANGED <<rows, audit, clockVars, call, observers>>

InsertRow(h) == rows' = [rows EXCEPT ![call[h].id] = call[h].who]

Create(h) ==
    /\ pc[h] = "create"
    /\ InsertRow(h)
    /\ Goto(h, "created")
    /\ UNCHANGED <<blobs, audit, clockVars, call, observers>>

\* store.create raises: the row may have been committed all the same.
CreateFails(h) ==
    /\ pc[h] = "create"
    /\ faults < MaxFaults
    /\ faults' = faults + 1
    /\ \/ UNCHANGED <<rows, broken>>
       \/ InsertRow(h) /\ broken' = broken \cup {<<"upload", call[h].id>>}
    /\ Goto(h, "undo")
    /\ UNCHANGED <<blobs, audit, used, old, call, gone, purged, swept>>

\* except Exception: the content is deleted again, and the exception raised.
Undo(h) ==
    /\ pc[h] = "undo"
    /\ blobs' = blobs \ {call[h].id}
    /\ Done(h)
    /\ UNCHANGED <<rows, audit, clockVars, observers>>

AuditCreated(h) ==
    /\ pc[h] = "created"
    /\ audit' = audit \cup {<<"created", call[h].id>>}
    /\ Done(h)
    /\ UNCHANGED <<storeVars, clockVars, observers>>

-----------------------------------------------------------------------------
(* read and delete *)

Read(h, who, i) ==
    /\ Begin(h, "read", who, i, "find")
    /\ UNCHANGED <<storeVars, audit, clockVars, observers>>

Delete(h, who, i) ==
    /\ Begin(h, "delete", who, i, "find")
    /\ UNCHANGED <<storeVars, audit, clockVars, observers>>

\* The stores select by id, workspace, tenant and user.
Visible(who, i) == rows[i] # None /\ rows[i] = who

\* _scoped_record: the row of this caller, or 404.
ScopedRecord(h) ==
    /\ pc[h] = "find"
    /\ IF Visible(call[h].who, call[h].id)
       THEN /\ Goto(h, IF call[h].op = "read" THEN "fetch" ELSE "unblob")
            /\ UNCHANGED call
       ELSE Done(h)
    /\ UNCHANGED <<storeVars, audit, clockVars, observers>>

\* blob_store.read: the content, or 404 when it is not there.
Fetch(h) ==
    /\ pc[h] = "fetch"
    /\ Done(h)
    /\ UNCHANGED <<storeVars, audit, clockVars, observers>>

\* blob_store.delete, which does not mind content that is not there.
DeleteBlob(h) ==
    /\ pc[h] = "unblob"
    /\ blobs' = blobs \ {call[h].id}
    /\ Goto(h, "unrow")
    /\ UNCHANGED <<rows, audit, clockVars, call, observers>>

\* store.delete has returned: a purge takes its next record; a delete goes on
\* to its audit event, or answers 404 when the row was not there any more.
RowDeleted(h, found) ==
    /\ gone' = gone \cup {call[h].id}
    /\ purged' = IF found /\ call[h].op = "purge"
                 THEN purged \cup {call[h].id} ELSE purged
    /\ CASE call[h].op = "purge" -> Goto(h, "next") /\ UNCHANGED call
         [] call[h].op # "purge" /\ found -> Goto(h, "deleted") /\ UNCHANGED call
         [] OTHER -> Done(h)
    /\ UNCHANGED <<swept, broken>>

RemoveRow(h) == rows' = [rows EXCEPT ![call[h].id] = None]

\* The get of store.delete, which ends it when the row is not there any more.
DeleteRow(h) ==
    /\ pc[h] = "unrow"
    /\ IF rows[call[h].id] = None THEN RowDeleted(h, FALSE)
       ELSE Goto(h, "unrow2") /\ UNCHANGED <<call, observers>>
    /\ UNCHANGED <<rows, blobs, audit, clockVars>>

\* Its DELETE, whether or not the row is still there: PostgreSQL's store takes
\* its lock anew.  SQLite's keeps it, and nothing comes between the two.
DeleteRowLate(h) ==
    /\ pc[h] = "unrow2"
    /\ RemoveRow(h)
    /\ RowDeleted(h, TRUE)
    /\ UNCHANGED <<blobs, audit, clockVars>>

AuditDeleted(h) ==
    /\ pc[h] = "deleted"
    /\ audit' = audit \cup {<<"deleted", call[h].id>>}
    /\ Done(h)
    /\ UNCHANGED <<storeVars, clockVars, observers>>

-----------------------------------------------------------------------------
(* purge_expired *)

\* store.list_before(cutoff), with a positive retention period.
Purge(h) ==
    /\ pc[h] = "idle"
    /\ Goto(h, "next")
    /\ call' = [call EXCEPT ![h] =
          [op |-> "purge", who |-> None, id |-> None,
           todo |-> {i \in old : rows[i] # None}, due |-> old]]
    /\ UNCHANGED <<storeVars, audit, clockVars, observers>>

PurgeNext(h) ==
    /\ pc[h] = "next"
    /\ \E i \in call[h].todo :
         call' = [call EXCEPT ![h].id = i, ![h].todo = @ \ {i}]
    /\ Goto(h, "unblob")
    /\ UNCHANGED <<storeVars, audit, clockVars, observers>>

PurgeReturns(h) ==
    /\ pc[h] = "next"
    /\ call[h].todo = {}
    /\ swept' = swept \cup call[h].due
    /\ Done(h)
    /\ UNCHANGED <<storeVars, audit, clockVars, gone, purged, broken>>

-----------------------------------------------------------------------------
(* Time and failures *)

\* A day or more has passed, so that the upload of i is over.
Expire(i) ==
    /\ i \in used \ old
    /\ \A h \in Handlers : pc[h] # "idle" /\ call[h].op = "upload" => call[h].id # i
    /\ old' = old \cup {i}
    /\ UNCHANGED <<storeVars, audit, used, faults, requestVars, observers>>

\* A store or the blob store raises, or the process dies.  A call that raises
\* although it took effect is the step followed by this one.
RequestFails(h) ==
    /\ pc[h] # "idle"
    /\ faults < MaxFaults
    /\ faults' = faults + 1
    /\ broken' = IF pc[h] = "next" \/ call[h].op = "read" THEN broken
                 ELSE broken \cup {<<call[h].op, call[h].id>>}
    /\ Done(h)
    /\ UNCHANGED <<storeVars, audit, used, old, gone, purged, swept>>

Step(h) ==
    \/ Put(h) \/ Create(h) \/ CreateFails(h) \/ Undo(h) \/ AuditCreated(h)
    \/ ScopedRecord(h) \/ Fetch(h)
    \/ DeleteBlob(h) \/ DeleteRow(h) \/ DeleteRowLate(h) \/ AuditDeleted(h)
    \/ PurgeNext(h) \/ PurgeReturns(h)
    \/ RequestFails(h)

Next ==
    \/ \E h \in Handlers :
          \/ Step(h)
          \/ Purge(h)
          \/ \E who \in Owners, i \in Ids :
                Upload(h, who, i) \/ Read(h, who, i) \/ Delete(h, who, i)
    \/ \E i \in Ids : Expire(i)

Spec == Init /\ [][Next]_vars

-----------------------------------------------------------------------------
(* Properties *)

At(i, places) == \E h \in Handlers : pc[h] \in places /\ call[h].id = i

\* When store.delete has returned to a delete or purge that met no failure,
\* row and content are gone for good, however requests on the same attachment
\* interleaved, and whatever failed for others.
DeletedIsGone == \A i \in gone : rows[i] = None /\ i \notin blobs

\* Row and content exist together.  Content without a row belongs to an upload
\* that is under way, or is left over from one that failed: deleting never
\* leaves content behind.  A row without content is being deleted, or an
\* earlier request on it failed: its owner can delete it again.  The states are
\* well typed.
HalvesAgree ==
    /\ TypeOK
    /\ \A i \in blobs : rows[i] = None =>
          At(i, {"create", "undo"}) \/ <<"upload", i>> \in broken
    /\ \A i \in Ids : (rows[i] # None /\ i \notin blobs)
          => \/ At(i, {"unrow", "unrow2"})
             \/ \E op \in Operations : <<op, i>> \in broken

\* The audit log accounts for every attachment that existed and does not any
\* more, except the ones a purge removed, and a delete that failed after it.
DeletionAudited ==
    \A i \in Ids : (<<"created", i>> \in audit /\ rows[i] = None)
        => \/ <<"deleted", i>> \in audit \/ At(i, {"deleted"})
           \/ i \in purged \/ <<"delete", i>> \in broken

\* purge_expired deletes content and metadata of all that was old when it
\* began, although owners and other purges delete the same records; only
\* content that a failed upload left without a row escapes it.
PurgeLeavesNothing ==
    \A i \in swept : rows[i] = None /\ (i \in blobs => <<"upload", i>> \in broken)
=============================================================================
