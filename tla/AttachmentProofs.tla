--------------------------- MODULE AttachmentProofs ---------------------------
(***************************************************************************)
(* Theorems about Attachments: what the metadata store, the blob store and *)
(* the audit log say of an attachment fits together, for any number of     *)
(* concurrent requests, attachments, owners and failures.                  *)
(***************************************************************************)
EXTENDS Attachments, TLAPS

-----------------------------------------------------------------------------
(* The inductive invariant *)

UploadPlaces == {"put", "create", "undo", "created"}

RemovalPlaces == {"unblob", "unrow", "unrow2"}

\* No request will write the content or the row of i again.
Settled(i) == i \in used /\ ~At(i, {"put", "create"})

\* What the place of a request says about its call.
CallOK(h) ==
    /\ pc[h] = "idle" <=> call[h] = None
    /\ pc[h] # "idle" => call[h] \in Call
    /\ pc[h] \notin {"idle", "next"} => call[h].id \in Ids
    /\ pc[h] \in UploadPlaces =>
          call[h].op = "upload" /\ call[h].who \in Owners /\ call[h].id \in used
    /\ pc[h] = "find" => call[h].op \in {"read", "delete"}
    /\ pc[h] \in RemovalPlaces => call[h].op \in {"delete", "purge"}
    /\ pc[h] = "deleted" => call[h].op = "delete"

\* What it says about the stores.
StoresOK(h) ==
    /\ pc[h] = "create" => call[h].id \in blobs
    /\ pc[h] \in {"unrow", "unrow2"} => call[h].id \notin blobs
    /\ pc[h] = "undo" /\ rows[call[h].id] # None => <<"upload", call[h].id>> \in broken

RemovalOK(h) == pc[h] \in RemovalPlaces => Settled(call[h].id)

\* What a purge has to do: the rows that are left of what it found old.
PurgeOK(h) == pc[h] # "idle" =>
    /\ call[h].due \subseteq old
    /\ call[h].todo \subseteq old
    /\ \A i \in call[h].due : \/ rows[i] = None
                              \/ i \in call[h].todo
                              \/ pc[h] \in RemovalPlaces /\ call[h].id = i

\* An id is given out to one upload.
OneUpload ==
    \A g, h \in Handlers :
        (/\ pc[g] \in UploadPlaces /\ pc[h] \in UploadPlaces
         /\ call[g].id = call[h].id) => g = h

\* Rows, deleted attachments and old ones are the work of uploads that are over.
UploadsOver ==
    /\ \A i \in Ids : rows[i] # None => Settled(i)
    /\ \A i \in gone : Settled(i)
    /\ \A i \in old : ~At(i, UploadPlaces)
    /\ swept \subseteq old

\* The audit log accounts for a row from the moment it is created.
RemovalsAudited ==
    \A i \in Ids : (rows[i] = None /\ (<<"created", i>> \in audit \/ At(i, {"created"})))
        => \/ <<"deleted", i>> \in audit \/ At(i, {"deleted"})
           \/ i \in purged \/ <<"delete", i>> \in broken

AttachmentInv ==
    /\ HalvesAgree
    /\ DeletedIsGone
    /\ PurgeLeavesNothing
    /\ RemovalsAudited
    /\ UploadsOver
    /\ OneUpload
    /\ \A h \in Handlers : CallOK(h) /\ StoresOK(h) /\ RemovalOK(h) /\ PurgeOK(h)

-----------------------------------------------------------------------------
(* Frames *)

\* The other requests stay where they are.
Others(h) == \A g \in Handlers \ {h} : pc'[g] = pc[g] /\ call'[g] = call[g]

Moves(h, place, c) == pc'[h] = place /\ call'[h] = c /\ Others(h)

\* What moving on means, request by request.
LEMMA GotoMoves ==
    ASSUME TypeOK, NEW h \in Handlers, NEW place, Goto(h, place), call' = call
    PROVE  Moves(h, place, call[h])
BY DEF TypeOK, Goto, Moves, Others

\* Steps of one request, as the others see them.
LEMMA StepOthers ==
    ASSUME TypeOK, NEW h \in Handlers, Step(h)
    PROVE  Others(h)
<1> USE DEF TypeOK, Others, Goto, Done
<1>1. ASSUME Put(h) \/ Create(h) \/ CreateFails(h) \/ Undo(h) \/ AuditCreated(h) PROVE Others(h)
  BY <1>1 DEF Put, Create, CreateFails, Undo, AuditCreated
<1>2. ASSUME ScopedRecord(h) \/ Fetch(h) \/ DeleteBlob(h) PROVE Others(h)
  BY <1>2 DEF ScopedRecord, Fetch, DeleteBlob
<1>3. ASSUME DeleteRow(h) \/ DeleteRowLate(h) \/ AuditDeleted(h) PROVE Others(h)
  BY <1>3 DEF DeleteRow, DeleteRowLate, RowDeleted, AuditDeleted
<1>4. ASSUME PurgeNext(h) \/ PurgeReturns(h) \/ RequestFails(h) PROVE Others(h)
  BY <1>4 DEF PurgeNext, PurgeReturns, RequestFails
<1> QED  BY <1>1, <1>2, <1>3, <1>4 DEF Step

\* Which requests write what.
LEMMA Writers ==
    ASSUME Next
    PROVE  /\ rows' = rows \/ \E h \in Handlers : Create(h) \/ CreateFails(h) \/ DeleteRowLate(h)
           /\ blobs' = blobs \/ \E h \in Handlers : Put(h) \/ Undo(h) \/ DeleteBlob(h)
           /\ audit' = audit \/ \E h \in Handlers : AuditCreated(h) \/ AuditDeleted(h)
           /\ old' = old \/ \E i \in Ids : Expire(i)
           /\ gone' = gone \/ \E h \in Handlers : DeleteRow(h) \/ DeleteRowLate(h)
           /\ swept' = swept \/ \E h \in Handlers : PurgeReturns(h)
           /\ broken \subseteq broken' /\ purged \subseteq purged'
           /\ used \subseteq used' /\ old \subseteq old'
BY DEF Next, Step, Put, Create, CreateFails, Undo, AuditCreated, ScopedRecord, Fetch,
   DeleteBlob, DeleteRow, DeleteRowLate, RowDeleted, AuditDeleted, PurgeNext, PurgeReturns,
   RequestFails, Purge, Upload, Read, Delete, Expire, storeVars, clockVars, observers

\* A step is one of a single request, or time passing.
LEMMA WhoMoves ==
    ASSUME TypeOK, Next, NEW g \in Handlers
    PROVE  \/ pc'[g] = pc[g] /\ call'[g] = call[g]
           \/ Step(g) \/ Purge(g)
           \/ \E who \in Owners, i \in Ids : Upload(g, who, i) \/ Read(g, who, i) \/ Delete(g, who, i)
<1>1. ASSUME NEW h \in Handlers, Step(h), g # h PROVE pc'[g] = pc[g] /\ call'[g] = call[g]
  BY <1>1, StepOthers DEF Others
<1>2. ASSUME NEW h \in Handlers, Purge(h), g # h PROVE pc'[g] = pc[g] /\ call'[g] = call[g]
  BY <1>2 DEF Purge, Goto, TypeOK
<1>3. ASSUME NEW h \in Handlers, NEW who \in Owners, NEW i \in Ids, g # h,
             Upload(h, who, i) \/ Read(h, who, i) \/ Delete(h, who, i)
      PROVE  pc'[g] = pc[g] /\ call'[g] = call[g]
  BY <1>3 DEF Upload, Read, Delete, Begin, Goto, TypeOK
<1>4. ASSUME NEW i \in Ids, Expire(i) PROVE pc'[g] = pc[g] /\ call'[g] = call[g]
  BY <1>4 DEF Expire, requestVars
<1> QED  BY <1>1, <1>2, <1>3, <1>4 DEF Next

\* Uploads begin with an id of their own, and go on with it.
LEMMA UploadMoves ==
    ASSUME TypeOK, Next, NEW g \in Handlers, pc'[g] \in UploadPlaces
    PROVE  \/ /\ pc[g] \in UploadPlaces /\ call'[g] = call[g]
              /\ pc'[g] \in {"put", "create"} => pc[g] \in {"put", "create"}
           \/ call'[g].id \notin used /\ Others(g)
<1>1. CASE pc'[g] = pc[g] /\ call'[g] = call[g]
  BY <1>1
<1>2. CASE Step(g)
  BY <1>2 DEF Step, Put, Create, CreateFails, Undo, AuditCreated, ScopedRecord, Fetch,
     DeleteBlob, DeleteRow, DeleteRowLate, RowDeleted, AuditDeleted, PurgeNext, PurgeReturns,
     RequestFails, Goto, Done, TypeOK, UploadPlaces
<1>3. CASE Purge(g)
  BY <1>3 DEF Purge, Goto, TypeOK, UploadPlaces
<1>4. ASSUME NEW who \in Owners, NEW i \in Ids, Upload(g, who, i) \/ Read(g, who, i) \/ Delete(g, who, i)
      PROVE  call'[g].id \notin used /\ Others(g)
  BY <1>4 DEF Upload, Read, Delete, Begin, Goto, TypeOK, UploadPlaces, Others
<1> QED  BY <1>1, <1>2, <1>3, <1>4, WhoMoves

-----------------------------------------------------------------------------
(* Types and calls *)

LEMMA TypeStep ==
    ASSUME TypeOK, \A h \in Handlers : CallOK(h), Next
    PROVE  TypeOK'
<1> USE DEF TypeOK, CallOK, Call, Places, Operations, UploadPlaces, RemovalPlaces,
        Goto, Done, storeVars, clockVars, observers
<1>1. ASSUME NEW h \in Handlers, Put(h) PROVE TypeOK'
  BY <1>1 DEF Put
<1>2. ASSUME NEW h \in Handlers, Create(h) PROVE TypeOK'
  BY <1>2 DEF Create, InsertRow
<1>3. ASSUME NEW h \in Handlers, CreateFails(h) PROVE TypeOK'
  BY <1>3, BudgetAssumption DEF CreateFails, InsertRow
<1>4. ASSUME NEW h \in Handlers, Undo(h) \/ AuditCreated(h) PROVE TypeOK'
  BY <1>4 DEF Undo, AuditCreated
<1>5. ASSUME NEW h \in Handlers, ScopedRecord(h) \/ Fetch(h) \/ DeleteBlob(h) PROVE TypeOK'
  BY <1>5 DEF ScopedRecord, Fetch, DeleteBlob
<1>6. ASSUME NEW h \in Handlers, DeleteRow(h) PROVE TypeOK'
  BY <1>6 DEF DeleteRow, RowDeleted
<1>7. ASSUME NEW h \in Handlers, DeleteRowLate(h) PROVE TypeOK'
  BY <1>7 DEF DeleteRowLate, RemoveRow, RowDeleted
<1>8. ASSUME NEW h \in Handlers, AuditDeleted(h) PROVE TypeOK'
  BY <1>8 DEF AuditDeleted
<1>9. ASSUME NEW h \in Handlers, PurgeNext(h) PROVE TypeOK'
  BY <1>9 DEF PurgeNext
<1>10. ASSUME NEW h \in Handlers, PurgeReturns(h) PROVE TypeOK'
  BY <1>10 DEF PurgeReturns
<1>11. ASSUME NEW h \in Handlers, RequestFails(h) PROVE TypeOK'
  BY <1>11, BudgetAssumption DEF RequestFails
<1>12. ASSUME NEW h \in Handlers, Purge(h) PROVE TypeOK'
  BY <1>12 DEF Purge
<1>13. ASSUME NEW h \in Handlers, NEW who \in Owners, NEW i \in Ids,
              Upload(h, who, i) \/ Read(h, who, i) \/ Delete(h, who, i)
       PROVE  TypeOK'
  BY <1>13 DEF Upload, Read, Delete, Begin
<1>14. ASSUME NEW i \in Ids, Expire(i) PROVE TypeOK'
  BY <1>14 DEF Expire, requestVars
<1> QED
  BY <1>1, <1>2, <1>3, <1>4, <1>5, <1>6, <1>7, <1>8, <1>9, <1>10, <1>11, <1>12, <1>13, <1>14
  DEF Next, Step

LEMMA CallStep ==
    ASSUME TypeOK, Next, NEW g \in Handlers, CallOK(g)
    PROVE  CallOK(g)'
<1> USE NoneAssumption DEF TypeOK, CallOK, Call, Operations, UploadPlaces, RemovalPlaces, Goto, Done
<1>1. CASE pc'[g] = pc[g] /\ call'[g] = call[g]
  BY <1>1, Writers
<1>2. CASE Put(g) \/ Create(g) \/ CreateFails(g) \/ Undo(g) \/ AuditCreated(g)
  BY <1>2, Writers DEF Put, Create, CreateFails, Undo, AuditCreated
<1>3. CASE ScopedRecord(g) \/ Fetch(g) \/ DeleteBlob(g) \/ AuditDeleted(g)
  BY <1>3 DEF ScopedRecord, Fetch, DeleteBlob, AuditDeleted
<1>4. CASE DeleteRow(g) \/ DeleteRowLate(g)
  BY <1>4 DEF DeleteRow, DeleteRowLate, RowDeleted, observers
<1>5. CASE Purge(g) \/ PurgeReturns(g)
  BY <1>5 DEF Purge, PurgeReturns
<1>6. CASE RequestFails(g)
  BY <1>6 DEF RequestFails
<1>7. ASSUME NEW who \in Owners, NEW i \in Ids, Upload(g, who, i) \/ Read(g, who, i) \/ Delete(g, who, i)
      PROVE  CallOK(g)'
  BY <1>7 DEF Upload, Read, Delete, Begin
<1>8. CASE PurgeNext(g)
  BY <1>8 DEF PurgeNext
<1> QED  BY <1>1, <1>2, <1>3, <1>4, <1>5, <1>6, <1>7, <1>8, WhoMoves DEF Step

\* Once no upload will write i, none ever will.
LEMMA SettledStep ==
    ASSUME TypeOK, Next, NEW j \in Ids, Settled(j)
    PROVE  Settled(j)'
BY UploadMoves, Writers DEF Settled, At, UploadPlaces

\* Ids are used once.
LEMMA OneUploadStep ==
    ASSUME AttachmentInv, Next
    PROVE  OneUpload'
<1> USE DEF AttachmentInv, HalvesAgree
<1> SUFFICES ASSUME NEW g \in Handlers, NEW h \in Handlers, g # h,
                    pc'[g] \in UploadPlaces, pc'[h] \in UploadPlaces,
                    call'[g].id = call'[h].id
             PROVE  FALSE
  BY DEF OneUpload
<1>1. CASE call'[g].id \notin used /\ Others(g)
  BY <1>1 DEF Others, CallOK
<1>2. CASE call'[h].id \notin used /\ Others(h)
  BY <1>2 DEF Others, CallOK
<1> QED  BY <1>1, <1>2, UploadMoves DEF OneUpload

\* What a delete or a purge has in hand was written before.
LEMMA RemovalStep ==
    ASSUME AttachmentInv, Next, NEW g \in Handlers
    PROVE  RemovalOK(g)'
<1> SUFFICES ASSUME pc'[g] \in RemovalPlaces
             PROVE  Settled(call[g].id)'
  BY DEF RemovalOK
<1>0. TypeOK /\ \A h \in Handlers : CallOK(h)
  BY DEF AttachmentInv, HalvesAgree
<1>1. \A j \in Ids : Settled(j) => Settled(j)'
  BY <1>0, SettledStep
<1>2. call'[g].id \in Ids
  BY <1>0, CallStep DEF CallOK, RemovalPlaces
<1>3. CASE pc[g] \in RemovalPlaces /\ call'[g] = call[g]
  <2>1. Settled(call[g].id)
    BY <1>3 DEF AttachmentInv, RemovalOK
  <2>2. Settled(call'[g].id)
    BY <1>3, <2>1
  <2>3. PICK j \in Ids : j = call'[g].id
    BY <1>2
  <2> QED  BY <1>1, <2>2, <2>3 DEF Settled, At
<1>4. CASE ScopedRecord(g)
  <2>1. call'[g] = call[g] /\ rows[call[g].id] # None
    BY <1>0, <1>4 DEF ScopedRecord, Visible, Goto, Done, RemovalPlaces, TypeOK
  <2>2. PICK j \in Ids : j = call'[g].id
    BY <1>2
  <2>3. Settled(j)
    BY <2>1, <2>2 DEF AttachmentInv, UploadsOver
  <2> QED  BY <1>1, <2>2, <2>3 DEF Settled, At
<1>5. CASE PurgeNext(g)
  <2>1. call'[g].id \in call[g].todo
    BY <1>0, <1>5 DEF PurgeNext, TypeOK, CallOK, Call
  <2>2. PICK j \in Ids : j = call'[g].id
    BY <1>2
  <2>3. Settled(j)
    BY <1>0, <1>5, <2>1, <2>2
    DEF AttachmentInv, PurgeOK, PurgeNext, UploadsOver, Settled, At, UploadPlaces, TypeOK
  <2> QED  BY <1>1, <2>2, <2>3 DEF Settled, At
<1>6. ASSUME ~(pc[g] \in RemovalPlaces /\ call'[g] = call[g]), ~ScopedRecord(g), ~PurgeNext(g)
      PROVE  FALSE
  <2> USE <1>0, <1>6 DEF TypeOK, RemovalPlaces, Goto, Done, Begin
  <2>1. Step(g) => FALSE
    BY DEF Step, Put, Create, CreateFails, Undo, AuditCreated, Fetch, DeleteBlob, DeleteRow,
       RowDeleted, DeleteRowLate, AuditDeleted, PurgeReturns, RequestFails, observers
  <2>2. Purge(g) => FALSE
    BY DEF Purge
  <2>3. \A who \in Owners, i \in Ids : ~Upload(g, who, i) /\ ~Read(g, who, i) /\ ~Delete(g, who, i)
    BY DEF Upload, Read, Delete
  <2> QED  BY <2>1, <2>2, <2>3, WhoMoves
<1> QED  BY <1>3, <1>4, <1>5, <1>6

\* Rows that disappear do not disturb the requests that stay where they are.
LEMMA StoresKept ==
    ASSUME NEW g \in Handlers, StoresOK(g), CallOK(g), pc'[g] = pc[g], call'[g] = call[g],
           blobs' = blobs, broken' = broken,
           \A i \in Ids : rows'[i] # None => rows'[i] = rows[i]
    PROVE  StoresOK(g)'
BY DEF StoresOK, CallOK

\* Neither does a row that another upload writes.
LEMMA StoresOther ==
    ASSUME NEW g \in Handlers, StoresOK(g), CallOK(g), pc'[g] = pc[g], call'[g] = call[g],
           blobs' = blobs, broken \subseteq broken',
           NEW own, pc[g] = "undo" => call[g].id # own,
           \A i \in Ids : i # own => rows'[i] = rows[i],
           pc[g] = "undo" => call[g].id \in Ids
    PROVE  StoresOK(g)'
BY DEF StoresOK

\* An upload finds its content where it put it, a removal does not find any,
\* and a row that an upload leaves behind is on record as broken.
LEMMA StoresStep ==
    ASSUME AttachmentInv, Next, NEW g \in Handlers
    PROVE  StoresOK(g)'
<1> USE NoneAssumption DEF AttachmentInv, HalvesAgree, TypeOK, CallOK, Call, UploadPlaces, RemovalPlaces,
        Goto, Done, storeVars, clockVars, observers, StoresOK, OneUpload, RemovalOK, Settled, At
<1>1. ASSUME NEW h \in Handlers, Put(h) PROVE StoresOK(g)'
  BY <1>1 DEF Put
<1>2. ASSUME NEW h \in Handlers, Create(h) PROVE StoresOK(g)'
  <2>1. Moves(h, "created", call[h]) /\ blobs' = blobs /\ broken' = broken
    BY <1>2, GotoMoves DEF Create
  <2>2. \A i \in Ids : i # call[h].id => rows'[i] = rows[i]
    BY <1>2 DEF Create, InsertRow
  <2>3. CASE g = h
    BY <2>1, <2>3 DEF Moves
  <2>4. CASE g # h
    <3>1. pc'[g] = pc[g] /\ call'[g] = call[g]
      BY <2>1, <2>4 DEF Moves, Others
    <3>2. pc[g] = "undo" => call[g].id # call[h].id
      BY <1>2, <2>4 DEF Create
    <3>3. /\ StoresOK(g) /\ CallOK(g)
          /\ pc[g] = "undo" => call[g].id \in Ids
      OBVIOUS
    <3> HIDE DEF AttachmentInv, StoresOK, CallOK
    <3> QED  BY <2>1, <2>2, <3>1, <3>2, <3>3, StoresOther
  <2> QED  BY <2>3, <2>4
<1>3. ASSUME NEW h \in Handlers, CreateFails(h) PROVE StoresOK(g)'
  <2>1. Moves(h, "undo", call[h]) /\ blobs' = blobs /\ broken \subseteq broken'
    BY <1>3, GotoMoves DEF CreateFails
  <2>2. \A i \in Ids : i # call[h].id => rows'[i] = rows[i]
    BY <1>3 DEF CreateFails, InsertRow
  <2>3. CASE g = h
    <3>1. rows[call[h].id] = None
      BY <1>3, ZenonT(30) DEF CreateFails, UploadsOver
    <3>2. rows'[call[h].id] # None => <<"upload", call[h].id>> \in broken'
      BY <1>3, <3>1 DEF CreateFails
    <3> QED  BY <2>1, <2>3, <3>2 DEF Moves
  <2>4. CASE g # h
    <3>1. pc'[g] = pc[g] /\ call'[g] = call[g]
      BY <2>1, <2>4 DEF Moves, Others
    <3>2. pc[g] = "undo" => call[g].id # call[h].id
      BY <1>3, <2>4 DEF CreateFails
    <3>3. /\ StoresOK(g) /\ CallOK(g)
          /\ pc[g] = "undo" => call[g].id \in Ids
      OBVIOUS
    <3> HIDE DEF AttachmentInv, StoresOK, CallOK
    <3> QED  BY <2>1, <2>2, <3>1, <3>2, <3>3, StoresOther
  <2> QED  BY <2>3, <2>4
<1>4. ASSUME NEW h \in Handlers, Undo(h) PROVE StoresOK(g)'
  BY <1>4 DEF Undo
<1>5. ASSUME NEW h \in Handlers, AuditCreated(h) PROVE StoresOK(g)'
  BY <1>5 DEF AuditCreated
<1>6. ASSUME NEW h \in Handlers, ScopedRecord(h) PROVE StoresOK(g)'
  BY <1>6, SMTT(40) DEF ScopedRecord, Visible
<1>7. ASSUME NEW h \in Handlers, Fetch(h) PROVE StoresOK(g)'
  BY <1>7 DEF Fetch
<1>8. ASSUME NEW h \in Handlers, DeleteBlob(h) PROVE StoresOK(g)'
  BY <1>8 DEF DeleteBlob
<1>9. ASSUME NEW h \in Handlers, DeleteRow(h) PROVE StoresOK(g)'
  <2>1. /\ blobs' = blobs /\ broken' = broken
        /\ \A i \in Ids : rows'[i] # None => rows'[i] = rows[i]
    BY <1>9 DEF DeleteRow, RowDeleted
  <2>2. CASE g = h
    <3>1. pc'[g] = "unrow2" => pc[g] = "unrow" /\ call'[g] = call[g]
      BY <1>9, <2>2 DEF DeleteRow, RowDeleted
    <3>2. pc'[g] \notin {"create", "undo", "unrow"}
      BY <1>9, <2>2 DEF DeleteRow, RowDeleted
    <3> QED  BY <2>1, <3>1, <3>2
  <2>3. CASE g # h
    <3>1. pc'[g] = pc[g] /\ call'[g] = call[g]
      BY <1>9, <2>3, StepOthers DEF Others, Step
    <3>2. StoresOK(g) /\ CallOK(g)
      OBVIOUS
    <3> QED  BY <2>1, <3>1, <3>2, StoresKept
  <2> QED  BY <2>2, <2>3
<1>10. ASSUME NEW h \in Handlers, DeleteRowLate(h) PROVE StoresOK(g)'
  <2>1. /\ blobs' = blobs /\ broken' = broken
        /\ \A i \in Ids : rows'[i] # None => rows'[i] = rows[i]
    BY <1>10 DEF DeleteRowLate, RemoveRow, RowDeleted
  <2>2. CASE g = h
    <3>1. pc'[g] = "unrow2" => pc[g] = "unrow" /\ call'[g] = call[g]
      BY <1>10, <2>2 DEF DeleteRowLate, RowDeleted
    <3>2. pc'[g] \notin {"create", "undo", "unrow"}
      BY <1>10, <2>2 DEF DeleteRowLate, RowDeleted
    <3> QED  BY <2>1, <3>1, <3>2
  <2>3. CASE g # h
    <3>1. pc'[g] = pc[g] /\ call'[g] = call[g]
      BY <1>10, <2>3, StepOthers DEF Others, Step
    <3>2. StoresOK(g) /\ CallOK(g)
      OBVIOUS
    <3> QED  BY <2>1, <3>1, <3>2, StoresKept
  <2> QED  BY <2>2, <2>3
<1>11. ASSUME NEW h \in Handlers, AuditDeleted(h) PROVE StoresOK(g)'
  BY <1>11 DEF AuditDeleted
<1>12. ASSUME NEW h \in Handlers, PurgeNext(h) PROVE StoresOK(g)'
  BY <1>12, ZenonT(30) DEF PurgeNext
<1>13. ASSUME NEW h \in Handlers, PurgeReturns(h) PROVE StoresOK(g)'
  BY <1>13 DEF PurgeReturns
<1>14. ASSUME NEW h \in Handlers, RequestFails(h) PROVE StoresOK(g)'
  BY <1>14 DEF RequestFails
<1>15. ASSUME NEW h \in Handlers, Purge(h) PROVE StoresOK(g)'
  BY <1>15 DEF Purge
<1>16. ASSUME NEW h \in Handlers, NEW who \in Owners, NEW i \in Ids, Upload(h, who, i) PROVE StoresOK(g)'
  BY <1>16 DEF Upload, Begin
<1>17. ASSUME NEW h \in Handlers, NEW who \in Owners, NEW i \in Ids, Read(h, who, i) PROVE StoresOK(g)'
  BY <1>17 DEF Read, Begin
<1>18. ASSUME NEW h \in Handlers, NEW who \in Owners, NEW i \in Ids, Delete(h, who, i) PROVE StoresOK(g)'
  BY <1>18 DEF Delete, Begin
<1>19. ASSUME NEW i \in Ids, Expire(i) PROVE StoresOK(g)'
  BY <1>19 DEF Expire, requestVars
<1> QED
  BY <1>1, <1>2, <1>3, <1>4, <1>5, <1>6, <1>7, <1>8, <1>9, <1>10, <1>11, <1>12, <1>13, <1>14, <1>15, <1>16, <1>17, <1>18, <1>19
  DEF Next, Step

\* The row of an old attachment does not come back.
LEMMA OldRowStep ==
    ASSUME AttachmentInv, Next, NEW j \in Ids, j \in old, rows[j] = None
    PROVE  rows'[j] = None
<1> USE DEF AttachmentInv, HalvesAgree, TypeOK
<1>1. ASSUME NEW h \in Handlers, Create(h) \/ CreateFails(h) PROVE rows'[j] = rows[j]
  BY <1>1 DEF Create, CreateFails, InsertRow, UploadsOver, At, UploadPlaces
<1>2. ASSUME NEW h \in Handlers, DeleteRowLate(h) PROVE rows'[j] = None
  BY <1>2 DEF DeleteRowLate, RemoveRow
<1> QED  BY <1>1, <1>2, Writers

\* A purge has dealt with what it found, or has it before it.
LEMMA PurgeStep ==
    ASSUME AttachmentInv, Next, NEW g \in Handlers
    PROVE  PurgeOK(g)'
<1> USE DEF AttachmentInv, HalvesAgree
<1>0. TypeOK /\ CallOK(g) /\ PurgeOK(g) /\ old \subseteq old'
  <2>1. old \subseteq old'
    BY DEF Next, Step, Put, Create, CreateFails, Undo, AuditCreated, ScopedRecord, Fetch,
       DeleteBlob, DeleteRow, DeleteRowLate, AuditDeleted, PurgeNext, PurgeReturns, RequestFails,
       Purge, Upload, Read, Delete, Expire, clockVars
  <2> QED  BY <2>1
<1>1. \A i \in old : rows[i] = None => rows'[i] = None
  BY OldRowStep DEF TypeOK
<1>2. CASE pc'[g] = pc[g] /\ call'[g] = call[g]
  BY <1>0, <1>1, <1>2 DEF PurgeOK
<1>3. CASE PurgeNext(g)
  <2>1. PICK i \in call[g].todo : call' = [call EXCEPT ![g].id = i, ![g].todo = @ \ {i}]
    BY <1>3 DEF PurgeNext
  <2>2. /\ call'[g].due = call[g].due /\ call'[g].id = i
        /\ call'[g].todo = call[g].todo \ {i}
        /\ pc[g] = "next" /\ pc'[g] = "unblob" /\ rows' = rows
    BY <1>0, <1>3, <2>1 DEF PurgeNext, TypeOK, CallOK, Call, Goto, storeVars
  <2> QED  BY <1>0, <1>1, <2>2 DEF PurgeOK, RemovalPlaces
<1>4. CASE Purge(g)
  <2>1. /\ call'[g].due = old /\ call'[g].todo = {i \in old : rows[i] # None}
        /\ pc'[g] # "idle" /\ rows' = rows
    BY <1>0, <1>4 DEF Purge, TypeOK, Goto, storeVars
  <2> QED  BY <1>0, <2>1 DEF PurgeOK
<1>5. ASSUME NEW who \in Owners, NEW i \in Ids, Upload(g, who, i) \/ Read(g, who, i) \/ Delete(g, who, i)
      PROVE  PurgeOK(g)'
  <2>1. call'[g].due = {} /\ call'[g].todo = {}
    BY <1>0, <1>5 DEF Upload, Read, Delete, Begin, TypeOK
  <2> QED  BY <2>1 DEF PurgeOK
<1>6. CASE DeleteRow(g) \/ DeleteRowLate(g)
  <2>1. rows'[call[g].id] = None \/ pc'[g] = "unrow2"
    BY <1>0, <1>6 DEF DeleteRow, DeleteRowLate, RowDeleted, RemoveRow, Goto, TypeOK, CallOK
  <2>2. pc'[g] # "idle" => call'[g] = call[g]
    BY <1>0, <1>6 DEF DeleteRow, DeleteRowLate, RowDeleted, RemoveRow, Goto, Done, TypeOK
  <2>3. pc[g] # "idle"
    BY <1>6 DEF DeleteRow, DeleteRowLate
  <2> QED  BY <1>0, <1>1, <2>1, <2>2, <2>3 DEF PurgeOK, RemovalPlaces
<1>7. ASSUME Step(g), ~PurgeNext(g), ~DeleteRow(g), ~DeleteRowLate(g)
      PROVE  PurgeOK(g)'
  <2>1. /\ pc'[g] # "idle" => call'[g] = call[g]
        /\ pc[g] # "idle"
        /\ pc[g] \in RemovalPlaces => pc'[g] \in RemovalPlaces \cup {"idle"}
    BY <1>0, <1>7 DEF Step, Put, Create, CreateFails, Undo, AuditCreated, ScopedRecord, Fetch,
       DeleteBlob, AuditDeleted, PurgeReturns, RequestFails, Goto, Done, TypeOK, RemovalPlaces
  <2> QED  BY <1>0, <1>1, <2>1 DEF PurgeOK
<1> QED  BY <1>2, <1>3, <1>4, <1>5, <1>6, <1>7, WhoMoves

-----------------------------------------------------------------------------
(* The stores and the observers *)

\* A row is written by the upload of its id, which is over with it.
LEMMA RowStep ==
    ASSUME AttachmentInv, Next, NEW j \in Ids, rows'[j] # None
    PROVE  Settled(j)'
<1> USE DEF AttachmentInv, HalvesAgree
<1>1. CASE rows[j] # None
  BY <1>1, SettledStep DEF UploadsOver
<1>2. ASSUME NEW h \in Handlers, Create(h) \/ CreateFails(h), rows[j] = None
      PROVE  Settled(j)'
  <2>1. j = call[h].id /\ pc[h] = "create"
    BY <1>2 DEF Create, CreateFails, InsertRow, TypeOK
  <2>2. Others(h) /\ pc'[h] \notin {"put", "create"} /\ used' = used
    BY <1>2, StepOthers DEF Step, Create, CreateFails, Goto, TypeOK, clockVars
  <2>3. \A g \in Handlers \ {h} : ~(pc[g] \in {"put", "create"} /\ call[g].id = j)
    BY <2>1 DEF OneUpload, UploadPlaces
  <2>4. j \in used
    BY <2>1 DEF CallOK, UploadPlaces
  <2> QED  BY <2>2, <2>3, <2>4 DEF Settled, At, Others
<1>3. ASSUME NEW h \in Handlers, DeleteRowLate(h) PROVE rows[j] # None
  BY <1>3 DEF DeleteRowLate, RemoveRow, TypeOK
<1> QED  BY <1>1, <1>2, <1>3, Writers

\* What has been dealt with had no content left, and has no row.
LEMMA GoneStep ==
    ASSUME AttachmentInv, Next, NEW j \in gone'
    PROVE  Settled(j) /\ j \notin blobs /\ rows'[j] = None
<1> USE DEF AttachmentInv, HalvesAgree
<1>1. CASE j \in gone
  <2>1. j \in Ids /\ Settled(j) /\ j \notin blobs /\ rows[j] = None
    BY <1>1 DEF UploadsOver, DeletedIsGone, TypeOK
  <2>2. ASSUME NEW h \in Handlers, Create(h) \/ CreateFails(h) PROVE rows'[j] = rows[j]
    BY <2>1, <2>2 DEF Create, CreateFails, InsertRow, TypeOK, Settled, At
  <2>3. ASSUME NEW h \in Handlers, DeleteRowLate(h) PROVE rows'[j] = None
    BY <2>1, <2>3 DEF DeleteRowLate, RemoveRow, TypeOK
  <2> QED  BY <2>1, <2>2, <2>3, Writers
<1>2. ASSUME NEW h \in Handlers, DeleteRow(h) \/ DeleteRowLate(h), j \notin gone
      PROVE  Settled(j) /\ j \notin blobs /\ rows'[j] = None
  <2>1. j = call[h].id /\ pc[h] \in {"unrow", "unrow2"}
    BY <1>2 DEF DeleteRow, DeleteRowLate, RowDeleted, observers
  <2>2. Settled(j) /\ j \notin blobs
    BY <2>1 DEF RemovalOK, StoresOK, RemovalPlaces
  <2>3. j \in Ids
    BY <2>1 DEF CallOK
  <2>4. rows'[j] = None
    BY <1>2, <2>1, <2>3 DEF DeleteRow, DeleteRowLate, RowDeleted, RemoveRow, observers, TypeOK
  <2> QED  BY <2>2, <2>4
<1> QED  BY <1>1, <1>2, Writers

\* Content is put by the upload of its id.
LEMMA BlobStep ==
    ASSUME AttachmentInv, Next, NEW j \in blobs'
    PROVE  j \in blobs \/ (~Settled(j) /\ At(j, {"create"})')
<1>1. ASSUME NEW h \in Handlers, Put(h), j \notin blobs
      PROVE  ~Settled(j) /\ At(j, {"create"})'
  <2>1. pc[h] = "put" /\ call[h].id = j /\ pc'[h] = "create" /\ call'[h] = call[h]
    BY <1>1 DEF Put, Goto, AttachmentInv, HalvesAgree, TypeOK
  <2> QED  BY <2>1 DEF Settled, At
<1>2. ASSUME NEW h \in Handlers, Undo(h) \/ DeleteBlob(h) PROVE j \in blobs
  BY <1>2 DEF Undo, DeleteBlob
<1> QED  BY <1>1, <1>2, Writers

\* The upload of an old attachment is over, and stays so.
LEMMA OldStep ==
    ASSUME AttachmentInv, Next, NEW j \in old'
    PROVE  ~At(j, UploadPlaces)'
<1> USE DEF AttachmentInv, HalvesAgree
<1>1. CASE j \in old
  BY <1>1, UploadMoves DEF UploadsOver, At, TypeOK
<1>2. ASSUME NEW i \in Ids, Expire(i), j \notin old PROVE ~At(j, UploadPlaces)'
  BY <1>2 DEF Expire, requestVars, CallOK, UploadPlaces, At
<1> QED  BY <1>1, <1>2, Writers

LEMMA UploadsOverStep ==
    ASSUME AttachmentInv, Next
    PROVE  UploadsOver'
<1>1. TypeOK' /\ TypeOK /\ \A h \in Handlers : CallOK(h)
  BY TypeStep DEF AttachmentInv, HalvesAgree
<1>2. \A i \in gone' : Settled(i)'
  BY <1>1, GoneStep, SettledStep DEF TypeOK
<1>3. swept' \subseteq old'
  BY Writers DEF PurgeReturns, AttachmentInv, UploadsOver, PurgeOK
<1> QED  BY <1>2, <1>3, RowStep, OldStep DEF UploadsOver

LEMMA DeletedIsGoneStep ==
    ASSUME AttachmentInv, Next
    PROVE  DeletedIsGone'
BY GoneStep, BlobStep DEF DeletedIsGone

\* A request at one of the places where it answers for what it has done half
\* stays there, finishes, or fails.
LEMMA HalfStep ==
    ASSUME AttachmentInv, Next, NEW g \in Handlers
    PROVE  /\ pc[g] \in {"create", "undo"} =>
                \/ Create(g) \/ Undo(g)
                \/ pc'[g] \in {"create", "undo"} /\ call'[g] = call[g]
                \/ <<"upload", call[g].id>> \in broken'
           /\ pc[g] \in {"unrow", "unrow2"} =>
                \/ DeleteRow(g) \/ DeleteRowLate(g)
                \/ pc'[g] = pc[g] /\ call'[g] = call[g]
                \/ <<call[g].op, call[g].id>> \in broken' /\ call[g].op \in Operations
           /\ pc[g] = "deleted" =>
                \/ AuditDeleted(g)
                \/ pc'[g] = pc[g] /\ call'[g] = call[g]
                \/ <<"delete", call[g].id>> \in broken'
<1> USE DEF AttachmentInv, HalvesAgree, TypeOK, CallOK
<1>1. CASE pc'[g] = pc[g] /\ call'[g] = call[g]
  BY <1>1
<1>2. CASE Step(g)
  BY <1>2 DEF Step, Put, Create, CreateFails, Undo, AuditCreated, ScopedRecord, Fetch,
       DeleteBlob, DeleteRow, DeleteRowLate, RowDeleted, AuditDeleted, PurgeNext, PurgeReturns,
       RequestFails, Goto, Done, UploadPlaces, RemovalPlaces, Operations
<1>3. CASE Purge(g) \/ \E who \in Owners, i \in Ids :
                           Upload(g, who, i) \/ Read(g, who, i) \/ Delete(g, who, i)
  BY <1>3 DEF Purge, Upload, Read, Delete, Begin
<1> QED  BY <1>1, <1>2, <1>3, WhoMoves

\* Content without a row.
LEMMA BlobsExplained ==
    ASSUME AttachmentInv, Next, NEW j \in blobs', rows'[j] = None
    PROVE  At(j, {"create", "undo"})' \/ <<"upload", j>> \in broken'
<1> USE DEF AttachmentInv, HalvesAgree
<1>1. CASE j \notin blobs
  BY <1>1, BlobStep DEF At
<1>2. CASE j \in blobs /\ rows[j] # None
  <2>1. ASSUME NEW h \in Handlers, Create(h) \/ CreateFails(h) PROVE FALSE
    BY <1>2, <2>1, NoneAssumption
    DEF Create, CreateFails, InsertRow, TypeOK, CallOK, UploadPlaces
  <2>2. ASSUME NEW h \in Handlers, DeleteRowLate(h) PROVE FALSE
    BY <1>2, <2>2, ZenonT(40) DEF DeleteRowLate, RemoveRow, StoresOK, TypeOK
  <2> QED  BY <1>2, <2>1, <2>2, Writers
<1>3. ASSUME j \in blobs, rows[j] = None, <<"upload", j>> \notin broken'
      PROVE  At(j, {"create", "undo"})'
  <2>1. PICK g \in Handlers : pc[g] \in {"create", "undo"} /\ call[g].id = j
    BY <1>3, Writers DEF At
  <2>2. ~Create(g)
    BY <2>1, NoneAssumption DEF Create, InsertRow, TypeOK, CallOK, UploadPlaces
  <2>3. ~Undo(g)
    BY <2>1 DEF Undo
  <2>4. pc'[g] \in {"create", "undo"} /\ call'[g] = call[g]
    BY <1>3, <2>1, <2>2, <2>3, HalfStep
  <2> QED  BY <2>1, <2>4 DEF At
<1> QED  BY <1>1, <1>2, <1>3

\* A row without content.
LEMMA RowsExplained ==
    ASSUME AttachmentInv, Next, NEW j \in Ids, rows'[j] # None, j \notin blobs'
    PROVE  At(j, {"unrow", "unrow2"})' \/ \E op \in Operations : <<op, j>> \in broken'
<1> USE DEF AttachmentInv, HalvesAgree
<1>1. CASE rows[j] = None
  <2>1. ASSUME NEW h \in Handlers, Create(h) PROVE FALSE
    BY <1>1, <2>1 DEF Create, InsertRow, TypeOK, StoresOK
  <2>2. ASSUME NEW h \in Handlers, CreateFails(h) PROVE <<"upload", j>> \in broken'
    BY <1>1, <2>2 DEF CreateFails, InsertRow, TypeOK
  <2>3. ASSUME NEW h \in Handlers, DeleteRowLate(h) PROVE FALSE
    BY <1>1, <2>3 DEF DeleteRowLate, RemoveRow, TypeOK
  <2> QED  BY <1>1, <2>1, <2>2, <2>3, Writers DEF Operations
<1>2. CASE rows[j] # None /\ j \in blobs
  <2>1. ASSUME NEW h \in Handlers, Put(h) PROVE FALSE
    BY <1>2, <2>1 DEF Put
  <2>2. ASSUME NEW h \in Handlers, Undo(h) PROVE <<"upload", j>> \in broken'
    BY <1>2, <2>2, Writers DEF Undo, StoresOK
  <2>3. ASSUME NEW h \in Handlers, DeleteBlob(h) PROVE At(j, {"unrow", "unrow2"})'
    <3>1. call[h].id = j /\ pc'[h] = "unrow" /\ call'[h] = call[h]
      BY <1>2, <2>3 DEF DeleteBlob, Goto, TypeOK
    <3> QED  BY <3>1 DEF At
  <2> QED  BY <1>2, <2>1, <2>2, <2>3, Writers DEF Operations
<1>3. ASSUME rows[j] # None, j \notin blobs, \A op \in Operations : <<op, j>> \notin broken'
      PROVE  At(j, {"unrow", "unrow2"})'
  <2>1. PICK g \in Handlers : pc[g] \in {"unrow", "unrow2"} /\ call[g].id = j
    BY <1>3, Writers DEF At
  <2>2. ~DeleteRowLate(g)
    BY <2>1 DEF DeleteRowLate, RemoveRow, TypeOK
  <2>3. DeleteRow(g) => pc'[g] = "unrow2" /\ call'[g] = call[g]
    BY <1>3, <2>1 DEF DeleteRow, Goto, TypeOK
  <2>4. pc'[g] \in {"unrow", "unrow2"} /\ call'[g] = call[g]
    BY <1>3, <2>1, <2>2, <2>3, HalfStep
  <2> QED  BY <2>1, <2>4 DEF At
<1> QED  BY <1>1, <1>2, <1>3

LEMMA HalvesAgreeStep ==
    ASSUME AttachmentInv, Next
    PROVE  HalvesAgree'
<1>1. TypeOK'
  BY TypeStep DEF AttachmentInv, HalvesAgree
<1> QED  BY <1>1, BlobsExplained, RowsExplained DEF HalvesAgree

\* Nothing is left of what a purge has returned about.
LEMMA PurgeLeavesNothingStep ==
    ASSUME AttachmentInv, Next
    PROVE  PurgeLeavesNothing'
<1> SUFFICES ASSUME NEW j \in swept'
             PROVE  rows'[j] = None /\ (j \in blobs' => <<"upload", j>> \in broken')
  BY DEF PurgeLeavesNothing
<1>1. rows'[j] = None
  <2>1. CASE j \in swept
    BY <2>1, OldRowStep DEF AttachmentInv, PurgeLeavesNothing, UploadsOver, HalvesAgree, TypeOK
  <2>2. ASSUME NEW h \in Handlers, PurgeReturns(h), j \notin swept PROVE rows'[j] = None
    BY <2>2 DEF PurgeReturns, AttachmentInv, PurgeOK, RemovalPlaces, storeVars
  <2> QED  BY <2>1, <2>2, Writers
<1>2. ~At(j, UploadPlaces)'
  BY UploadsOverStep, OldStep DEF UploadsOver
<1>3. ~At(j, {"create", "undo"})'
  BY <1>2 DEF At, UploadPlaces
<1> QED  BY <1>1, <1>3, BlobsExplained

\* A row that a delete removes gets its event, unless the delete fails.
LEMMA RemovalsAuditedStep ==
    ASSUME AttachmentInv, Next
    PROVE  RemovalsAudited'
<1> USE DEF AttachmentInv, HalvesAgree
<1> SUFFICES ASSUME NEW j \in Ids, rows'[j] = None,
                    <<"created", j>> \in audit' \/ At(j, {"created"})'
             PROVE  \/ <<"deleted", j>> \in audit' \/ At(j, {"deleted"})'
                    \/ j \in purged' \/ <<"delete", j>> \in broken'
  BY DEF RemovalsAudited
<1>1. <<"created", j>> \in audit \/ At(j, {"created"})
  <2>1. ASSUME NEW h \in Handlers, AuditCreated(h), <<"created", j>> \in audit', <<"created", j>> \notin audit
        PROVE  At(j, {"created"})
    BY <2>1 DEF AuditCreated, At
  <2>2. ASSUME NEW h \in Handlers, AuditDeleted(h), <<"created", j>> \in audit'
        PROVE  <<"created", j>> \in audit
    BY <2>2 DEF AuditDeleted
  <2>3. ASSUME NEW g \in Handlers, pc'[g] = "created", call'[g].id = j
        PROVE  At(j, {"created"})
    <3>1. CASE pc'[g] = pc[g] /\ call'[g] = call[g]
      BY <2>3, <3>1 DEF At
    <3>2. ~Create(g)
      BY <2>3, NoneAssumption DEF Create, InsertRow, Goto, TypeOK, CallOK, UploadPlaces
    <3>3. ~Step(g)
      BY <2>3, <3>2 DEF Step, Put, CreateFails, Undo, AuditCreated, ScopedRecord, Fetch,
         DeleteBlob, DeleteRow, DeleteRowLate, RowDeleted, AuditDeleted, PurgeNext, PurgeReturns,
         RequestFails, Goto, Done, TypeOK, observers
    <3>4. ~Purge(g) /\ \A who \in Owners, i \in Ids :
                          ~Upload(g, who, i) /\ ~Read(g, who, i) /\ ~Delete(g, who, i)
      BY <2>3 DEF Purge, Upload, Read, Delete, Begin, Goto, TypeOK
    <3> QED  BY <3>1, <3>3, <3>4, WhoMoves
  <2> QED  BY <2>1, <2>2, <2>3, Writers DEF At
<1>2. CASE rows[j] # None
  <2>1. ASSUME NEW h \in Handlers, Create(h) \/ CreateFails(h) PROVE FALSE
    BY <1>2, <2>1, NoneAssumption
    DEF Create, CreateFails, InsertRow, TypeOK, CallOK, UploadPlaces
  <2>2. ASSUME NEW h \in Handlers, DeleteRowLate(h) PROVE j \in purged' \/ At(j, {"deleted"})'
    <3>1. call[h].id = j
      BY <1>2, <2>2 DEF DeleteRowLate, RemoveRow, TypeOK
    <3>2. j \in purged' \/ (pc'[h] = "deleted" /\ call'[h] = call[h])
      BY <2>2, <3>1 DEF DeleteRowLate, RowDeleted, Goto, TypeOK
    <3> QED  BY <3>1, <3>2 DEF At
  <2> QED  BY <1>2, <2>1, <2>2, Writers
<1>3. CASE rows[j] = None
  <2>1. audit \subseteq audit'
    BY Writers DEF AuditCreated, AuditDeleted
  <2>2. ASSUME NEW g \in Handlers, pc[g] = "deleted", call[g].id = j
        PROVE  <<"deleted", j>> \in audit' \/ At(j, {"deleted"})' \/ <<"delete", j>> \in broken'
    BY <2>2, HalfStep DEF AuditDeleted, At
  <2> QED  BY <1>1, <1>3, <2>1, <2>2, Writers DEF RemovalsAudited, At
<1> QED  BY <1>2, <1>3

-----------------------------------------------------------------------------
(* Theorems *)

LEMMA AttachmentInit == Init => AttachmentInv
<1> SUFFICES ASSUME Init PROVE AttachmentInv
  OBVIOUS
<1>1. TypeOK
  BY BudgetAssumption DEF Init, TypeOK, Places
<1>2. \A h \in Handlers : CallOK(h) /\ StoresOK(h) /\ RemovalOK(h) /\ PurgeOK(h)
  BY DEF Init, CallOK, StoresOK, RemovalOK, PurgeOK, UploadPlaces, RemovalPlaces
<1>3. OneUpload /\ UploadsOver /\ RemovalsAudited
  BY DEF Init, OneUpload, UploadsOver, RemovalsAudited, At, UploadPlaces
<1>4. HalvesAgree /\ DeletedIsGone /\ PurgeLeavesNothing
  BY <1>1 DEF Init, HalvesAgree, DeletedIsGone, PurgeLeavesNothing
<1> QED  BY <1>2, <1>3, <1>4 DEF AttachmentInv

LEMMA AttachmentStep == AttachmentInv /\ [Next]_vars => AttachmentInv'
<1>1. ASSUME AttachmentInv, Next PROVE AttachmentInv'
  <2>1. \A h \in Handlers : CallOK(h)' /\ StoresOK(h)' /\ RemovalOK(h)' /\ PurgeOK(h)'
    BY <1>1, CallStep, StoresStep, RemovalStep, PurgeStep DEF AttachmentInv, HalvesAgree
  <2>2. HalvesAgree' /\ DeletedIsGone' /\ PurgeLeavesNothing'
    BY <1>1, HalvesAgreeStep, DeletedIsGoneStep, PurgeLeavesNothingStep
  <2>3. RemovalsAudited' /\ UploadsOver' /\ OneUpload'
    BY <1>1, RemovalsAuditedStep, UploadsOverStep, OneUploadStep
  <2> QED  BY <2>1, <2>2, <2>3 DEF AttachmentInv
<1>2. ASSUME AttachmentInv, UNCHANGED vars PROVE AttachmentInv'
  <2> USE <1>2 DEF vars, storeVars, clockVars, requestVars, observers
  <2>1. \A h \in Handlers : CallOK(h)' /\ StoresOK(h)' /\ RemovalOK(h)' /\ PurgeOK(h)'
    BY DEF AttachmentInv, CallOK, StoresOK, RemovalOK, PurgeOK, Settled, At
  <2>2. HalvesAgree' /\ DeletedIsGone' /\ PurgeLeavesNothing'
    BY DEF AttachmentInv, HalvesAgree, TypeOK, DeletedIsGone, PurgeLeavesNothing, At
  <2>3. RemovalsAudited' /\ UploadsOver' /\ OneUpload'
    BY DEF AttachmentInv, RemovalsAudited, UploadsOver, OneUpload, Settled, At
  <2> QED  BY <2>1, <2>2, <2>3 DEF AttachmentInv
<1> QED  BY <1>1, <1>2

LEMMA AlwaysAttachmentInv == Spec => []AttachmentInv
BY AttachmentInit, AttachmentStep, PTL DEF Spec

\* When store.delete has returned to a delete or to purge_expired, row and
\* content are gone for good, with any number of requests on the attachment.
THEOREM DeletionsAreFinal == Spec => []DeletedIsGone
BY AlwaysAttachmentInv, PTL DEF AttachmentInv

\* AttachmentService keeps row and content together: a half that is missing is
\* explained by a request under way or by one that failed on the attachment.
\* Every reachable state is well typed.
THEOREM HalvesStayTogether == Spec => []HalvesAgree
BY AlwaysAttachmentInv, PTL DEF AttachmentInv

\* An attachment whose creation is in the audit log does not disappear without
\* its deletion event, but for purges and deletes that failed.
THEOREM DeletionsAreAudited == Spec => []DeletionAudited
<1>1. AttachmentInv => DeletionAudited
  BY DEF AttachmentInv, RemovalsAudited, DeletionAudited
<1> QED  BY <1>1, AlwaysAttachmentInv, PTL

\* A purge_expired that returns leaves neither row nor content of what was old
\* when it began, except content that a failed upload left without a row.
THEOREM PurgesAreComplete == Spec => []PurgeLeavesNothing
BY AlwaysAttachmentInv, PTL DEF AttachmentInv

=============================================================================
