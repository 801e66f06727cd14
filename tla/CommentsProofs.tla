--------------------------- MODULE CommentsProofs ---------------------------
(***************************************************************************)
(* Proofs about Comments, for every set of ids and of requests.            *)
(*                                                                         *)
(* TypeOK is inductive by itself. The safety invariants are not: they      *)
(* follow from ModerationInv (what is approved anywhere, in the table, the *)
(* index, a handler's copy or a resync's copy, has passed moderation) and  *)
(* from RaceInv (what the one handler at work on an unraced id knows of    *)
(* the table and the index at each of its stages). The refinement of       *)
(* ModerationBoard needs SerialInv besides: with one handler at a time the *)
(* index is one operation behind the table at most, and only on the        *)
(* comment that is being handled.                                          *)
(***************************************************************************)
EXTENDS CommentsBoard, TLAPS

-----------------------------------------------------------------------------
(* Type correctness.                                                       *)

LEMMA IdleIsARequest == Idle \in Request
  BY DEF Idle, Request, Stages, Kinds

LEMMA StageType ==
  ASSUME TypeOK, NEW r \in Requests, NEW at \in Stages, NEW kind \in Kinds,
         NEW id \in Ids \cup {None}, NEW row \in Row \cup {None},
         id = None <=> at \in {"idle", "restore"},
         row = None <=> at \notin {"insert", "put"},
         Stage(r, at, kind, id, row)
  PROVE  req' \in [Requests -> Request]
  BY DEF TypeOK, Stage, Request

LEMMA FinishType ==
  ASSUME TypeOK, NEW r \in Requests, Finish(r)
  PROVE  req' \in [Requests -> Request]
  BY IdleIsARequest DEF TypeOK, Finish

LEMMA NewRowType ==
  ASSUME NEW parent \in Ids \cup {None}, NEW isUser \in BOOLEAN, NEW flagged \in BOOLEAN
  PROVE  NewRow(parent, isUser, flagged) \in Row
  BY DEF NewRow, AutoApproved, Row

LEMMA EntryTypes ==
  ASSUME NEW row \in Row
  PROVE  /\ FromRow(row) \in Entry
         /\ ResyncEntry(row) \in Entry
  BY DEF FromRow, ResyncEntry, ApprovedLabel, Entry, Labels

LEMMA ModerateType ==
  ASSUME TypeOK, NEW r \in Requests, NEW kind \in Kinds, NEW id \in Ids, NEW row,
         Has(kind, id) => row \in Row,
         Moderate(r, kind, id, row), cleared' \subseteq Ids
  PROVE  TypeOK'
  <1>1. req' \in [Requests -> Request]
    BY StageType, NoneAssumption DEF Moderate, Stages
  <1>2. comments' \in [Ids -> Row \cup {None}]
    BY DEF TypeOK, Moderate
  <1>3. raced' \subseteq Ids
    BY DEF TypeOK, Moderate, Touch
  <1> QED
    BY <1>1, <1>2, <1>3 DEF TypeOK, Moderate

LEMMA TypesStep == TypeOK /\ [Next]_vars => TypeOK'
  <1> SUFFICES ASSUME TypeOK, [Next]_vars PROVE TypeOK'
    OBVIOUS
  <1>1. ASSUME NEW r \in Requests, SubmitInsert(r) PROVE TypeOK'
    <2>1. PICK id \in Ids \ used, isUser \in BOOLEAN, flagged \in BOOLEAN :
             SubmitInsert(r)!(id, isUser, flagged)
      BY <1>1 DEF SubmitInsert
    <2>2. req' \in [Requests -> Request]
      BY <2>1, StageType, NoneAssumption DEF Stages, Kinds
    <2>3. comments' \in [Ids -> Row \cup {None}]
      BY <2>1, NewRowType DEF TypeOK
    <2> QED
      BY <2>1, <2>2, <2>3 DEF TypeOK, Touch
  <1>2. ASSUME NEW r \in Requests, ReplyFindParent(r) PROVE TypeOK'
    <2>1. PICK c \in known, id \in Ids \ used, isUser \in BOOLEAN, flagged \in BOOLEAN :
             ReplyFindParent(r)!(c, id, isUser, flagged)
      BY <1>2 DEF ReplyFindParent
    <2>2. NewRow(c, isUser, flagged) \in Row
      BY NewRowType DEF TypeOK
    <2>3. req' \in [Requests -> Request]
      BY <2>1, <2>2, StageType, NoneAssumption DEF TypeOK, Stages, Kinds
    <2> QED
      BY <2>1, <2>3 DEF TypeOK, Touch
  <1>3. ASSUME NEW r \in Requests, ReplyInsert(r) PROVE TypeOK'
    <2>1. req[r].id \in Ids /\ req[r].row \in Row
      BY <1>3 DEF TypeOK, ReplyInsert, Request
    <2>2. req' \in [Requests -> Request]
      BY <1>3, <2>1, StageType, NoneAssumption DEF ReplyInsert, Stages, Kinds
    <2> QED
      BY <1>3, <2>1, <2>2 DEF TypeOK, ReplyInsert
  <1>4. ASSUME NEW r \in Requests, Approve(r) \/ Hide(r) \/ Show(r) PROVE TypeOK'
    <2>1. ASSUME NEW kind \in Kinds, NEW id \in known, Has(kind, id)
          PROVE  /\ [comments[id] EXCEPT !.approved = TRUE] \in Row
                 /\ [comments[id] EXCEPT !.hidden = TRUE] \in Row
                 /\ [comments[id] EXCEPT !.hidden = FALSE] \in Row
      BY <2>1 DEF TypeOK, Has, Row
    <2>2. known \subseteq Ids
      BY DEF TypeOK
    <2>3. CASE Approve(r)
      <3>1. PICK kind \in Kinds, id \in known : Approve(r)!(kind, id)
        BY <2>3 DEF Approve
      <3> QED
        BY <2>1, <2>2, <3>1, ModerateType DEF TypeOK
    <2>4. CASE Hide(r)
      <3>1. PICK kind \in Kinds, id \in known : Hide(r)!(kind, id)
        BY <2>4 DEF Hide
      <3> QED
        BY <2>1, <2>2, <3>1, ModerateType DEF TypeOK
    <2>5. CASE Show(r)
      <3>1. PICK kind \in Kinds, id \in known : Show(r)!(kind, id)
        BY <2>5 DEF Show
      <3> QED
        BY <2>1, <2>2, <3>1, ModerateType DEF TypeOK
    <2> QED
      BY <1>4, <2>3, <2>4, <2>5
  <1>5. ASSUME NEW r \in Requests, ReadBack(r) PROVE TypeOK'
    <2>1. req[r].id \in Ids /\ req[r].kind \in Kinds
      BY <1>5 DEF TypeOK, ReadBack, Request
    <2>2. CASE Has(req[r].kind, req[r].id)
      <3>1. comments[req[r].id] \in Row
        BY <2>1, <2>2 DEF TypeOK, Has
      <3>2. req' \in [Requests -> Request]
        BY <1>5, <2>1, <2>2, <3>1, StageType, NoneAssumption DEF ReadBack, Stages
      <3> QED
        BY <1>5, <3>2 DEF TypeOK, ReadBack
    <2>3. CASE ~Has(req[r].kind, req[r].id)
      BY <1>5, <2>3, FinishType DEF TypeOK, ReadBack
    <2> QED
      BY <2>2, <2>3
  <1>6. ASSUME NEW r \in Requests, Put(r) PROVE TypeOK'
    <2>1. req[r].id \in Ids /\ req[r].row \in Row
      BY <1>6 DEF TypeOK, Put, Request
    <2>2. FromRow(req[r].row) \in Entry
      BY <2>1, EntryTypes
    <2> QED
      BY <1>6, <2>1, <2>2, FinishType DEF TypeOK, Put
  <1>7. ASSUME NEW r \in Requests, DeleteRow(r) PROVE TypeOK'
    <2>1. PICK kind \in Kinds, id \in known : DeleteRow(r)!(kind, id)
      BY <1>7 DEF DeleteRow
    <2>2. req' \in [Requests -> Request]
      BY <2>1, StageType, NoneAssumption DEF TypeOK, Stages
    <2> QED
      BY <2>1, <2>2 DEF TypeOK, Touch
  <1>8. ASSUME NEW r \in Requests, Drop(r) PROVE TypeOK'
    BY <1>8, FinishType DEF TypeOK, Drop
  <1>9. ASSUME NEW r \in Requests, RestoreFetch(r) PROVE TypeOK'
    <2>1. req' \in [Requests -> Request]
      BY <1>9, StageType DEF RestoreFetch, Stages, Kinds
    <2> QED
      BY <1>9, <2>1 DEF TypeOK, RestoreFetch
  <1>10. ASSUME NEW r \in Requests, RestorePut(r) PROVE TypeOK'
    <2>1. PICK id \in Ids : RestorePut(r)!(id)
      BY <1>10 DEF RestorePut
    <2>2. ResyncEntry(restoring[id]) \in Entry
      BY <2>1, EntryTypes DEF TypeOK
    <2>3. req' \in [Requests -> Request]
      BY <2>1, FinishType DEF TypeOK
    <2> QED
      BY <2>1, <2>2, <2>3 DEF TypeOK
  <1>11. ASSUME NEW r \in Requests, Abandon(r) PROVE TypeOK'
    <2>1. req[r].id \in Ids
      BY <1>11 DEF TypeOK, Abandon, Request
    <2> QED
      BY <1>11, <2>1, FinishType DEF TypeOK, Abandon
  <1>12. CASE Restart
    <2>1. \A id \in Ids : comments[id] # None => ResyncEntry(comments[id]) \in Entry
      BY EntryTypes DEF TypeOK
    <2> QED
      BY <1>12, <2>1, IdleIsARequest DEF TypeOK, Restart
  <1>13. CASE UNCHANGED vars
    BY <1>13 DEF TypeOK, vars
  <1> QED
    BY <1>1, <1>2, <1>3, <1>4, <1>5, <1>6, <1>7, <1>8, <1>9, <1>10, <1>11, <1>12,
       <1>13 DEF Next, Begin, Continue

\* TypeOK holds in every reachable state of Comments.
THEOREM CommentsTypeOK == Spec => []TypeOK
  <1>1. Init => TypeOK
    BY IdleIsARequest DEF Init, TypeOK
  <1> QED
    BY <1>1, TypesStep, PTL DEF Spec

-----------------------------------------------------------------------------
(* The inductive invariants.                                               *)

\* What is approved anywhere has passed moderation or needed none.
ModerationInv ==
    /\ \A id \in Ids : comments[id] # None /\ comments[id].approved => id \in cleared
    /\ \A id \in Ids : index[id] # None /\ index[id].row.approved => id \in cleared
    /\ \A id \in Ids : restoring[id] # None /\ restoring[id].approved => id \in cleared
    /\ \A r \in Requests : req[r].row # None /\ req[r].row.approved => req[r].id \in cleared

\* The approved label never claims more than the entry's own spec says, and the
\* label of a top-level comment says exactly that.
LabelInv ==
    \A id \in Ids : index[id] # None =>
        /\ index[id].label \in {ApprovedLabel(index[id].row), "unset"}
        /\ KindOf(index[id].row) = "Comment" => index[id].label # "unset"

\* An id not yet minted is nowhere.
FreshInv ==
    /\ known \subseteq used
    /\ \A id \in Ids \ used :
          comments[id] = None /\ index[id] = None /\ restoring[id] = None /\ ~Busy(id)

\* At most one handler is at work on an unraced id, and no resync with it.
SoleOwner(id) ==
    /\ \A q, r \in Requests : req[q].id = id /\ req[r].id = id => q = r
    /\ restoring[id] # None => ~Busy(id) /\ restoring[id] = comments[id]

\* What that handler finds at each of its stages.
StageInv(r) ==
    LET id == req[r].id IN
    /\ req[r].at = "insert" =>
          comments[id] = None /\ index[id] = None /\ KindOf(req[r].row) = "Reply"
    /\ req[r].at = "read" /\ ~Has(req[r].kind, id) => Agree(id)
    /\ req[r].at = "put" => req[r].row = comments[id]
    /\ req[r].at = "drop" => comments[id] = None

\* An entry is of the same kind as its row and at most as approved.
EntryBehindRow(id) ==
    comments[id] # None /\ index[id] # None =>
        /\ index[id].row.parent = comments[id].parent
        /\ index[id].row.approved => comments[id].approved

RaceInv ==
    /\ FreshInv
    /\ \A id \in Ids \ raced :
          /\ SoleOwner(id)
          /\ Quiet(id) => Agree(id)
          /\ EntryBehindRow(id)
    /\ \A r \in Requests : req[r].id # None /\ req[r].id \notin raced => StageInv(r)

LEMMA TypedRequests ==
  ASSUME TypeOK, NEW r \in Requests
  PROVE  /\ req[r].id \in Ids \cup {None}
         /\ req[r].id = None <=> req[r].at \in {"idle", "restore"}
         /\ req[r].row \in Row \cup {None}
         /\ req[r].row = None <=> req[r].at \notin {"insert", "put"}
         /\ req[r].kind \in Kinds
  BY DEF TypeOK, Request

LEMMA ModerateFacts ==
  ASSUME TypeOK, NEW r \in Requests, Approve(r) \/ Hide(r) \/ Show(r)
  PROVE  \E kind \in Kinds, id \in known :
            /\ id \in Ids
            /\ req[r].at = "idle"
            /\ Stage(r, "read", kind, id, None)
            /\ raced' = Touch(id)
            /\ UNCHANGED <<index, used, known, restoring>>
            /\ \A i \in Ids \ {id} : comments'[i] = comments[i]
            /\ comments'[id] \in Row \cup {None}
            /\ ~Has(kind, id) => comments' = comments
            /\ Has(kind, id) =>
                  /\ comments'[id] # None
                  /\ comments'[id].parent = comments[id].parent
                  /\ comments[id].approved => comments'[id].approved
                  /\ comments'[id].approved => comments[id].approved \/ id \in cleared'
            /\ cleared \subseteq cleared'
  <1> DEFINE P(kind, id) ==
            /\ id \in Ids
            /\ req[r].at = "idle"
            /\ Stage(r, "read", kind, id, None)
            /\ raced' = Touch(id)
            /\ UNCHANGED <<index, used, known, restoring>>
            /\ \A i \in Ids \ {id} : comments'[i] = comments[i]
            /\ comments'[id] \in Row \cup {None}
            /\ ~Has(kind, id) => comments' = comments
            /\ Has(kind, id) =>
                  /\ comments'[id] # None
                  /\ comments'[id].parent = comments[id].parent
                  /\ comments[id].approved => comments'[id].approved
                  /\ comments'[id].approved => comments[id].approved \/ id \in cleared'
            /\ cleared \subseteq cleared'
  <1>1. ASSUME NEW kind \in Kinds, NEW id \in known, Approve(r)!(kind, id)
        PROVE  P(kind, id)
    BY <1>1, NoneAssumption DEF TypeOK, Moderate, Has, Row
  <1>2. ASSUME NEW kind \in Kinds, NEW id \in known, Hide(r)!(kind, id)
        PROVE  P(kind, id)
    BY <1>2, NoneAssumption DEF TypeOK, Moderate, Has, Row
  <1>3. ASSUME NEW kind \in Kinds, NEW id \in known, Show(r)!(kind, id)
        PROVE  P(kind, id)
    BY <1>3, NoneAssumption DEF TypeOK, Moderate, Has, Row
  <1>4. \E kind \in Kinds, id \in known : P(kind, id)
    <2> HIDE DEF P
    <2> QED
      BY <1>1, <1>2, <1>3 DEF Approve, Hide, Show
  <1> QED
    BY <1>4

\* Approved content is cleared content, wherever a copy of it is.
LEMMA ModerationInductive ==
  TypeOK /\ ModerationInv /\ LabelInv /\ [Next]_vars => ModerationInv' /\ LabelInv'
  <1> SUFFICES ASSUME TypeOK, ModerationInv, LabelInv, [Next]_vars
               PROVE  ModerationInv' /\ LabelInv'
    OBVIOUS
  <1> USE NoneAssumption
  <1>1. ASSUME NEW r \in Requests, SubmitInsert(r) PROVE ModerationInv' /\ LabelInv'
    <2>1. PICK id \in Ids \ used, isUser \in BOOLEAN, flagged \in BOOLEAN :
             SubmitInsert(r)!(id, isUser, flagged)
      BY <1>1 DEF SubmitInsert
    <2>2. NewRow(None, isUser, flagged).approved => id \in cleared'
      BY <2>1 DEF NewRow, AutoApproved
    <2> QED
      BY <2>1, <2>2, TypedRequests DEF TypeOK, ModerationInv, LabelInv, Stage
  <1>2. ASSUME NEW r \in Requests, ReplyFindParent(r) PROVE ModerationInv' /\ LabelInv'
    <2>1. PICK c \in known, id \in Ids \ used, isUser \in BOOLEAN, flagged \in BOOLEAN :
             ReplyFindParent(r)!(c, id, isUser, flagged)
      BY <1>2 DEF ReplyFindParent
    <2>2. NewRow(c, isUser, flagged).approved => id \in cleared'
      BY <2>1 DEF NewRow, AutoApproved
    <2> QED
      BY <2>1, <2>2, TypedRequests DEF TypeOK, ModerationInv, LabelInv, Stage
  <1>3. ASSUME NEW r \in Requests, ReplyInsert(r) PROVE ModerationInv' /\ LabelInv'
    BY <1>3, TypedRequests DEF TypeOK, ModerationInv, LabelInv, ReplyInsert, Stage
  <1>4. ASSUME NEW r \in Requests, Approve(r) \/ Hide(r) \/ Show(r)
        PROVE  ModerationInv' /\ LabelInv'
    BY <1>4, ModerateFacts, TypedRequests
       DEF TypeOK, ModerationInv, LabelInv, Stage, Has
  <1>5. ASSUME NEW r \in Requests, ReadBack(r) PROVE ModerationInv' /\ LabelInv'
    BY <1>5, TypedRequests
       DEF TypeOK, ModerationInv, LabelInv, ReadBack, Stage, Finish, Idle, Has
  <1>6. ASSUME NEW r \in Requests, Put(r) PROVE ModerationInv' /\ LabelInv'
    BY <1>6, TypedRequests
       DEF TypeOK, ModerationInv, LabelInv, Put, Finish, Idle, FromRow, ApprovedLabel
  <1>7. ASSUME NEW r \in Requests, DeleteRow(r) PROVE ModerationInv' /\ LabelInv'
    BY <1>7, TypedRequests DEF TypeOK, ModerationInv, LabelInv, DeleteRow, Stage
  <1>8. ASSUME NEW r \in Requests, Drop(r) PROVE ModerationInv' /\ LabelInv'
    BY <1>8, TypedRequests DEF TypeOK, ModerationInv, LabelInv, Drop, Finish, Idle
  <1>9. ASSUME NEW r \in Requests, RestoreFetch(r) PROVE ModerationInv' /\ LabelInv'
    BY <1>9, TypedRequests DEF TypeOK, ModerationInv, LabelInv, RestoreFetch, Stage
  <1>10. ASSUME NEW r \in Requests, RestorePut(r) PROVE ModerationInv' /\ LabelInv'
    <2>1. PICK id \in Ids : RestorePut(r)!(id)
      BY <1>10 DEF RestorePut
    <2>2. ModerationInv'
      BY <2>1, TypedRequests DEF TypeOK, ModerationInv, Finish, Idle, ResyncEntry
    <2>3. LabelInv'
      BY <2>1 DEF TypeOK, LabelInv, ResyncEntry, ApprovedLabel
    <2> QED
      BY <2>2, <2>3
  <1>11. ASSUME NEW r \in Requests, Abandon(r) PROVE ModerationInv' /\ LabelInv'
    BY <1>11 DEF TypeOK, ModerationInv, LabelInv, Abandon, Finish, Idle
  <1>12. CASE Restart
    BY <1>12 DEF TypeOK, ModerationInv, LabelInv, Restart, Idle, ResyncEntry, ApprovedLabel
  <1>13. CASE UNCHANGED vars
    BY <1>13 DEF ModerationInv, LabelInv, vars
  <1> QED
    BY <1>1, <1>2, <1>3, <1>4, <1>5, <1>6, <1>7, <1>8, <1>9, <1>10, <1>11, <1>12, <1>13
       DEF Next, Begin, Continue

LEMMA ModerationInit == Init => ModerationInv /\ LabelInv
  BY DEF Init, ModerationInv, LabelInv, Idle

\* A visitor never sees a comment or reply that needed moderation and that no
\* moderator has approved.
THEOREM CommentsModerated == Spec => []OnlyModeratedIsPublic
  <1>1. TypeOK /\ ModerationInv /\ LabelInv => OnlyModeratedIsPublic
    <2> SUFFICES ASSUME TypeOK, ModerationInv, LabelInv, NEW id \in Public
                 PROVE  id \in cleared
      BY DEF OnlyModeratedIsPublic
    <2>1. id \in Ids /\ index[id] # None /\ index[id].label = "true"
      BY DEF Public, PublicThread, Replies, Indexed
    <2>2. index[id].row.approved
      BY <2>1 DEF LabelInv, ApprovedLabel
    <2> QED
      BY <2>1, <2>2 DEF ModerationInv
  <1> QED
    BY <1>1, CommentsTypeOK, ModerationInit, ModerationInductive, PTL DEF Spec

-----------------------------------------------------------------------------
(* The index and the table.                                                *)

LEMMA RaceInit == Init => RaceInv
  BY NoneAssumption
     DEF Init, RaceInv, FreshInv, SoleOwner, Quiet, Agree, EntryBehindRow, StageInv, Busy, Idle

LEMMA RaceInductive ==
  TypeOK /\ TypeOK' /\ RaceInv /\ [Next]_vars => RaceInv'
  <1> SUFFICES ASSUME TypeOK, TypeOK', RaceInv, [Next]_vars
               PROVE  RaceInv'
    OBVIOUS
  <1> USE NoneAssumption
  <1>1. ASSUME NEW r \in Requests, SubmitInsert(r) PROVE RaceInv'
    <2>1. PICK id \in Ids \ used, isUser \in BOOLEAN, flagged \in BOOLEAN :
             SubmitInsert(r)!(id, isUser, flagged)
      BY <1>1 DEF SubmitInsert
    <2>2. raced' = raced
      BY <2>1 DEF RaceInv, FreshInv, Touch
    <2>3. Has("Comment", id)'
      <3>1. comments'[id] = NewRow(None, isUser, flagged)
        BY <2>1 DEF TypeOK
      <3> QED
        BY <3>1, NewRowType DEF NewRow, Has, KindOf
    <2> QED
      BY <2>1, <2>2, <2>3, TypedRequests
         DEF TypeOK, RaceInv, FreshInv, SoleOwner, Quiet, Agree, EntryBehindRow,
             StageInv, Busy, Stage, Has
  <1>2. ASSUME NEW r \in Requests, ReplyFindParent(r) PROVE RaceInv'
    <2>1. PICK c \in known, id \in Ids \ used, isUser \in BOOLEAN, flagged \in BOOLEAN :
             ReplyFindParent(r)!(c, id, isUser, flagged)
      BY <1>2 DEF ReplyFindParent
    <2>2. raced' = raced
      BY <2>1 DEF RaceInv, FreshInv, Touch
    <2>3. KindOf(NewRow(c, isUser, flagged)) = "Reply"
      BY <2>1 DEF TypeOK, NewRow, KindOf
    <2> QED
      BY <2>1, <2>2, <2>3, TypedRequests
         DEF TypeOK, RaceInv, FreshInv, SoleOwner, Quiet, Agree, EntryBehindRow,
             StageInv, Busy, Stage, Has
  <1>3. ASSUME NEW r \in Requests, ReplyInsert(r) PROVE RaceInv'
    BY <1>3, TypedRequests
       DEF TypeOK, RaceInv, FreshInv, SoleOwner, Quiet, Agree, EntryBehindRow,
           StageInv, Busy, Stage, Has, ReplyInsert
  <1>4. ASSUME NEW r \in Requests, Approve(r) \/ Hide(r) \/ Show(r) PROVE RaceInv'
    <2>1. PICK kind \in Kinds, id \in known :
            /\ id \in Ids
            /\ req[r].at = "idle"
            /\ Stage(r, "read", kind, id, None)
            /\ raced' = Touch(id)
            /\ UNCHANGED <<index, used, known, restoring>>
            /\ \A i \in Ids \ {id} : comments'[i] = comments[i]
            /\ comments'[id] \in Row \cup {None}
            /\ ~Has(kind, id) => comments' = comments
            /\ Has(kind, id) =>
                  /\ comments'[id] # None
                  /\ comments'[id].parent = comments[id].parent
                  /\ comments[id].approved => comments'[id].approved
      BY <1>4, ModerateFacts
    <2> QED
      BY <2>1, TypedRequests
         DEF TypeOK, RaceInv, FreshInv, SoleOwner, Quiet, Agree, EntryBehindRow,
             StageInv, Busy, Stage, Has, Touch, KindOf
  <1>5. ASSUME NEW r \in Requests, ReadBack(r) PROVE RaceInv'
    BY <1>5, TypedRequests
       DEF TypeOK, RaceInv, FreshInv, SoleOwner, Quiet, Agree, EntryBehindRow,
           StageInv, Busy, Stage, Finish, Idle, Has, ReadBack
  <1>6. ASSUME NEW r \in Requests, Put(r) PROVE RaceInv'
    <2> DEFINE id == req[r].id
    <2>1. id \in Ids /\ req[r].row \in Row
      BY <1>6, TypedRequests DEF Put
    <2>2. /\ index'[id] # None /\ index'[id].row = req[r].row
          /\ \A i \in Ids \ {id} : index'[i] = index[i]
      BY <1>6, <2>1, EntryTypes DEF TypeOK, Put, FromRow
    <2>3. \A q \in Requests : req'[q] = IF q = r THEN Idle ELSE req[q]
      BY <1>6 DEF TypeOK, Put, Finish
    <2>4. id \in used
      BY <2>1 DEF RaceInv, FreshInv, Busy
    <2>5. id \notin raced => req[r].row = comments[id]
      BY <1>6, <2>1 DEF RaceInv, StageInv, Put
    <2> QED
      BY <1>6, <2>1, <2>2, <2>3, <2>4, <2>5, TypedRequests
         DEF TypeOK, RaceInv, FreshInv, SoleOwner, Quiet, Agree, EntryBehindRow,
             StageInv, Busy, Idle, Has, Put
  <1>7. ASSUME NEW r \in Requests, DeleteRow(r) PROVE RaceInv'
    <2>1. PICK kind \in Kinds, id \in known : DeleteRow(r)!(kind, id)
      BY <1>7 DEF DeleteRow
    <2> QED
      BY <2>1, TypedRequests
         DEF TypeOK, RaceInv, FreshInv, SoleOwner, Quiet, Agree, EntryBehindRow,
             StageInv, Busy, Stage, Has, Touch
  <1>8. ASSUME NEW r \in Requests, Drop(r) PROVE RaceInv'
    BY <1>8, TypedRequests
       DEF TypeOK, RaceInv, FreshInv, SoleOwner, Quiet, Agree, EntryBehindRow,
           StageInv, Busy, Finish, Idle, Has, Drop
  <1>9. ASSUME NEW r \in Requests, RestoreFetch(r) PROVE RaceInv'
    BY <1>9, TypedRequests
       DEF TypeOK, RaceInv, FreshInv, SoleOwner, Quiet, Agree, EntryBehindRow,
           StageInv, Busy, Stage, Has, RestoreFetch
  <1>10. ASSUME NEW r \in Requests, RestorePut(r) PROVE RaceInv'
    <2>1. PICK id \in Ids : RestorePut(r)!(id)
      BY <1>10 DEF RestorePut
    <2>2. \A q \in Requests : req'[q] = req[q] \/ (q = r /\ req'[q] = Idle)
      BY <2>1 DEF TypeOK, Finish
    <2>3. req[r].id = None
      BY <2>1, TypedRequests
    <2>4. /\ index'[id] # None /\ index'[id].row = restoring[id]
          /\ \A i \in Ids \ {id} : index'[i] = index[i]
      BY <2>1, EntryTypes DEF TypeOK, ResyncEntry
    <2>5. restoring'[id] = None /\ \A i \in Ids \ {id} : restoring'[i] = restoring[i]
      BY <2>1 DEF TypeOK
    <2>6. id \in used
      BY <2>1 DEF RaceInv, FreshInv
    <2>7. \A i \in Ids : Busy(i)' <=> Busy(i)
      BY <2>2, <2>3 DEF Busy, Idle
    <2>8. FreshInv'
      BY <2>1, <2>4, <2>5, <2>6, <2>7 DEF RaceInv, FreshInv
    <2>9. ASSUME NEW i \in Ids \ raced'
          PROVE  SoleOwner(i)' /\ (Quiet(i) => Agree(i))' /\ EntryBehindRow(i)'
      BY <2>1, <2>2, <2>3, <2>4, <2>5, <2>7
         DEF RaceInv, SoleOwner, Quiet, Agree, EntryBehindRow, Idle
    <2>10. ASSUME NEW q \in Requests, req'[q].id # None, req'[q].id \notin raced'
           PROVE  StageInv(q)'
      <3>1. req'[q] = req[q] /\ req[q].id \in Ids
        BY <2>2, <2>10, TypedRequests DEF Idle
      <3>2. req[q].id # id
        BY <2>1, <2>10, <3>1 DEF RaceInv, SoleOwner, Busy
      <3> QED
        BY <2>1, <2>4, <2>10, <3>1, <3>2 DEF RaceInv, StageInv, Agree, Has
    <2> QED
      BY <2>8, <2>9, <2>10 DEF RaceInv
  <1>11. ASSUME NEW r \in Requests, Abandon(r) PROVE RaceInv'
    BY <1>11, TypedRequests
       DEF TypeOK, RaceInv, FreshInv, SoleOwner, Quiet, Agree, EntryBehindRow,
           StageInv, Busy, Finish, Idle, Has, Abandon
  <1>12. CASE Restart
    <2>1. \A id \in Ids : ~Busy(id)' /\ restoring'[id] = None
      BY <1>12 DEF Restart, Busy, Idle
    <2>2. \A id \in Ids : Agree(id)'
      BY <1>12, EntryTypes DEF TypeOK, Restart, Agree, ResyncEntry
    <2>3. FreshInv'
      BY <1>12, <2>1 DEF RaceInv, FreshInv, Restart
    <2>4. \A id \in Ids : SoleOwner(id)' /\ EntryBehindRow(id)'
      BY <1>12, <2>1, <2>2 DEF SoleOwner, Busy, EntryBehindRow, Agree
    <2> QED
      BY <1>12, <2>2, <2>3, <2>4 DEF RaceInv, Restart, Idle
  <1>13. CASE UNCHANGED vars
    BY <1>13
       DEF RaceInv, FreshInv, SoleOwner, Quiet, Agree, EntryBehindRow, StageInv, Busy, Has, vars
  <1> QED
    BY <1>1, <1>2, <1>3, <1>4, <1>5, <1>6, <1>7, <1>8, <1>9, <1>10, <1>11, <1>12, <1>13
       DEF Next, Begin, Continue

\* The index drifts from the table only for a comment two handlers overlapped on
\* or one was dropped on since the last restart.
THEOREM CommentsDriftNeedsARace == Spec => []DriftNeedsARace
  <1>1. RaceInv => DriftNeedsARace
    BY DEF RaceInv, DriftNeedsARace
  <1> QED
    BY <1>1, CommentsTypeOK, RaceInit, RaceInductive, PTL DEF Spec

\* A comment no handlers raced on is in the queue or in the thread, never in both,
\* unless it is hidden or deleted, and then it is in neither.
THEOREM CommentsListedOnce == Spec => []EveryCommentIsListedOnce
  <1>1. TypeOK /\ LabelInv /\ RaceInv => EveryCommentIsListedOnce
    <2> SUFFICES ASSUME TypeOK, LabelInv, RaceInv, NEW id \in Ids \ raced, Quiet(id),
                        Has("Comment", id) \/ comments[id] = None
                 PROVE  /\ id \in ModerationQueue \cup PublicThread
                               <=> comments[id] # None /\ ~comments[id].hidden
                        /\ id \notin ModerationQueue \cap PublicThread
      BY DEF EveryCommentIsListedOnce
    <2>1. Agree(id)
      BY DEF RaceInv
    <2>2. CASE comments[id] = None
      BY <2>1, <2>2 DEF Agree, ModerationQueue, PublicThread, Indexed
    <2>3. CASE Has("Comment", id)
      <3>1. index[id] # None /\ index[id].row = comments[id]
        BY <2>1, <2>3 DEF Agree, Has
      <3>2. index[id].label = ApprovedLabel(comments[id])
        BY <2>3, <3>1 DEF LabelInv, Has
      <3> QED
        BY <2>3, <3>1, <3>2 DEF ModerationQueue, PublicThread, Indexed, Has, ApprovedLabel
    <2> QED
      BY <2>2, <2>3
  <1> QED
    BY <1>1, CommentsTypeOK, ModerationInit, ModerationInductive, RaceInit, RaceInductive,
       PTL DEF Spec

\* A step that changes the entry of an unraced id writes the row as it is now.
LEMMA EntriesFollowRows ==
  ASSUME TypeOK, RaceInv, [Next]_vars, NEW id \in Ids \ raced
  PROVE  \/ index'[id] = index[id]
         \/ comments[id] = None
         \/ index'[id] # None /\ index'[id].row = comments[id]
  <1> USE NoneAssumption
  <1>1. ASSUME NEW r \in Requests, Put(r), req[r].id = id
        PROVE  index'[id] # None /\ index'[id].row = comments[id]
    <2>1. req[r].row \in Row /\ req[r].row = comments[id]
      BY <1>1, TypedRequests DEF RaceInv, StageInv, Put
    <2> QED
      BY <1>1, <2>1, EntryTypes DEF TypeOK, Put, FromRow
  <1>2. ASSUME NEW r \in Requests, Put(r), req[r].id # id
        PROVE  index'[id] = index[id]
    BY <1>2 DEF TypeOK, Put
  <1>3. ASSUME NEW r \in Requests, Drop(r)
        PROVE  index'[id] = index[id] \/ comments[id] = None
    BY <1>3 DEF TypeOK, Drop, RaceInv, StageInv
  <1>4. ASSUME NEW r \in Requests, RestorePut(r)
        PROVE  index'[id] = index[id] \/ (index'[id] # None /\ index'[id].row = comments[id])
    <2>1. PICK i \in Ids : RestorePut(r)!(i)
      BY <1>4 DEF RestorePut
    <2>2. CASE i = id
      <3>1. restoring[id] = comments[id] /\ restoring[id] \in Row
        BY <2>1, <2>2 DEF TypeOK, RaceInv, SoleOwner
      <3> QED
        BY <2>1, <2>2, <3>1, EntryTypes DEF TypeOK, ResyncEntry
    <2>3. CASE i # id
      BY <2>1, <2>3 DEF TypeOK
    <2> QED
      BY <2>2, <2>3
  <1>5. CASE Restart
    BY <1>5, EntryTypes DEF TypeOK, Restart, ResyncEntry
  <1>6. ASSUME NEW r \in Requests,
               \/ Begin(r) \/ ReplyInsert(r) \/ ReadBack(r) \/ Abandon(r)
        PROVE  index'[id] = index[id]
    BY <1>6 DEF Begin, SubmitInsert, ReplyFindParent, Approve, Hide, Show, Moderate,
                DeleteRow, RestoreFetch, ReplyInsert, ReadBack, Abandon
  <1>7. CASE UNCHANGED vars
    BY <1>7 DEF vars
  <1> QED
    BY <1>1, <1>2, <1>3, <1>4, <1>5, <1>6, <1>7 DEF Next, Continue

\* A published comment no handlers race on stays published until it has been
\* hidden or deleted in the table, over every step and every restart.
THEOREM CommentsStayPublished == Spec => OnlyHideOrDeleteUnpublishes
  <1>1. TypeOK /\ LabelInv /\ RaceInv /\ LabelInv' /\ [Next]_vars =>
          [\A id \in PublicThread \ raced :
              id \notin PublicThread' => comments[id] = None \/ comments[id].hidden]_vars
    <2> SUFFICES ASSUME TypeOK, LabelInv, RaceInv, LabelInv', [Next]_vars,
                        NEW id \in PublicThread \ raced,
                        comments[id] # None, ~comments[id].hidden
                 PROVE  id \in PublicThread'
      OBVIOUS
    <2>1. /\ id \in Ids /\ index[id] # None /\ index[id].label = "true"
          /\ KindOf(index[id].row) = "Comment" /\ ~index[id].row.hidden
      BY DEF PublicThread, Indexed
    <2>2. index[id].row.approved
      BY <2>1 DEF LabelInv, ApprovedLabel
    <2>3. comments[id].approved /\ comments[id].parent = index[id].row.parent
      BY <2>1, <2>2 DEF RaceInv, EntryBehindRow
    <2>4. CASE index'[id] = index[id]
      BY <2>1, <2>4 DEF PublicThread, Indexed
    <2>5. CASE index'[id] # None /\ index'[id].row = comments[id]
      <3>1. KindOf(index'[id].row) = "Comment"
        BY <2>1, <2>3, <2>5 DEF KindOf
      <3>2. index'[id].label = "true"
        BY <2>1, <2>3, <2>5, <3>1 DEF LabelInv, ApprovedLabel
      <3> QED
        BY <2>1, <2>5, <3>1, <3>2 DEF PublicThread, Indexed
    <2> QED
      BY <2>1, <2>4, <2>5, EntriesFollowRows
  <1> QED
    BY <1>1, CommentsTypeOK, ModerationInit, ModerationInductive, RaceInit, RaceInductive,
       PTL DEF Spec, OnlyHideOrDeleteUnpublishes

-----------------------------------------------------------------------------
(* One handler at a time implements the board.                             *)


\* From one card to another in at most one operation of the board.
Move(old, new) ==
    \/ new = old
    \/ old = None /\ new \in Row /\ ~new.hidden
    \/ old # None /\ new \in {None, [old EXCEPT !.approved = TRUE], [old EXCEPT !.hidden = TRUE],
                              [old EXCEPT !.hidden = FALSE]}

\* What one handler at a time keeps: the board is at most one operation behind the
\* table, and only on the comment that the handler is at work on.
SerialInv ==
    /\ TypeOK /\ RaceInv
    /\ raced = {}
    /\ \A id \in Ids : ~Busy(id) => Agree(id)
    /\ \A id \in Ids : Move(AdminList[id], comments[id])
    /\ \A r \in Requests : req[r].at = "insert" => ~req[r].row.hidden
    /\ (\E id \in Ids : restoring[id] # None) => \E r \in Requests : req[r].at = "restore"

LEMMA SerialStart == Init => SerialInv
  <1> SUFFICES ASSUME Init PROVE SerialInv
    OBVIOUS
  <1>1. TypeOK
    BY IdleIsARequest DEF Init, TypeOK
  <1>2. RaceInv
    BY RaceInit
  <1> QED
    BY <1>1, <1>2, NoneAssumption DEF Init, SerialInv, Agree, Move, AdminList, Idle

\* A handler that begins finds all others idle, and the board up to date.
LEMMA NobodyElse ==
    ASSUME \A q, p \in Requests : q = p, SerialInv, NEW r \in Requests, req[r].at = "idle"
    PROVE  \A id \in Ids : ~Busy(id) /\ restoring[id] = None /\ Agree(id) /\ AdminList[id] = comments[id]
  <1>1. \A q \in Requests : req[q].at = "idle" /\ req[q].id = None
    BY TypedRequests DEF SerialInv
  <1>2. \A id \in Ids : ~Busy(id) /\ restoring[id] = None
    BY <1>1, NoneAssumption DEF SerialInv, Busy
  <1>3. \A id \in Ids : Agree(id)
    BY <1>2 DEF SerialInv
  <1>4. \A id \in Ids : AdminList[id] = comments[id]
    BY <1>3, NoneAssumption DEF Agree, AdminList
  <1> QED
    BY <1>2, <1>3, <1>4

\* The handler that begins moves one card of the table.
LEMMA SerialBegins ==
    ASSUME \A q, p \in Requests : q = p, SerialInv, TypeOK', RaceInv', NEW r \in Requests, Begin(r)
    PROVE  SerialInv'
  <1>1. req[r].at = "idle"
    BY DEF Begin, SubmitInsert, ReplyFindParent, Approve, Hide, Show, Moderate, DeleteRow, RestoreFetch
  <1>2. \A id \in Ids : ~Busy(id) /\ restoring[id] = None /\ Agree(id) /\ AdminList[id] = comments[id]
    BY <1>1, NobodyElse
  <1>3. /\ TypeOK /\ raced = {} /\ index' = index
    BY DEF SerialInv, Begin, SubmitInsert, ReplyFindParent, Approve, Hide, Show, Moderate, DeleteRow, RestoreFetch
  <1>4. AdminList' = AdminList
    BY <1>3 DEF AdminList
  <1>5. CASE RestoreFetch(r)
    <2>1. /\ raced' = {} /\ comments' = comments /\ req'[r].at = "restore"
          /\ ~ \E id \in Ids : Busy(id)'
      BY <1>2, <1>3, <1>5, TypedRequests DEF RestoreFetch, Busy, Stage, TypeOK
    <2>2. \A id \in Ids : Agree(id)'
      BY <1>2, <1>3, <2>1 DEF Agree
    <2>3. \A q \in Requests : req'[q].at = "restore"
      BY <2>1
    <2> QED
      BY <1>2, <1>4, <2>1, <2>2, <2>3 DEF SerialInv, Move
  <1>6. CASE ~RestoreFetch(r)
    <2>1. PICK id \in Ids :
            /\ req'[r].id = id
            /\ raced' = Touch(id) /\ restoring' = restoring
            /\ \A i \in Ids \ {id} : comments'[i] = comments[i]
            /\ Move(comments[id], comments'[id])
            /\ req'[r].at = "insert" => ~req'[r].row.hidden
      <3>1. CASE SubmitInsert(r)
        <4>1. PICK id \in Ids \ used, isUser, flagged \in BOOLEAN :
                SubmitInsert(r)!(id, isUser, flagged)
          BY <3>1 DEF SubmitInsert
        <4>2. comments[id] = None
          BY <4>1 DEF SerialInv, RaceInv, FreshInv
        <4>3. NewRow(None, isUser, flagged) \in Row /\ ~NewRow(None, isUser, flagged).hidden
          BY NewRowType DEF NewRow
        <4> QED
          BY <1>3, <4>1, <4>2, <4>3 DEF Move, Stage, TypeOK
      <3>2. CASE ReplyFindParent(r)
        <4>1. PICK c \in known, id \in Ids \ used, isUser, flagged \in BOOLEAN :
                ReplyFindParent(r)!(c, id, isUser, flagged)
          BY <3>2 DEF ReplyFindParent
        <4>2. ~NewRow(c, isUser, flagged).hidden
          BY DEF NewRow
        <4> QED
          BY <1>3, <4>1, <4>2 DEF Move, Stage, TypeOK
      <3>3. ASSUME NEW kind \in Kinds, NEW id \in known, NEW row, Moderate(r, kind, id, row),
                   comments[id] # None => row \in {[comments[id] EXCEPT !.approved = TRUE],
                            [comments[id] EXCEPT !.hidden = TRUE], [comments[id] EXCEPT !.hidden = FALSE]}
            PROVE  /\ req'[r].id = id
                   /\ raced' = Touch(id) /\ restoring' = restoring
                   /\ \A i \in Ids \ {id} : comments'[i] = comments[i]
                   /\ Move(comments[id], comments'[id])
                   /\ req'[r].at = "insert" => ~req'[r].row.hidden
        <4>1. id \in Ids /\ comments'[id] = IF Has(kind, id) THEN row ELSE comments[id]
          BY <1>3, <3>3 DEF Moderate, TypeOK
        <4>2. Move(comments[id], comments'[id])
          BY <3>3, <4>1 DEF Move, Has
        <4> QED
          BY <1>3, <3>3, <4>1, <4>2 DEF Moderate, Stage, TypeOK
      <3>4. CASE Approve(r)
        BY <1>3, <3>3, <3>4 DEF Approve, TypeOK
      <3>5. CASE Hide(r)
        BY <1>3, <3>3, <3>5 DEF Hide, TypeOK
      <3>6. CASE Show(r)
        BY <1>3, <3>3, <3>6 DEF Show, TypeOK
      <3>7. CASE DeleteRow(r)
        BY <1>3, <3>7 DEF DeleteRow, Has, Stage, Move, TypeOK
      <3> QED
        BY <1>6, <3>1, <3>2, <3>4, <3>5, <3>6, <3>7 DEF Begin
    <2>2. raced' = {}
      BY <1>2, <1>3, <2>1 DEF Touch
    <2>3. \A i \in Ids : ~Busy(i)' => Agree(i)'
      BY <1>2, <1>3, <2>1 DEF Agree, Busy
    <2>4. \A i \in Ids : Move(AdminList'[i], comments'[i])
      BY <1>2, <1>4, <2>1 DEF Move
    <2>5. ~ \E i \in Ids : restoring'[i] # None
      BY <1>2, <2>1
    <2>6. \A q \in Requests : req'[q].at = "insert" => ~req'[q].row.hidden
      BY <2>1
    <2> QED
      BY <2>2, <2>3, <2>4, <2>5, <2>6 DEF SerialInv
  <1> QED
    BY <1>5, <1>6


\* Where a step of one handler, or a restart, changes an entry it becomes the row.
LEMMA EntriesBecomeRows ==
    ASSUME SerialInv, [UndisturbedNext]_vars, NEW id \in Ids, AdminList'[id] # AdminList[id]
    PROVE  AdminList'[id] = comments[id] /\ comments'[id] = comments[id]
  <1>1. TypeOK /\ RaceInv /\ id \in Ids \ raced /\ [Next]_vars
    BY DEF SerialInv, UndisturbedNext, Next
  <1>2. /\ index'[id] # index[id]
        /\ \A i \in Ids : AdminList[i] = IF index[i] = None THEN None ELSE index[i].row
        /\ \A i \in Ids : AdminList'[i] = IF index'[i] = None THEN None ELSE index'[i].row
    BY DEF AdminList
  <1>3. comments[id] = None \/ (index'[id] # None /\ index'[id].row = comments[id])
    BY <1>1, <1>2, EntriesFollowRows
  <1>4. ASSUME comments[id] = None PROVE index'[id] = None
    <2>1. ASSUME NEW r \in Requests, Put(r) PROVE FALSE
      <3>1. req[r].id = id
        BY <1>1, <1>2, <2>1 DEF Put, TypeOK
      <3>2. req[r].row = comments[id] /\ req[r].row # None
        BY <1>1, <2>1, <3>1, TypedRequests, NoneAssumption DEF Put, RaceInv, StageInv
      <3> QED
        BY <1>4, <3>2
    <2>2. ASSUME NEW r \in Requests, RestorePut(r) PROVE FALSE
      <3>1. PICK i \in Ids : RestorePut(r)!(i)
        BY <2>2 DEF RestorePut
      <3>2. i = id
        BY <1>1, <1>2, <3>1 DEF TypeOK
      <3>3. restoring[id] = comments[id]
        BY <1>1, <3>1, <3>2 DEF RaceInv, SoleOwner
      <3> QED
        BY <1>4, <3>1, <3>2, <3>3
    <2>3. ASSUME NEW r \in Requests, Drop(r) PROVE index'[id] = None
      BY <1>1, <1>2, <2>3 DEF Drop, TypeOK
    <2>4. CASE Restart
      BY <1>4, <2>4 DEF Restart
    <2>5. ASSUME NEW r \in Requests, Begin(r) \/ ReplyInsert(r) \/ ReadBack(r) PROVE FALSE
      BY <1>2, <2>5 DEF Begin, SubmitInsert, ReplyFindParent, Approve, Hide, Show, Moderate,
                  DeleteRow, RestoreFetch, ReplyInsert, ReadBack
    <2>6. CASE UNCHANGED vars
      BY <1>2, <2>6 DEF vars
    <2> QED
      BY <2>1, <2>2, <2>3, <2>4, <2>5, <2>6 DEF UndisturbedNext, Continue
  <1>5. comments' = comments
    <2>1. ASSUME NEW r \in Requests, Begin(r) \/ ReplyInsert(r) PROVE FALSE
      BY <1>2, <2>1 DEF Begin, SubmitInsert, ReplyFindParent, Approve, Hide, Show, Moderate,
                  DeleteRow, RestoreFetch, ReplyInsert
    <2> QED
      BY <2>1 DEF UndisturbedNext, Continue, ReadBack, Put, Drop, RestorePut, Restart, vars
  <1> QED
    BY <1>2, <1>3, <1>4, <1>5

\* A step of the handler that goes on.
LEMMA SerialContinues ==
    ASSUME \A q, p \in Requests : q = p, SerialInv, TypeOK', RaceInv', NEW r \in Requests, Continue(r)
    PROVE  SerialInv'
  <1>1. /\ TypeOK /\ RaceInv /\ raced = {} /\ raced' = {}
        /\ [UndisturbedNext]_vars
    BY DEF SerialInv, Continue, ReplyInsert, ReadBack, Put, Drop, RestorePut, UndisturbedNext
  <1>2. ASSUME NEW id \in Ids PROVE Move(AdminList'[id], comments'[id])
    <2>1. CASE AdminList'[id] # AdminList[id]
      BY <1>1, <2>1, EntriesBecomeRows DEF Move
    <2>2. CASE AdminList'[id] = AdminList[id] /\ comments'[id] = comments[id]
      BY <2>2 DEF SerialInv
    <2>3. CASE comments'[id] # comments[id] /\ AdminList'[id] = AdminList[id]
      <3>1. ReplyInsert(r) /\ req[r].id = id
        BY <1>1, <2>3 DEF Continue, ReplyInsert, ReadBack, Put, Drop, RestorePut, TypeOK
      <3>2. req[r].at = "insert" /\ comments'[id] = req[r].row
        BY <1>1, <3>1 DEF ReplyInsert, TypeOK
      <3>3. index[id] = None /\ req[r].row \in Row /\ ~req[r].row.hidden
        BY <1>1, <3>1, <3>2, TypedRequests DEF SerialInv, RaceInv, StageInv
      <3> QED
        BY <2>3, <3>2, <3>3 DEF Move, AdminList
    <2> QED
      BY <2>1, <2>2, <2>3
  <1>3. \A q \in Requests : req'[q].at # "insert"
    BY <1>1 DEF Continue, ReplyInsert, ReadBack, Put, Drop, RestorePut, TypeOK, Stage, Finish, Idle
  <1>4. (\E id \in Ids : restoring'[id] # None) => \E q \in Requests : req'[q].at = "restore"
    BY DEF SerialInv, Continue, ReplyInsert, ReadBack, Put, Drop, RestorePut, TypeOK, Stage, Finish, Idle
  <1>5. ASSUME NEW id \in Ids, ~Busy(id)' PROVE Agree(id)'
    <2>1. ~Busy(id) => Agree(id)
      BY DEF SerialInv
    <2>2. \A q \in Requests : q = r
      OBVIOUS
    <2>3. Busy(id) <=> req[r].id = id
      BY <2>2 DEF Busy
    <2>4. req'[r].id # id
      BY <1>5 DEF Busy
    <2>5. CASE ReplyInsert(r)
      <3>1. req[r].id # id /\ comments'[id] = comments[id] /\ index' = index
        BY <1>1, <2>4, <2>5 DEF ReplyInsert, Stage, TypeOK
      <3> QED
        BY <2>1, <2>3, <3>1 DEF Agree
    <2>6. CASE ReadBack(r)
      <3>1. comments' = comments /\ index' = index
        BY <2>6 DEF ReadBack
      <3>2. req[r].id = id => req[r].at = "read" /\ ~Has(req[r].kind, id)
        BY <1>1, <2>4, <2>6 DEF ReadBack, Stage, TypeOK
      <3>3. req[r].id = id => Agree(id)
        BY <1>1, <3>2, NoneAssumption DEF RaceInv, StageInv
      <3> QED
        BY <2>1, <2>3, <3>1, <3>3 DEF Agree
    <2>7. CASE Put(r)
      <3>1. CASE req[r].id = id
        <4>1. req[r].row = comments[id] /\ comments[id] \in Row
          BY <1>1, <2>7, <3>1, TypedRequests, NoneAssumption DEF Put, RaceInv, StageInv
        <4>2. index'[id] = FromRow(comments[id]) /\ comments' = comments
          BY <1>1, <2>7, <3>1, <4>1 DEF Put, TypeOK
        <4>3. FromRow(comments[id]) # None /\ FromRow(comments[id]).row = comments[id]
          BY <4>1, EntryTypes, NoneAssumption DEF FromRow
        <4> QED
          BY <4>1, <4>2, <4>3, NoneAssumption DEF Agree
      <3>2. CASE req[r].id # id
        BY <1>1, <2>1, <2>3, <2>7, <3>2 DEF Put, TypeOK, Agree
      <3> QED
        BY <3>1, <3>2
    <2>8. CASE Drop(r)
      <3>1. CASE req[r].id = id
        BY <1>1, <2>8, <3>1, NoneAssumption DEF Drop, TypeOK, RaceInv, StageInv, Agree
      <3>2. CASE req[r].id # id
        BY <1>1, <2>1, <2>3, <2>8, <3>2 DEF Drop, TypeOK, Agree
      <3> QED
        BY <3>1, <3>2
    <2>9. CASE RestorePut(r)
      <3>1. PICK i \in Ids : RestorePut(r)!(i)
        BY <2>9 DEF RestorePut
      <3>2. req[r].id = None
        BY <1>1, <3>1, TypedRequests
      <3>3. Agree(id)
        BY <2>1, <2>3, <3>2, NoneAssumption
      <3>4. CASE i = id
        <4>1. restoring[id] = comments[id] /\ comments[id] \in Row /\ comments' = comments
          BY <1>1, <3>1, <3>4 DEF RaceInv, SoleOwner, TypeOK
        <4>2. index'[id] = ResyncEntry(comments[id])
          BY <1>1, <3>1, <3>4, <4>1 DEF TypeOK
        <4>3. ResyncEntry(comments[id]) # None /\ ResyncEntry(comments[id]).row = comments[id]
          BY <4>1, EntryTypes, NoneAssumption DEF ResyncEntry
        <4> QED
          BY <4>1, <4>2, <4>3, NoneAssumption DEF Agree
      <3>5. CASE i # id
        BY <1>1, <3>1, <3>3, <3>5 DEF TypeOK, Agree
      <3> QED
        BY <3>4, <3>5
    <2> QED
      BY <2>5, <2>6, <2>7, <2>8, <2>9 DEF Continue
  <1> QED
    BY <1>1, <1>2, <1>3, <1>4, <1>5 DEF SerialInv

LEMMA SerialRestarts == SerialInv /\ TypeOK' /\ RaceInv' /\ Restart => SerialInv'
  <1> SUFFICES ASSUME SerialInv, TypeOK', RaceInv', Restart PROVE SerialInv'
    OBVIOUS
  <1>1. TypeOK /\ comments' = comments /\ raced' = {}
    BY DEF SerialInv, Restart
  <1>2. \A id \in Ids : Agree(id)'
    <2>1. \A id \in Ids : comments[id] # None =>
            ResyncEntry(comments[id]) # None /\ ResyncEntry(comments[id]).row = comments[id]
      BY <1>1, EntryTypes, NoneAssumption DEF TypeOK, ResyncEntry
    <2> QED
      BY <1>1, <2>1 DEF Agree, Restart
  <1>3. \A id \in Ids : AdminList'[id] = comments'[id]
    BY <1>2, NoneAssumption DEF Agree, AdminList
  <1> QED
    BY <1>1, <1>2, <1>3 DEF SerialInv, Restart, Move, Idle

LEMMA SerialStep ==
    ASSUME \A q, p \in Requests : q = p
    PROVE  SerialInv /\ [UndisturbedNext]_vars => SerialInv'
  <1> SUFFICES ASSUME SerialInv, [UndisturbedNext]_vars PROVE SerialInv'
    OBVIOUS
  <1>1. TypeOK /\ RaceInv /\ [Next]_vars
    BY DEF SerialInv, UndisturbedNext, Next
  <1>2. TypeOK'
    BY <1>1, TypesStep
  <1>3. RaceInv'
    BY <1>1, <1>2, RaceInductive
  <1>4. CASE UNCHANGED vars
    <2>1. AdminList' = AdminList
      BY <1>4 DEF vars, AdminList
    <2> QED
      BY <1>2, <1>3, <1>4, <2>1 DEF SerialInv, vars, Busy, Agree
  <1> QED
    BY <1>2, <1>3, <1>4, SerialBegins, SerialContinues, SerialRestarts DEF UndisturbedNext

\* A step of the service is an operation of the board on one card, or leaves it as
\* it was.
LEMMA BoardStep ==
    ASSUME \A q, p \in Requests : q = p, SerialInv, [UndisturbedNext]_vars
    PROVE  [Board!Next]_AdminList
  <1>1. CASE AdminList' = AdminList
    BY <1>1
  <1>2. CASE AdminList' # AdminList
    <2>1. /\ AdminList = [i \in Ids |-> AdminList[i]]
          /\ AdminList' = [i \in Ids |-> AdminList'[i]]
      BY DEF AdminList
    <2>2. PICK id \in Ids : AdminList'[id] # AdminList[id]
      BY <1>2, <2>1
    <2>3. \A i \in Ids : AdminList'[i] # AdminList[i] => Busy(i)
      <3> SUFFICES ASSUME NEW i \in Ids, AdminList'[i] # AdminList[i], Agree(i) PROVE FALSE
        BY DEF SerialInv
      <3>1. AdminList[i] = comments[i]
        BY NoneAssumption DEF Agree, AdminList
      <3>2. AdminList'[i] = comments[i]
        BY EntriesBecomeRows
      <3> QED
        BY <3>1, <3>2
    <2>4. \A i \in Ids \ {id} : AdminList'[i] = AdminList[i]
      BY <2>2, <2>3 DEF Busy
    <2>5. AdminList' = [AdminList EXCEPT ![id] = comments[id]]
      BY <2>1, <2>2, <2>4, EntriesBecomeRows
    <2>6. Move(AdminList[id], comments[id]) /\ comments[id] # AdminList[id]
      BY <2>2, EntriesBecomeRows DEF SerialInv
    <2>7. Row = Board!Card
      BY DEF Row, Board!Card
    <2>8. \/ Board!Post(id) \/ Board!Approve(id) \/ Board!Hide(id) \/ Board!Show(id) \/ Board!Delete(id)
      BY <2>5, <2>6, <2>7
      DEF Move, Board!Post, Board!Approve, Board!Hide, Board!Show, Board!Delete, Board!Set
    <2> QED
      BY <2>8 DEF Board!Next
  <1> QED
    BY <1>1, <1>2

\* With one handler at a time, each of which runs to its end, the moderators' list
\* changes as if every request were one indivisible operation on one comment, over
\* restores and restarts too (approve, hide, show, delete, submit, reply).
THEOREM CommentsImplementTheBoard ==
    ASSUME \A q, p \in Requests : q = p
    PROVE  UndisturbedSpec => ImplementsBoard
  <1>1. Init => Board!Init
    BY DEF Init, Board!Init, AdminList
  <1>2. SerialInv /\ [UndisturbedNext]_vars => SerialInv'
    BY SerialStep
  <1>3. SerialInv /\ [UndisturbedNext]_vars => [Board!Next]_AdminList
    BY BoardStep
  <1> QED
    BY <1>1, <1>2, <1>3, SerialStart, PTL DEF UndisturbedSpec, ImplementsBoard, Board!Spec
=============================================================================
