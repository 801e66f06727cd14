----------------------------- MODULE PostsProofs -----------------------------
(***************************************************************************)
(* Proofs about Posts, for any names, slugs, bodies, users and handlers.   *)
(***************************************************************************)
EXTENDS Posts, TLAPS

LEMMA IdleIsARequest == Idle \in Request
  BY PostsAssumption DEF Idle, Holding, Request, Stages, Refusals

LEMMA RequestFields ==
    ASSUME TypeOK, NEW r \in Requests
    PROVE  /\ req[r] \in Request
           /\ req[r].at # "idle" => req[r].name \in Names
           /\ req[r].at = "insert" => req[r].hand \in Row
           /\ req[r].at = "save" => req[r].hand \in Setting
           /\ req[r].at = "write" /\ req[r].op \in Puts => req[r].hand \in Bodies
           /\ req[r].at = "settings" => req[r].op \in Ops
  <1>1. req[r] \in Request
    BY DEF TypeOK
  <1> QED
    BY <1>1 DEF Request

\* A handler that holds what its stage needs is well formed.
LEMMA HoldingIsARequest ==
    ASSUME NEW n \in Names, NEW at \in Stages \ {"idle"}, NEW op \in Ops \cup {None},
           NEW hand \in Row \cup Setting \cup Bodies \cup {None},
           op = None <=> at \notin {"write", "settings"},
           at = "insert" => hand \in Row,
           at = "save" => hand \in Setting,
           at = "write" /\ op \in Puts => hand \in Bodies,
           at \notin {"insert", "save", "write"} => hand = None
    PROVE  Holding(n, at, op, hand) \in Request
  <1>1. n # None
    BY PostsAssumption
  <1> QED
    BY <1>1 DEF Holding, Request

LEMMA AtIsARequest ==
    ASSUME TypeOK, NEW r \in Requests, req[r].at # "idle",
           NEW stage \in {"terms", "read", "answer", "drop", "conflict", "internal"}
    PROVE  At(r, stage) \in Request
  BY RequestFields, HoldingIsARequest DEF At, Stages, Refusals

LEMMA GotoType ==
    ASSUME TypeOK, NEW r \in Requests, NEW next \in Request, Goto(r, next)
    PROVE  req' \in [Requests -> Request]
  BY DEF TypeOK, Goto

LEMMA GotoWrittenType ==
    ASSUME TypeOK, NEW r \in Requests, NEW next \in Request, GotoWritten(r, next)
    PROVE  req' \in [Requests -> Request]
  <1>1. ASSUME NEW q \in Requests PROVE [req[q] EXCEPT !.stale = TRUE] \in Request
    BY DEF TypeOK, Request
  <1> QED
    BY <1>1 DEF TypeOK, GotoWritten

LEMMA NewRowType ==
    ASSUME NEW user \in Users, NEW row \in NewRows(user)
    PROVE  row \in Row /\ row.owner = user /\ ~row.terms /\ ~row.published
           /\ row.excerpt \in {Own, row.body}
  BY DEF NewRows, Row

\* Every change a handler makes to a row leaves a row.
LEMMA ChangedRowType ==
    ASSUME NEW row \in Row
    PROVE  /\ [row EXCEPT !.terms = TRUE] \in Row
           /\ \A b \in Bodies : [row EXCEPT !.body = b, !.excerpt = b] \in Row
           /\ \A new \in Setting :
                [row EXCEPT !.slug = new.slug, !.visible = new.visible,
                            !.excerpt = new.excerpt, !.stamped = new.stamped] \in Row
           /\ \A v \in Visibilities :
                [row EXCEPT !.published = TRUE, !.stamped = TRUE, !.visible = v] \in Row
           /\ [row EXCEPT !.published = FALSE] \in Row
           /\ [row EXCEPT !.deleted = TRUE, !.published = FALSE] \in Row
           /\ [row EXCEPT !.deleted = FALSE] \in Row
  BY DEF Row, Setting

\* One row is changed, and rows stay rows.
LEMMA PutRowType ==
    ASSUME TypeOK, NEW n \in Names, NEW row \in Row \cup {None},
           posts' = [posts EXCEPT ![n] = row]
    PROVE  /\ posts' \in [Names -> Row \cup {None}]
           /\ posts'[n] = row
           /\ \A m \in Names \ {n} : posts'[m] = posts[m]
  BY DEF TypeOK

\* The handlers' statements that write.
Writes(r) ==
    \/ Insert(r) \/ Terms(r) \/ WriteContent(r) \/ Save(r) \/ Publish(r)
    \/ Unpublish(r) \/ SoftDelete(r) \/ Restore(r) \/ Purge(r)

\* What the statement of each handler that writes finds and leaves.
LEMMA InsertStep ==
    ASSUME TypeOK, NEW r \in Requests, Insert(r)
    PROVE  /\ req[r].at = "insert" /\ UNCHANGED <<clobbered, partial, purged>>
           /\ \/ UNCHANGED posts /\ Goto(r, At(r, "internal"))
              \/ /\ ~Exists(req[r].name) /\ ~SlugTaken(req[r].hand.slug, req[r].name)
                 /\ posts' = [posts EXCEPT ![req[r].name] = req[r].hand]
                 /\ GotoWritten(r, At(r, "terms"))
  BY DEF Insert

LEMMA TermsStep ==
    ASSUME TypeOK, NEW r \in Requests, Terms(r)
    PROVE  /\ req[r].at = "terms" /\ UNCHANGED <<clobbered, partial, purged>>
           /\ \/ UNCHANGED posts /\ ~Exists(req[r].name) /\ Goto(r, At(r, "internal"))
              \/ /\ Exists(req[r].name)
                 /\ posts' = [posts EXCEPT ![req[r].name] =
                                [posts[req[r].name] EXCEPT !.terms = TRUE]]
                 /\ Goto(r, At(r, "read"))
  BY RequestFields DEF Terms, TypeOK

LEMMA WriteContentStep ==
    ASSUME TypeOK, NEW r \in Requests, WriteContent(r)
    PROVE  /\ req[r].at = "write" /\ req[r].op \in Puts /\ UNCHANGED <<clobbered, partial, purged>>
           /\ \/ UNCHANGED posts /\ Goto(r, Idle)
              \/ /\ Exists(req[r].name)
                 /\ posts' = [posts EXCEPT ![req[r].name] =
                                [posts[req[r].name] EXCEPT !.body = req[r].hand,
                                                           !.excerpt = req[r].hand]]
                 /\ GotoWritten(r, Holding(req[r].name, "settings", req[r].op, None))
  BY RequestFields DEF WriteContent, TypeOK

LEMMA SaveStep ==
    ASSUME TypeOK, NEW r \in Requests, Save(r)
    PROVE  /\ req[r].at = "save" /\ UNCHANGED <<partial, purged>>
           /\ \/ UNCHANGED <<posts, clobbered>> /\ Goto(r, At(r, "internal"))
              \/ UNCHANGED <<posts, clobbered>> /\ GotoWritten(r, At(r, "read"))
              \/ /\ Exists(req[r].name) /\ ~SlugTaken(req[r].hand.slug, req[r].name)
                 /\ posts' = [posts EXCEPT ![req[r].name] =
                                [posts[req[r].name] EXCEPT !.slug = req[r].hand.slug,
                                                           !.visible = req[r].hand.visible,
                                                           !.excerpt = req[r].hand.excerpt,
                                                           !.stamped = req[r].hand.stamped]]
                 /\ clobbered' = IF req[r].stale THEN clobbered \cup {req[r].name}
                                 ELSE clobbered
                 /\ GotoWritten(r, At(r, "read"))
  BY RequestFields DEF Save, TypeOK

LEMMA PublishStep ==
    ASSUME TypeOK, NEW r \in Requests, Publish(r)
    PROVE  /\ req[r].at = "write" /\ UNCHANGED <<clobbered, partial, purged>>
           /\ GotoWritten(r, At(r, "read"))
           /\ \/ UNCHANGED posts
              \/ \E v \in Visibilities :
                   /\ Exists(req[r].name)
                   /\ posts' = [posts EXCEPT ![req[r].name] =
                                  [posts[req[r].name] EXCEPT !.published = TRUE,
                                                             !.stamped = TRUE,
                                                             !.visible = v]]
  <1> DEFINE row == posts[req[r].name]
  <1>1. PICK v \in Visibilities \cup {None} :
          /\ req[r].at = "write"
          /\ posts' = IF Exists(req[r].name)
                      THEN [posts EXCEPT ![req[r].name].published = TRUE,
                                         ![req[r].name].stamped = TRUE,
                                         ![req[r].name].visible = IF v = None THEN @ ELSE v]
                      ELSE posts
          /\ GotoWritten(r, At(r, "read"))
          /\ UNCHANGED <<clobbered, partial, purged>>
    BY DEF Publish
  <1>2. req[r].name \in Names
    BY <1>1, RequestFields
  <1>3. ASSUME Exists(req[r].name)
        PROVE  \E w \in Visibilities :
                 posts' = [posts EXCEPT ![req[r].name] =
                            [row EXCEPT !.published = TRUE, !.stamped = TRUE, !.visible = w]]
    <2>1. row \in Row
      BY <1>2, <1>3 DEF TypeOK, Exists
    <2>2. PICK w \in Visibilities : w = IF v = None THEN row.visible ELSE v
      BY <2>1 DEF Row
    <2>3. posts' = [posts EXCEPT ![req[r].name] =
                      [row EXCEPT !.published = TRUE, !.stamped = TRUE, !.visible = w]]
      BY <1>1, <1>2, <1>3, <2>1, <2>2 DEF TypeOK, Row
    <2> QED
      BY <2>3
  <1> QED
    BY <1>1, <1>3

\* The three handlers that set a flag.
LEMMA FlagsStep ==
    ASSUME TypeOK, NEW r \in Requests, Unpublish(r) \/ SoftDelete(r) \/ Restore(r)
    PROVE  /\ req[r].at = "write" /\ UNCHANGED <<clobbered, partial, purged>>
           /\ Goto(r, At(r, "read")) \/ Goto(r, At(r, "drop"))
           /\ \/ UNCHANGED posts
              \/ /\ Exists(req[r].name)
                 /\ \E row \in { [posts[req[r].name] EXCEPT !.published = FALSE],
                                [posts[req[r].name] EXCEPT !.deleted = TRUE, !.published = FALSE],
                                [posts[req[r].name] EXCEPT !.deleted = FALSE] } :
                      posts' = [posts EXCEPT ![req[r].name] = row]
  <1>1. req[r].at = "write" /\ req[r].name \in Names
    BY RequestFields DEF Unpublish, SoftDelete, Restore, SetFlags
  <1>2. CASE Exists(req[r].name)
    BY <1>1, <1>2 DEF Unpublish, SoftDelete, Restore, SetFlags, TypeOK
  <1>3. CASE ~Exists(req[r].name)
    <2>1. posts' = posts
      BY <1>1, <1>3 DEF Unpublish, SoftDelete, Restore, SetFlags, TypeOK
    <2> QED
      BY <1>1, <2>1 DEF Unpublish, SoftDelete, Restore, SetFlags
  <1> QED
    BY <1>2, <1>3

\* Steps that change no row.
Reads(r) == Create(r) \/ Open(r) \/ Settings(r) \/ ReadBack(r) \/ Return(r) \/ Refuse(r)

LEMMA ReadsType ==
    ASSUME TypeOK, NEW r \in Requests, Reads(r)
    PROVE  /\ UNCHANGED <<posts, clobbered, partial, purged>>
           /\ \E next \in Request : Goto(r, next)
  <1>1. CASE Create(r)
    <2>1. PICK n \in Names, row \in NewRows(UserOf[r]) : Create(r)!(n, row)
      BY <1>1 DEF Create
    <2>2. row \in Row
      BY NewRowType, PostsAssumption
    <2>3. Holding(n, "conflict", None, None) \in Request /\ Holding(n, "insert", None, row) \in Request
      BY <2>2, HoldingIsARequest DEF Stages, Refusals
    <2> QED
      BY <2>1, <2>3
  <1>2. CASE Open(r)
    <2>1. PICK n \in Names, op \in Sent, b \in Bodies : Open(r)!(n, op, b)
      BY <1>2 DEF Open
    <2>2. op \in Ops /\ op # None
      BY PostsAssumption
    <2>3. Holding(n, IF op = "pin" THEN "settings" ELSE "write", op,
                  IF op \in Puts THEN b ELSE None) \in Request
      BY <2>2, HoldingIsARequest DEF Stages, Puts
    <2> QED
      BY <2>1, <2>3
  <1>3. CASE Settings(r)
    <2>1. req[r].at = "settings" /\ req[r].name \in Names
      BY <1>3, RequestFields DEF Settings
    <2>2. At(r, "conflict") \in Request
      BY <2>1, AtIsARequest
    <2>3. \A new \in Setting : Holding(req[r].name, "save", None, new) \in Request
      BY <2>1, HoldingIsARequest DEF Stages
    <2>4. CASE Exists(req[r].name)
      BY <1>3, <2>2, <2>3, <2>4 DEF Settings, SettingsOf
    <2>5. CASE ~Exists(req[r].name)
      BY <1>3, <2>5, IdleIsARequest DEF Settings
    <2> QED
      BY <2>4, <2>5
  <1>4. CASE ReadBack(r)
    BY <1>4, AtIsARequest, IdleIsARequest DEF ReadBack
  <1>5. CASE Return(r) \/ Refuse(r)
    BY <1>5, IdleIsARequest DEF Return, Refuse
  <1> QED
    BY <1>1, <1>2, <1>3, <1>4, <1>5 DEF Reads

LEMMA PostsTypeStep == TypeOK /\ [Next]_vars => TypeOK'
  <1> SUFFICES ASSUME TypeOK, [Next]_vars PROVE TypeOK'
    OBVIOUS
  <1>1. ASSUME NEW r \in Requests, Reads(r) PROVE TypeOK'
    BY <1>1, ReadsType, GotoType DEF TypeOK
  <1>2. ASSUME NEW r \in Requests, req[r].at # "idle", NEW stage \in {"terms", "read", "drop", "internal"},
               Goto(r, At(r, stage)) \/ GotoWritten(r, At(r, stage))
        PROVE  req' \in [Requests -> Request]
    BY <1>2, AtIsARequest, GotoType, GotoWrittenType
  <1>3. ASSUME NEW r \in Requests, Insert(r) PROVE TypeOK'
    <2>1. req[r].at # "idle" /\ req[r].name \in Names /\ req[r].hand \in Row
      BY <1>3, InsertStep, RequestFields
    <2>2. posts' \in [Names -> Row \cup {None}]
      BY <1>3, <2>1, InsertStep, PutRowType DEF TypeOK
    <2> QED
      BY <1>2, <1>3, <2>1, <2>2, InsertStep DEF TypeOK
  <1>4. ASSUME NEW r \in Requests, Terms(r) PROVE TypeOK'
    <2>1. req[r].at # "idle" /\ req[r].name \in Names
      BY <1>4, TermsStep, RequestFields
    <2>2. posts' \in [Names -> Row \cup {None}]
      BY <1>4, <2>1, TermsStep, PutRowType, ChangedRowType DEF TypeOK, Exists
    <2> QED
      BY <1>2, <1>4, <2>1, <2>2, TermsStep DEF TypeOK
  <1>5. ASSUME NEW r \in Requests, WriteContent(r) PROVE TypeOK'
    <2>1. /\ req[r].at = "write" /\ req[r].name \in Names
          /\ req[r].op \in Puts /\ req[r].hand \in Bodies
      BY <1>5, WriteContentStep, RequestFields
    <2>2. posts' \in [Names -> Row \cup {None}]
      <3>1. ASSUME Exists(req[r].name)
            PROVE  [posts[req[r].name] EXCEPT !.body = req[r].hand, !.excerpt = req[r].hand] \in Row
        <4>1. posts[req[r].name] \in Row
          BY <2>1, <3>1 DEF TypeOK, Exists
        <4> QED
          BY <2>1, <4>1, ChangedRowType
      <3> QED
        BY <1>5, <2>1, <3>1, WriteContentStep, PutRowType DEF TypeOK
    <2>3. Holding(req[r].name, "settings", req[r].op, None) \in Request
      BY <2>1, HoldingIsARequest, PostsAssumption DEF Stages, Puts, Ops
    <2>4. req' \in [Requests -> Request]
      BY <1>5, <2>3, WriteContentStep, IdleIsARequest, GotoType, GotoWrittenType
    <2> QED
      BY <1>5, <2>2, <2>4, WriteContentStep DEF TypeOK
  <1>6. ASSUME NEW r \in Requests, Save(r) PROVE TypeOK'
    <2>1. req[r].at # "idle" /\ req[r].name \in Names /\ req[r].hand \in Setting
      BY <1>6, SaveStep, RequestFields
    <2>2. posts' \in [Names -> Row \cup {None}]
      <3>1. ASSUME Exists(req[r].name)
            PROVE  [posts[req[r].name] EXCEPT !.slug = req[r].hand.slug,
                                      !.visible = req[r].hand.visible,
                                      !.excerpt = req[r].hand.excerpt,
                                      !.stamped = req[r].hand.stamped] \in Row
        <4>1. posts[req[r].name] \in Row
          BY <2>1, <3>1 DEF TypeOK, Exists
        <4> QED
          BY <2>1, <4>1, ChangedRowType
      <3> QED
        BY <1>6, <2>1, <3>1, SaveStep, PutRowType DEF TypeOK
    <2>3. req' \in [Requests -> Request] /\ clobbered' \subseteq Names
      BY <1>2, <1>6, <2>1, SaveStep DEF TypeOK
    <2> QED
      BY <1>6, <2>2, <2>3, SaveStep DEF TypeOK
  <1>7. ASSUME NEW r \in Requests, Publish(r) PROVE TypeOK'
    <2>1. req[r].at # "idle" /\ req[r].name \in Names
      BY <1>7, PublishStep, RequestFields
    <2>2. posts' \in [Names -> Row \cup {None}]
      <3>1. ASSUME Exists(req[r].name)
            PROVE  \A v \in Visibilities :
              [posts[req[r].name] EXCEPT !.published = TRUE, !.stamped = TRUE, !.visible = v] \in Row
        <4>1. posts[req[r].name] \in Row
          BY <2>1, <3>1 DEF TypeOK, Exists
        <4> QED
          BY <2>1, <4>1, ChangedRowType
      <3> QED
        BY <1>7, <2>1, <3>1, PublishStep, PutRowType DEF TypeOK
    <2> QED
      BY <1>2, <1>7, <2>1, <2>2, PublishStep DEF TypeOK
  <1>8. ASSUME NEW r \in Requests, Unpublish(r) \/ SoftDelete(r) \/ Restore(r) PROVE TypeOK'
    <2>1. req[r].at # "idle" /\ req[r].name \in Names
      BY <1>8, FlagsStep, RequestFields
    <2>2. posts' \in [Names -> Row \cup {None}]
      <3>1. ASSUME Exists(req[r].name)
            PROVE  /\ [posts[req[r].name] EXCEPT !.published = FALSE] \in Row
              /\ [posts[req[r].name] EXCEPT !.deleted = TRUE, !.published = FALSE] \in Row
              /\ [posts[req[r].name] EXCEPT !.deleted = FALSE] \in Row
        <4>1. posts[req[r].name] \in Row
          BY <2>1, <3>1 DEF TypeOK, Exists
        <4> QED
          BY <2>1, <4>1, ChangedRowType
      <3> QED
        BY <1>8, <2>1, <3>1, FlagsStep, PutRowType DEF TypeOK
    <2> QED
      BY <1>2, <1>8, <2>1, <2>2, FlagsStep DEF TypeOK
  <1>9. ASSUME NEW r \in Requests, Purge(r) PROVE TypeOK'
    <2>1. req[r].at # "idle" /\ req[r].name \in Names
      BY <1>9, RequestFields DEF Purge
    <2> QED
      BY <1>2, <1>9, <2>1 DEF Purge, TypeOK
  <1>10. ASSUME NEW S \in SUBSET Requests PROVE Unfinished(S) \subseteq Names
    BY RequestFields DEF Unfinished
  <1>11. ASSUME NEW r \in Requests, Abandon(r) PROVE TypeOK'
    BY <1>10, <1>11, IdleIsARequest, GotoType DEF Abandon, TypeOK
  <1>12. CASE Restart
    BY <1>10, <1>12, IdleIsARequest DEF Restart, TypeOK
  <1>13. CASE UNCHANGED vars
    BY <1>13 DEF vars, TypeOK
  <1> QED
    BY <1>1, <1>3, <1>4, <1>5, <1>6, <1>7, <1>8, <1>9, <1>11, <1>12, <1>13
       DEF Next, Begin, Continue, Reads

\* TypeOK holds in every reachable state of Posts.
THEOREM PostsTypeOK == Spec => []TypeOK
  <1>1. Init => TypeOK
    BY IdleIsARequest DEF Init, TypeOK
  <1> QED
    BY <1>1, PostsTypeStep, PTL DEF Spec
-----------------------------------------------------------------------------
(* Slugs, terms and owners.                                                *)

\* What a handler's statement may do to its post n: what it changes it changes
\* in place, and it takes a slug only where no other post has it.
Changes(r, n, new) ==
    /\ Exists(n)
    /\ new \in Row
    /\ posts' = [posts EXCEPT ![n] = new]
    /\ new.owner = posts[n].owner
    /\ posts[n].terms \/ Terms(r) => new.terms
    /\ new.slug = posts[n].slug \/ ~SlugTaken(new.slug, n)

\* A statement creates its post, changes it, purges it or leaves it.
LEMMA OnePostChanges ==
    ASSUME TypeOK, NEW r \in Requests, Writes(r)
    PROVE  /\ req[r].name \in Names
           /\ \/ UNCHANGED posts /\ (Terms(r) => ~Exists(req[r].name))
              \/ /\ Insert(r) /\ ~Exists(req[r].name)
                 /\ ~SlugTaken(req[r].hand.slug, req[r].name)
                 /\ posts' = [posts EXCEPT ![req[r].name] = req[r].hand]
              \/ \E new \in Row : Changes(r, req[r].name, new)
              \/ Purge(r) /\ posts' = [posts EXCEPT ![req[r].name] = None]
  <1> DEFINE n == req[r].name
             row == posts[n]
  <1>1. n \in Names
    BY RequestFields DEF Writes, Insert, Terms, WriteContent, Save, Publish, Unpublish,
                         SoftDelete, Restore, SetFlags, Purge
  <1>2. Exists(n) => row \in Row
    BY <1>1 DEF TypeOK, Exists
  <1>0. Terms(r) => req[r].at = "terms"
    BY DEF Terms
  <1>3. CASE Insert(r)
    BY <1>0, <1>1, <1>3, InsertStep
  <1>4. CASE Terms(r)
    <2> DEFINE new == [row EXCEPT !.terms = TRUE]
    <2>1. ASSUME Exists(n), posts' = [posts EXCEPT ![n] = new]
          PROVE  new \in Row /\ Changes(r, n, new)
      <3>1. new \in Row
        BY <1>2, <2>1, ChangedRowType
      <3>2. new.owner = row.owner /\ new.slug = row.slug /\ new.terms
        BY <1>2, <2>1 DEF Row
      <3> QED
        BY <2>1, <3>1, <3>2 DEF Changes
    <2> QED
      BY <1>1, <1>4, <2>1, TermsStep
  <1>5. CASE WriteContent(r)
    <2> DEFINE new == [row EXCEPT !.body = req[r].hand, !.excerpt = req[r].hand]
    <2>1. ASSUME Exists(n), posts' = [posts EXCEPT ![n] = new]
          PROVE  new \in Row /\ Changes(r, n, new)
      <3>1. req[r].hand \in Bodies
        BY <1>5, WriteContentStep, RequestFields
      <3>2. new \in Row
        BY <1>2, <2>1, <3>1, ChangedRowType
      <3>3. new.owner = row.owner /\ new.slug = row.slug /\ new.terms = row.terms
        BY <1>2, <2>1 DEF Row
      <3> QED
        BY <1>0, <2>1, <3>2, <3>3, <1>5, WriteContentStep DEF Changes
    <2> QED
      BY <1>0, <1>1, <1>5, <2>1, WriteContentStep
  <1>6. CASE Save(r)
    <2> DEFINE hand == req[r].hand
               new == [row EXCEPT !.slug = hand.slug, !.visible = hand.visible,
                                  !.excerpt = hand.excerpt, !.stamped = hand.stamped]
    <2>1. ASSUME Exists(n), ~SlugTaken(hand.slug, n), posts' = [posts EXCEPT ![n] = new]
          PROVE  new \in Row /\ Changes(r, n, new)
      <3>1. hand \in Setting
        BY <1>6, SaveStep, RequestFields
      <3>2. new \in Row
        BY <1>2, <2>1, <3>1, ChangedRowType
      <3>3. new.owner = row.owner /\ new.slug = hand.slug /\ new.terms = row.terms
        BY <1>2, <2>1 DEF Row
      <3> QED
        BY <1>0, <2>1, <3>2, <3>3, <1>6, SaveStep DEF Changes
    <2> QED
      BY <1>0, <1>1, <1>6, <2>1, SaveStep
  <1>7. CASE Publish(r)
    <2>1. ASSUME NEW v \in Visibilities, Exists(n),
                 posts' = [posts EXCEPT ![n] = [row EXCEPT !.published = TRUE,
                                                          !.stamped = TRUE, !.visible = v]]
          PROVE  \E new \in Row : Changes(r, n, new)
      <3> DEFINE new == [row EXCEPT !.published = TRUE, !.stamped = TRUE, !.visible = v]
      <3>1. new \in Row
        BY <1>2, <2>1, ChangedRowType
      <3>2. new.owner = row.owner /\ new.slug = row.slug /\ new.terms = row.terms
        BY <1>2, <2>1 DEF Row
      <3>3. Changes(r, n, new)
        BY <1>0, <2>1, <3>1, <3>2, <1>7, PublishStep DEF Changes
      <3> QED
        BY <3>1, <3>3
    <2> QED
      BY <1>0, <1>1, <1>7, <2>1, PublishStep
  <1>8. CASE Unpublish(r) \/ SoftDelete(r) \/ Restore(r)
    <2>1. ASSUME NEW new \in { [row EXCEPT !.published = FALSE],
                              [row EXCEPT !.deleted = TRUE, !.published = FALSE],
                              [row EXCEPT !.deleted = FALSE] },
                 Exists(n), posts' = [posts EXCEPT ![n] = new]
          PROVE  new \in Row /\ Changes(r, n, new)
      <3>1. new \in Row
        BY <1>2, <2>1, ChangedRowType
      <3>2. new.owner = row.owner /\ new.slug = row.slug /\ new.terms = row.terms
        BY <1>2, <2>1 DEF Row
      <3> QED
        BY <1>0, <2>1, <3>1, <3>2, <1>8, FlagsStep DEF Changes
    <2> QED
      BY <1>0, <1>1, <1>8, <2>1, FlagsStep
  <1>9. CASE Purge(r)
    BY <1>0, <1>1, <1>9 DEF Purge
  <1> QED
    BY <1>3, <1>4, <1>5, <1>6, <1>7, <1>8, <1>9 DEF Writes

LEMMA SlugsStep == TypeOK /\ SlugsAreUnique /\ [Next]_vars => SlugsAreUnique'
  <1> SUFFICES ASSUME TypeOK, SlugsAreUnique, [Next]_vars PROVE SlugsAreUnique'
    OBVIOUS
  <1>1. CASE UNCHANGED posts
    BY <1>1 DEF SlugsAreUnique, Exists
  <1>2. ASSUME NEW n \in Names, NEW row, posts' = [posts EXCEPT ![n] = row],
               row = None \/ ~SlugTaken(row.slug, n) \/ (Exists(n) /\ row.slug = posts[n].slug)
        PROVE  SlugsAreUnique'
    <2>1. posts'[n] = row /\ \A m \in Names \ {n} : posts'[m] = posts[m]
      BY <1>2 DEF TypeOK
    <2> QED
      BY <1>2, <2>1 DEF SlugsAreUnique, SlugTaken, Exists
  <1>3. ASSUME NEW r \in Requests, Writes(r) PROVE SlugsAreUnique'
    <2>1. req[r].name \in Names
      BY <1>3, OnePostChanges
    <2>2. ASSUME NEW new \in Row, Changes(r, req[r].name, new) PROVE SlugsAreUnique'
      BY <1>2, <2>1, <2>2 DEF Changes
    <2> QED
      BY <1>1, <1>2, <1>3, <2>1, <2>2, OnePostChanges
  <1>4. ASSUME NEW r \in Requests, Reads(r) PROVE SlugsAreUnique'
    BY <1>1, <1>4, ReadsType
  <1>5. ASSUME NEW r \in Requests, Abandon(r) PROVE SlugsAreUnique'
    BY <1>1, <1>5 DEF Abandon
  <1> QED
    BY <1>1, <1>3, <1>4, <1>5 DEF Next, Begin, Continue, Reads, Writes, Restart, vars

\* No two posts ever have one slug, although handlers look for it in a statement
\* before the one that takes it.
THEOREM PostsSlugsAreUnique == Spec => []SlugsAreUnique
  <1>1. Init => SlugsAreUnique
    BY DEF Init, SlugsAreUnique, Exists
  <1> QED
    BY <1>1, SlugsStep, PostsTypeOK, PTL DEF Spec

\* The stage r has come to by a step, and what it rests on.
LEMMA StageStep ==
    ASSUME TypeOK, NEW r \in Requests, Reads(r) \/ Writes(r) \/ Abandon(r)
    PROVE  \/ req'[r].at \in {"idle", "read", "answer", "drop", "conflict", "internal"}
           \/ /\ req'[r].at = "insert" /\ Create(r)
              /\ req'[r].hand \in NewRows(UserOf[r])
           \/ /\ req'[r].at \in {"write", "settings"} /\ Open(r)
              /\ Exists(req'[r].name) /\ posts[req'[r].name].owner = UserOf[r]
           \/ /\ req'[r].at = "terms" /\ Insert(r) /\ req'[r].name = req[r].name
              /\ posts' = [posts EXCEPT ![req[r].name] = req[r].hand]
           \/ /\ req'[r].at = "settings" /\ req[r].at = "write" /\ req'[r].name = req[r].name
           \/ /\ req'[r].at = "save" /\ req[r].at = "settings" /\ req'[r].name = req[r].name
  <1>1. \A next : Goto(r, next) \/ GotoWritten(r, next) => req'[r] = next
    BY DEF Goto, GotoWritten, TypeOK
  <1>2. /\ Idle.at = "idle"
        /\ \A stage : At(r, stage).at = stage /\ At(r, stage).name = req[r].name
        /\ \A n, at, op, hand : /\ Holding(n, at, op, hand).at = at
                               /\ Holding(n, at, op, hand).name = n
                               /\ Holding(n, at, op, hand).hand = hand
    BY DEF Idle, At, Holding
  <1>3. CASE Create(r)
    <2>1. PICK n \in Names, row \in NewRows(UserOf[r]) : Create(r)!(n, row)
      BY <1>3 DEF Create
    <2> QED
      BY <1>1, <1>2, <1>3, <2>1
  <1>4. CASE Open(r)
    <2>1. PICK n \in Names, op \in Sent, b \in Bodies : Open(r)!(n, op, b)
      BY <1>4 DEF Open
    <2> QED
      BY <1>1, <1>2, <1>4, <2>1
  <1>5. CASE Settings(r)
    <2>1. CASE Exists(req[r].name)
      BY <1>1, <1>2, <1>5, <2>1 DEF Settings
    <2>2. CASE ~Exists(req[r].name)
      BY <1>1, <1>2, <1>5, <2>2 DEF Settings
    <2> QED
      BY <2>1, <2>2
  <1>6. CASE ReadBack(r) \/ Return(r) \/ Refuse(r) \/ Abandon(r) \/ Purge(r)
    BY <1>1, <1>2, <1>6 DEF ReadBack, Return, Refuse, Abandon, Purge
  <1>7. CASE Insert(r)
    BY <1>1, <1>2, <1>7, InsertStep
  <1>8. CASE WriteContent(r)
    <2>1. \/ req'[r] = Idle
          \/ req'[r] = Holding(req[r].name, "settings", req[r].op, None)
      BY <1>1, <1>8, WriteContentStep
    <2>2. req[r].at = "write"
      BY <1>8, WriteContentStep
    <2> QED
      BY <1>2, <2>1, <2>2
  <1>9. CASE Terms(r) \/ Save(r) \/ Publish(r) \/ Unpublish(r) \/ SoftDelete(r) \/ Restore(r)
    <2>1. CASE Terms(r)
      BY <1>1, <1>2, <2>1, TermsStep
    <2>2. CASE Save(r)
      BY <1>1, <1>2, <2>2, SaveStep
    <2>3. CASE Publish(r)
      BY <1>1, <1>2, <2>3, PublishStep
    <2>4. CASE Unpublish(r) \/ SoftDelete(r) \/ Restore(r)
      BY <1>1, <1>2, <2>4, FlagsStep
    <2> QED
      BY <1>9, <2>1, <2>2, <2>3, <2>4
  <1> QED
    BY <1>3, <1>4, <1>5, <1>6, <1>7, <1>8, <1>9 DEF Reads, Writes

\* The other handlers stay where they are.
LEMMA OthersStay ==
    ASSUME TypeOK, NEW r \in Requests, Reads(r) \/ Writes(r) \/ Abandon(r),
           NEW q \in Requests \ {r}
    PROVE  /\ req'[q].at = req[q].at /\ req'[q].name = req[q].name
           /\ req'[q].op = req[q].op /\ req'[q].hand = req[q].hand
           /\ req[q].stale => req'[q].stale
  <1>1. req[q] \in [at : Stages, op : Ops \cup {None}, name : Names \cup {None},
                    hand : Row \cup Setting \cup Bodies \cup {None}, stale : BOOLEAN]
    BY DEF TypeOK, Request
  <1>2. ASSUME NEW next, Goto(r, next) PROVE req'[q] = req[q]
    BY <1>2 DEF Goto, TypeOK
  <1>3. ASSUME NEW next, GotoWritten(r, next)
        PROVE  req'[q] = req[q] \/ req'[q] = [req[q] EXCEPT !.stale = TRUE]
    BY <1>3 DEF GotoWritten
  <1>4. \E next : Goto(r, next) \/ GotoWritten(r, next)
    <2>1. CASE Reads(r)
      BY <2>1, ReadsType
    <2>2. CASE Abandon(r) \/ Purge(r)
      BY <2>2 DEF Abandon, Purge
    <2>3. CASE Writes(r) /\ ~Purge(r)
      BY <2>3, InsertStep, TermsStep, WriteContentStep, SaveStep, PublishStep, FlagsStep DEF Writes
    <2> QED
      BY <2>1, <2>2, <2>3
  <1> QED
    BY <1>1, <1>2, <1>3, <1>4

\* Every step that is not a restart is a step of one handler.
LEMMA StepOfOne ==
    ASSUME [Next]_vars
    PROVE  \/ \E r \in Requests : Reads(r) \/ Writes(r) \/ Abandon(r)
           \/ Restart
           \/ UNCHANGED vars
  BY DEF Next, Begin, Continue, Reads, Writes

\* A post lacks its terms only while they are being stored, or for good when the
\* handler that created it stopped before them.
LEMMA TermsInvStep ==
    TypeOK /\ OnlyAPartialDraftLacksTerms /\ [Next]_vars => OnlyAPartialDraftLacksTerms'
  <1> SUFFICES ASSUME TypeOK, OnlyAPartialDraftLacksTerms, [Next]_vars,
                      NEW n \in Names \ partial', Exists(n)', ~posts'[n].terms
               PROVE  \E r \in Requests : req'[r].name = n /\ req'[r].at = "terms"
    BY DEF OnlyAPartialDraftLacksTerms
  <1> USE DEF Exists
  <1>1. ASSUME n \notin partial, Exists(n), ~posts[n].terms
        PROVE  \E q \in Requests : req[q].name = n /\ req[q].at = "terms"
    BY <1>1 DEF OnlyAPartialDraftLacksTerms
  <1>2. CASE UNCHANGED vars
    BY <1>1, <1>2 DEF vars
  <1>3. CASE Restart
    BY <1>1, <1>3 DEF Restart, Unfinished
  <1>4. ASSUME NEW r \in Requests, Reads(r)
        PROVE  \E q \in Requests : req'[q].name = n /\ req'[q].at = "terms"
    <2>1. UNCHANGED <<posts, partial>>
      BY <1>4, ReadsType
    <2>2. PICK q \in Requests : req[q].name = n /\ req[q].at = "terms"
      BY <1>1, <2>1
    <2>3. req[r].at # "terms"
      BY <1>4 DEF Reads, Create, Open, Settings, ReadBack, Return, Refuse, Refusals
    <2> QED
      BY <1>4, <2>2, <2>3, OthersStay
  <1>5. ASSUME NEW r \in Requests, Abandon(r)
        PROVE  \E q \in Requests : req'[q].name = n /\ req'[q].at = "terms"
    <2>1. posts' = posts /\ partial' = partial \cup Unfinished({r})
      BY <1>5 DEF Abandon
    <2>2. PICK q \in Requests : req[q].name = n /\ req[q].at = "terms"
      BY <1>1, <2>1
    <2>3. q # r
      BY <2>1, <2>2 DEF Unfinished
    <2> QED
      BY <1>5, <2>2, <2>3, OthersStay
  <1>6. ASSUME NEW r \in Requests, Writes(r)
        PROVE  \E q \in Requests : req'[q].name = n /\ req'[q].at = "terms"
    <2> DEFINE m == req[r].name
    <2>1. m \in Names /\ (partial' = partial \/ (Purge(r) /\ partial' = partial \ {m}))
      BY <1>6, OnePostChanges, InsertStep, TermsStep, WriteContentStep, SaveStep,
         PublishStep, FlagsStep DEF Writes, Purge
    <2>2. req[r].at = "terms" => Terms(r)
      BY <1>6, InsertStep, WriteContentStep, SaveStep, PublishStep, FlagsStep DEF Writes, Purge
    <2>3. ASSUME Exists(n), ~posts[n].terms, n \notin partial, ~(n = m /\ Terms(r))
          PROVE  \E q \in Requests : req'[q].name = n /\ req'[q].at = "terms"
      <3>1. PICK q \in Requests : req[q].name = n /\ req[q].at = "terms"
        BY <1>1, <2>3
      <3>2. q # r
        BY <2>2, <2>3, <3>1
      <3> QED
        BY <1>6, <3>1, <3>2, OthersStay
    <2>4. CASE UNCHANGED posts /\ (Terms(r) => ~Exists(m))
      <3>1. partial' = partial \/ n # m
        BY <2>1, <2>4 DEF Purge, TypeOK
      <3> QED
        BY <2>1, <2>3, <2>4, <3>1
    <2>5. CASE Insert(r) /\ posts' = [posts EXCEPT ![m] = req[r].hand]
               /\ ~Exists(m)
      <3>1. CASE n = m
        <4>1. GotoWritten(r, At(r, "terms"))
          BY <1>6, <2>1, <2>5, <3>1, InsertStep DEF TypeOK
        <4> QED
          BY <3>1, <4>1 DEF GotoWritten, At, Holding
      <3>2. CASE n # m
        BY <2>1, <2>3, <2>5, <3>2 DEF TypeOK
      <3> QED
        BY <3>1, <3>2
    <2>6. ASSUME NEW new \in Row, Changes(r, m, new)
          PROVE  \E q \in Requests : req'[q].name = n /\ req'[q].at = "terms"
      <3>1. /\ posts'[m] = new /\ (n # m => posts'[n] = posts[n])
            /\ posts[m].terms \/ Terms(r) => new.terms
            /\ Exists(m) /\ new # None
        BY <2>1, <2>6, PostsAssumption DEF Changes, TypeOK
      <3>2. partial' = partial
        BY <2>1, <3>1 DEF Purge, TypeOK
      <3> QED
        BY <2>3, <3>1, <3>2
    <2>7. CASE Purge(r) /\ posts' = [posts EXCEPT ![m] = None]
      BY <2>1, <2>3, <2>7 DEF TypeOK
    <2> QED
      BY <1>6, <2>4, <2>5, <2>6, <2>7, OnePostChanges
  <1> QED
    BY <1>2, <1>3, <1>4, <1>5, <1>6, StepOfOne

\* A post that has neither tags nor categories stored is one whose creation is
\* under way or was cut short.
THEOREM PostsOnlyPartialLackTerms == Spec => []OnlyAPartialDraftLacksTerms
  <1>1. Init => OnlyAPartialDraftLacksTerms
    BY DEF Init, OnlyAPartialDraftLacksTerms, Exists
  <1> QED
    BY <1>1, TermsInvStep, PostsTypeOK, PTL DEF Spec

\* A handler that may still write is one of the owner's, if the name was never
\* purged; a draft belongs to the user that sends it.
OwnerInv ==
    \A r \in Requests :
        /\ req[r].at = "insert" => req[r].hand.owner = UserOf[r]
        /\ req[r].at \in {"terms", "write", "settings", "save"} /\ req[r].name \notin purged =>
             Exists(req[r].name) /\ posts[req[r].name].owner = UserOf[r]

LEMMA OwnersStay ==
    ASSUME TypeOK, NEW r \in Requests, Reads(r) \/ Writes(r) \/ Abandon(r),
           NEW n \in Names \ purged', Exists(n)
    PROVE  Exists(n)' /\ posts'[n].owner = posts[n].owner /\ n \notin purged
  <1> USE DEF Exists
  <1>1. CASE Reads(r) \/ Abandon(r)
    BY <1>1, ReadsType DEF Abandon
  <1>2. CASE Writes(r)
    <2>1. purged \subseteq purged'
      BY <1>2, InsertStep, TermsStep, WriteContentStep, SaveStep, PublishStep, FlagsStep
         DEF Writes, Purge
    <2>2. Purge(r) => n # req[r].name
      BY DEF Purge
    <2>3. ASSUME NEW new \in Row, Changes(r, req[r].name, new)
          PROVE  Exists(n)' /\ posts'[n].owner = posts[n].owner
      BY <2>3, PostsAssumption DEF Changes, TypeOK
    <2> QED
      BY <1>2, <2>1, <2>2, <2>3, OnePostChanges DEF TypeOK
  <1> QED
    BY <1>1, <1>2

LEMMA OwnerInvStep == TypeOK /\ OwnerInv /\ [Next]_vars => OwnerInv'
  <1> SUFFICES ASSUME TypeOK, OwnerInv, [Next]_vars PROVE OwnerInv'
    OBVIOUS
  <1> USE DEF Exists
  <1>1. CASE UNCHANGED vars
    BY <1>1 DEF vars, OwnerInv
  <1>2. CASE Restart
    BY <1>2 DEF Restart, OwnerInv, Idle, Holding
  <1>3. ASSUME NEW r \in Requests, Reads(r) \/ Writes(r) \/ Abandon(r) PROVE OwnerInv'
    <2>1. purged \subseteq purged'
      BY <1>3, ReadsType, InsertStep, TermsStep, WriteContentStep, SaveStep, PublishStep, FlagsStep
         DEF Writes, Purge, Abandon
    <2>2. ASSUME NEW q \in Requests \ {r}
          PROVE  /\ req'[q].at = "insert" => req'[q].hand.owner = UserOf[q]
                 /\ req'[q].at \in {"terms", "write", "settings", "save"}
                      /\ req'[q].name \notin purged' =>
                        Exists(req[q].name)' /\ posts'[req[q].name].owner = UserOf[q]
      <3>1. /\ req'[q].at = req[q].at /\ req'[q].name = req[q].name
            /\ req'[q].hand = req[q].hand
        BY <1>3, OthersStay
      <3>2. CASE req[q].at \in {"terms", "write", "settings", "save"} /\ req[q].name \notin purged'
        <4>1. req[q].name \in Names
          BY <3>2, RequestFields
        <4>2. Exists(req[q].name) /\ posts[req[q].name].owner = UserOf[q]
          BY <2>1, <3>2 DEF OwnerInv
        <4> QED
          BY <1>3, <3>1, <3>2, <4>1, <4>2, OwnersStay
      <3> QED
        BY <3>1, <3>2 DEF OwnerInv
    <2>3. req'[r].at = "insert" => req'[r].hand.owner = UserOf[r]
      BY <1>3, StageStep, NewRowType, PostsAssumption
    <2>4. ASSUME req'[r].at \in {"terms", "write", "settings", "save"}, req'[r].name \notin purged'
          PROVE  Exists(req[r].name)' /\ posts'[req'[r].name].owner = UserOf[r]
      <3>1. CASE Open(r) /\ Exists(req'[r].name) /\ posts[req'[r].name].owner = UserOf[r]
        BY <3>1, ReadsType DEF Reads
      <3>2. CASE /\ Insert(r) /\ req'[r].name = req[r].name
                 /\ posts' = [posts EXCEPT ![req[r].name] = req[r].hand]
        <4>1. req[r].at = "insert" /\ req[r].name \in Names /\ req[r].hand \in Row
          BY <3>2, InsertStep, RequestFields
        <4>2. req[r].hand # None /\ req[r].hand.owner = UserOf[r]
          BY <4>1, PostsAssumption DEF OwnerInv
        <4> QED
          BY <3>2, <4>1, <4>2 DEF TypeOK
      <3>3. CASE req[r].at \in {"write", "settings"} /\ req'[r].name = req[r].name
        <4>1. req[r].name \in Names /\ req[r].name \notin purged
          BY <2>1, <2>4, <3>3, RequestFields
        <4>2. Exists(req[r].name) /\ posts[req[r].name].owner = UserOf[r]
          BY <3>3, <4>1 DEF OwnerInv
        <4> QED
          BY <1>3, <2>4, <3>3, <4>1, <4>2, OwnersStay
      <3> QED
        BY <1>3, <2>4, <3>1, <3>2, <3>3, StageStep
    <2> QED
      BY <2>2, <2>3, <2>4, <1>3, OthersStay DEF OwnerInv
  <1> QED
    BY <1>1, <1>2, <1>3, StepOfOne

\* Only its owner's handlers change a post, except one whose name was purged and
\* given to another post while a handler on the old one was still at work.
THEOREM PostsOnlyTheOwnerWrites == Spec => OnlyTheOwnerWrites
  <1> DEFINE Owned(n) ==
               Exists(n) /\ posts'[n] # posts[n] =>
                 \E r \in Requests : UserOf[r] = posts[n].owner /\ req[r].name = n
                                     /\ req'[r] # req[r]
  <1>1. Init => OwnerInv
    BY DEF Init, OwnerInv, Idle, Holding
  <1>2. TypeOK /\ OwnerInv /\ [Next]_vars => [\A n \in Names \ purged : Owned(n)]_vars
    <2> SUFFICES ASSUME TypeOK, OwnerInv, [Next]_vars, NEW n \in Names \ purged,
                        Exists(n), posts'[n] # posts[n]
                 PROVE  \E r \in Requests : UserOf[r] = posts[n].owner /\ req[r].name = n
                                            /\ req'[r] # req[r]
      OBVIOUS
    <2>1. PICK r \in Requests : Writes(r)
      BY StepOfOne, ReadsType DEF Restart, Abandon, vars
    <2>2. req[r].name = n
      <3>1. ASSUME NEW row, posts' = [posts EXCEPT ![req[r].name] = row] PROVE req[r].name = n
        BY <3>1 DEF TypeOK
      <3> QED
        BY <2>1, <3>1, OnePostChanges DEF Changes
    <2>3. ~Insert(r)
      BY <2>2, InsertStep
    <2>4. req[r].at \in {"terms", "write", "save"}
      BY <2>1, <2>3, TermsStep, WriteContentStep, SaveStep, PublishStep, FlagsStep DEF Writes, Purge
    <2>5. UserOf[r] = posts[n].owner
      BY <2>2, <2>4 DEF OwnerInv
    <2>6. req'[r].at # req[r].at
      <3>1. Create(r) \/ Open(r) => req[r].at = "idle"
        BY DEF Create, Open
      <3> QED
        BY <2>1, <2>3, <2>4, <3>1, StageStep
    <2> QED
      BY <2>2, <2>5, <2>6
  <1> QED
    BY <1>1, <1>2, OwnerInvStep, PostsTypeOK, PTL DEF Spec, OnlyTheOwnerWrites
-----------------------------------------------------------------------------
(* Publication time and excerpt.                                           *)

RowOK(row) == (row.published => row.stamped) /\ row.excerpt \in {Own, row.body}

\* Settings that can be written over this row.
Fits(hand, row) == (row.published => hand.stamped) /\ hand.excerpt \in {Own, row.body}

RowsOK == \A n \in Names \ clobbered : Exists(n) => RowOK(posts[n])

\* A draft is in order, and the settings a handler has in hand fit the post as long
\* as nothing was written to it since the handler read them.
HandsOK ==
    \A r \in Requests :
        /\ req[r].at = "insert" => RowOK(req[r].hand)
        /\ /\ req[r].at = "save" /\ ~req[r].stale
           /\ req[r].name \notin clobbered /\ Exists(req[r].name)
           => Fits(req[r].hand, posts[req[r].name])

\* A statement that changes what settings must fit marks the handlers that have
\* settings of the same post in hand.
LEMMA WritersMark ==
    ASSUME TypeOK, NEW r \in Requests, Writes(r), NEW q \in Requests \ {r},
           req[q].at = "save", req[q].name = req[r].name
    PROVE  \/ req'[q].stale
           \/ UNCHANGED <<posts, clobbered>>
           \/ /\ Terms(r) \/ Unpublish(r) \/ SoftDelete(r) \/ Restore(r)
              /\ clobbered' = clobbered
              /\ Exists(req[r].name) /\ posts'[req[r].name] # None
              /\ posts'[req[r].name].body = posts[req[r].name].body
              /\ posts'[req[r].name].published => posts[req[r].name].published
  <1> DEFINE n == req[r].name
             row == posts[n]
  <1>1. n \in Names /\ (Exists(n) => row \in Row)
    BY OnePostChanges DEF TypeOK, Exists
  <1>2. ASSUME NEW next, GotoWritten(r, next) PROVE req'[q].stale
    <2>1. req'[q] = [req[q] EXCEPT !.stale = TRUE]
      BY <1>2 DEF GotoWritten
    <2>2. req[q] \in [at : Stages, op : Ops \cup {None}, name : Names \cup {None},
                      hand : Row \cup Setting \cup Bodies \cup {None}, stale : BOOLEAN]
      BY DEF TypeOK, Request
    <2> QED
      BY <2>1, <2>2
  <1>3. CASE Insert(r) \/ WriteContent(r) \/ Save(r) \/ Publish(r) \/ Purge(r)
    BY <1>2, <1>3, InsertStep, WriteContentStep, SaveStep, PublishStep DEF Purge
  <1>4. ASSUME NEW new, Exists(n), new \in Row, posts' = [posts EXCEPT ![n] = new],
               new.body = row.body, new.published => row.published
        PROVE  /\ posts'[n] # None /\ posts'[n].body = row.body
               /\ posts'[n].published => row.published
    <2>1. posts'[n] = new /\ new # None
      BY <1>1, <1>4, PostsAssumption DEF TypeOK
    <2> QED
      BY <1>4, <2>1 DEF Exists
  <1>5. CASE Terms(r)
    <2>1. CASE Exists(n) /\ posts' = [posts EXCEPT ![n] = [row EXCEPT !.terms = TRUE]]
      <3>1. [row EXCEPT !.terms = TRUE] \in Row
        BY <1>1, <2>1, ChangedRowType
      <3>2. /\ [row EXCEPT !.terms = TRUE].body = row.body
            /\ [row EXCEPT !.terms = TRUE].published = row.published
        BY <1>1, <2>1 DEF Row
      <3> QED
        BY <1>4, <1>5, <2>1, <3>1, <3>2, TermsStep
    <2> QED
      BY <1>5, <2>1, TermsStep
  <1>6. CASE Unpublish(r) \/ SoftDelete(r) \/ Restore(r)
    <2>1. ASSUME Exists(n),
                 NEW new \in { [row EXCEPT !.published = FALSE],
                              [row EXCEPT !.deleted = TRUE, !.published = FALSE],
                              [row EXCEPT !.deleted = FALSE] },
                 posts' = [posts EXCEPT ![n] = new]
          PROVE  /\ posts'[n] # None /\ posts'[n].body = row.body
                 /\ posts'[n].published => row.published
      <3>1. new \in Row
        BY <1>1, <2>1, ChangedRowType
      <3>2. new.body = row.body /\ (new.published => row.published)
        BY <1>1, <2>1 DEF Row
      <3> QED
        BY <1>4, <2>1, <3>1, <3>2
    <2> QED
      BY <1>6, <2>1, FlagsStep
  <1> QED
    BY <1>3, <1>5, <1>6 DEF Writes

\* The row a statement leaves is in order if the one it found was and, where it
\* writes settings, they fitted.
LEMMA WritersKeepOrder ==
    ASSUME TypeOK, NEW r \in Requests, Writes(r),
           HandsOK, RowsOK, req[r].name \notin clobbered', posts'[req[r].name] # None
    PROVE  RowOK(posts'[req[r].name])
  <1> DEFINE n == req[r].name
             row == posts[n]
  <1>1. n \in Names /\ (Exists(n) => row \in Row)
    BY OnePostChanges DEF TypeOK, Exists
  <1>2. n \notin clobbered
    BY InsertStep, TermsStep, WriteContentStep, SaveStep, PublishStep, FlagsStep
       DEF Writes, Purge, Exists, TypeOK
  <1>3. Exists(n) => RowOK(row)
    BY <1>1, <1>2 DEF RowsOK
  <1>4. ASSUME UNCHANGED posts PROVE RowOK(posts'[n])
    BY <1>3, <1>4 DEF Exists
  <1>5. ASSUME NEW new, RowOK(new), posts' = [posts EXCEPT ![n] = new] PROVE RowOK(posts'[n])
    BY <1>1, <1>5 DEF TypeOK
  <1>6. CASE Insert(r)
    BY <1>4, <1>5, <1>6, InsertStep DEF HandsOK
  <1>7. CASE Terms(r)
    <2>1. ASSUME Exists(n) PROVE RowOK([row EXCEPT !.terms = TRUE])
      BY <1>1, <1>3, <2>1 DEF RowOK, Row
    <2> QED
      BY <1>4, <1>5, <1>7, <2>1, TermsStep
  <1>8. CASE WriteContent(r)
    <2>1. ASSUME Exists(n)
          PROVE  RowOK([row EXCEPT !.body = req[r].hand, !.excerpt = req[r].hand])
      BY <1>1, <1>3, <2>1 DEF RowOK, Row
    <2> QED
      BY <1>4, <1>5, <1>8, <2>1, WriteContentStep
  <1>9. CASE Save(r)
    <2> DEFINE hand == req[r].hand
               new == [row EXCEPT !.slug = hand.slug, !.visible = hand.visible,
                                  !.excerpt = hand.excerpt, !.stamped = hand.stamped]
    <2>1. CASE UNCHANGED posts
      BY <1>4, <2>1
    <2>2. CASE /\ Exists(n) /\ posts' = [posts EXCEPT ![n] = new]
               /\ clobbered' = IF req[r].stale THEN clobbered \cup {n} ELSE clobbered
      <3>1. ~req[r].stale /\ req[r].at = "save"
        BY <1>9, <2>2, SaveStep
      <3>2. Fits(hand, row)
        BY <1>2, <2>2, <3>1 DEF HandsOK
      <3>3. RowOK(new)
        BY <1>1, <2>2, <3>2 DEF RowOK, Fits, Row
      <3> QED
        BY <1>5, <2>2, <3>3
    <2> QED
      BY <1>9, <2>1, <2>2, SaveStep
  <1>10. CASE Publish(r)
    <2>1. ASSUME Exists(n), NEW v \in Visibilities
          PROVE  RowOK([row EXCEPT !.published = TRUE, !.stamped = TRUE, !.visible = v])
      BY <1>1, <1>3, <2>1 DEF RowOK, Row
    <2> QED
      BY <1>4, <1>5, <1>10, <2>1, PublishStep
  <1>11. CASE Unpublish(r) \/ SoftDelete(r) \/ Restore(r)
    <2>1. ASSUME Exists(n)
          PROVE  /\ RowOK([row EXCEPT !.published = FALSE])
                 /\ RowOK([row EXCEPT !.deleted = TRUE, !.published = FALSE])
                 /\ RowOK([row EXCEPT !.deleted = FALSE])
      BY <1>1, <1>3, <2>1 DEF RowOK, Row
    <2> QED
      BY <1>4, <1>5, <1>11, <2>1, FlagsStep
  <1>12. CASE Purge(r)
    BY <1>1, <1>12 DEF Purge, TypeOK, Exists
  <1> QED
    BY <1>6, <1>7, <1>8, <1>9, <1>10, <1>11, <1>12 DEF Writes

LEMMA ClobberedGrows ==
    ASSUME TypeOK, NEW r \in Requests, Writes(r)
    PROVE  \/ clobbered \subseteq clobbered'
           \/ /\ Purge(r) /\ clobbered' = clobbered \ {req[r].name}
              /\ posts'[req[r].name] = None
  <1>1. Purge(r) => posts'[req[r].name] = None
    BY RequestFields DEF Purge, TypeOK
  <1> QED
    BY <1>1, InsertStep, TermsStep, WriteContentStep, SaveStep, PublishStep, FlagsStep
       DEF Writes, Purge

LEMMA OnlyItsPost ==
    ASSUME TypeOK, NEW r \in Requests, Writes(r), NEW n \in Names \ {req[r].name}
    PROVE  posts'[n] = posts[n]
  <1>1. ASSUME NEW row, posts' = [posts EXCEPT ![req[r].name] = row] PROVE posts'[n] = posts[n]
    BY <1>1 DEF TypeOK
  <1> QED
    BY <1>1, OnePostChanges DEF Changes

LEMMA RowsOKStep == TypeOK /\ HandsOK /\ RowsOK /\ [Next]_vars => RowsOK'
  <1> SUFFICES ASSUME TypeOK, HandsOK, RowsOK, [Next]_vars PROVE RowsOK'
    OBVIOUS
  <1>1. CASE UNCHANGED <<posts, clobbered>>
    BY <1>1 DEF RowsOK, Exists
  <1>2. ASSUME NEW r \in Requests, Writes(r) PROVE RowsOK'
    <2>1. ASSUME NEW n \in Names \ clobbered', posts'[n] # None PROVE RowOK(posts'[n])
      <3>1. CASE n = req[r].name
        BY <1>2, <2>1, <3>1, WritersKeepOrder
      <3>2. CASE n # req[r].name
        BY <1>2, <2>1, <3>2, OnlyItsPost, ClobberedGrows DEF RowsOK, Exists
      <3> QED
        BY <3>1, <3>2
    <2> QED
      BY <2>1 DEF RowsOK, Exists
  <1> QED
    BY <1>1, <1>2, StepOfOne, ReadsType DEF Restart, Abandon, vars

\* The settings that update_settings makes of the row it reads fit that row.
LEMMA SettingsFit ==
    ASSUME TypeOK, RowsOK, NEW r \in Requests, Settings(r), req'[r].at = "save",
           req[r].name \notin clobbered
    PROVE  Fits(req'[r].hand, posts[req[r].name])
  <1> DEFINE row == posts[req[r].name]
  <1>1. \A next : Goto(r, next) => req'[r] = next
    BY DEF Goto, TypeOK
  <1>2. Idle.at = "idle" /\ At(r, "conflict").at = "conflict"
    BY DEF Idle, At, Holding
  <1>3. Exists(req[r].name) /\ req[r].name \in Names
    BY <1>1, <1>2, RequestFields DEF Settings
  <1>4. PICK new \in SettingsOf(req[r].op, row) :
          Goto(r, IF new.slug # row.slug /\ SlugTaken(new.slug, req[r].name)
                  THEN At(r, "conflict")
                  ELSE Holding(req[r].name, "save", None, new))
    BY <1>3 DEF Settings
  <1>5. req'[r].hand = new
    BY <1>1, <1>2, <1>4 DEF Holding
  <1>6. RowOK(row)
    BY <1>3 DEF RowsOK
  <1> QED
    BY <1>4, <1>5, <1>6 DEF SettingsOf, RowOK, Fits

LEMMA HandsOKStep == TypeOK /\ HandsOK /\ RowsOK /\ [Next]_vars => HandsOK'
  <1> SUFFICES ASSUME TypeOK, HandsOK, RowsOK, [Next]_vars PROVE HandsOK'
    OBVIOUS
  <1>1. CASE UNCHANGED vars
    BY <1>1 DEF vars, HandsOK, Exists
  <1>2. CASE Restart
    BY <1>2 DEF Restart, HandsOK, Idle, Holding
  <1>3. ASSUME NEW r \in Requests, Reads(r) \/ Writes(r) \/ Abandon(r) PROVE HandsOK'
    <2>1. ASSUME NEW q \in Requests, req'[q].at = "insert" PROVE RowOK(req'[q].hand)
      <3>1. CASE q = r
        <4>1. req'[r].hand \in NewRows(UserOf[r])
          BY <1>3, <2>1, <3>1, StageStep
        <4> QED
          BY <3>1, <4>1, NewRowType, PostsAssumption DEF RowOK
      <3>2. CASE q # r
        BY <1>3, <2>1, <3>2, OthersStay DEF HandsOK
      <3> QED
        BY <3>1, <3>2
    <2>2. ASSUME NEW q \in Requests, req'[q].at = "save", ~req'[q].stale,
                 req'[q].name \notin clobbered', posts'[req'[q].name] # None
          PROVE  Fits(req'[q].hand, posts'[req'[q].name])
      <3>1. CASE q = r
        <4>1. req[r].at = "settings" /\ req'[r].name = req[r].name
          BY <1>3, <2>2, <3>1, StageStep
        <4>2. Settings(r)
          <5>1. ~Writes(r)
            BY <4>1, InsertStep, TermsStep, WriteContentStep, SaveStep, PublishStep, FlagsStep
               DEF Writes, Purge
          <5>2. ~Abandon(r)
            BY <2>2, <3>1 DEF Abandon, Goto, TypeOK, Idle, Holding
          <5>3. Reads(r) => Settings(r)
            BY <4>1 DEF Reads, Create, Open, ReadBack, Return, Refuse, Refusals
          <5> QED
            BY <1>3, <5>1, <5>2, <5>3
        <4>3. UNCHANGED <<posts, clobbered>>
          BY <4>2 DEF Settings
        <4> QED
          BY <2>2, <3>1, <4>1, <4>2, <4>3, SettingsFit
      <3>2. CASE q # r
        <4>1. /\ req[q].at = "save" /\ ~req[q].stale /\ req'[q].name = req[q].name
              /\ req'[q].hand = req[q].hand
          BY <1>3, <2>2, <3>2, OthersStay
        <4>2. req[q].name \in Names
          BY <4>1, RequestFields
        <4>3. CASE UNCHANGED <<posts, clobbered>>
          BY <2>2, <4>1, <4>3 DEF HandsOK, Exists
        <4>4. CASE Writes(r) /\ req[q].name # req[r].name
          BY <2>2, <4>1, <4>2, <4>4, OnlyItsPost, ClobberedGrows DEF HandsOK, Exists
        <4>5. CASE Writes(r) /\ req[q].name = req[r].name
          <5>1. \/ UNCHANGED <<posts, clobbered>>
                \/ /\ clobbered' = clobbered /\ Exists(req[q].name)
                   /\ posts'[req[q].name].body = posts[req[q].name].body
                   /\ posts'[req[q].name].published => posts[req[q].name].published
            BY <2>2, <3>2, <4>1, <4>5, WritersMark
          <5> QED
            BY <2>2, <4>1, <4>3, <5>1 DEF HandsOK, Fits
        <4> QED
          BY <1>3, <4>3, <4>4, <4>5, ReadsType DEF Abandon
      <3> QED
        BY <3>1, <3>2
    <2> QED
      BY <2>1, <2>2 DEF HandsOK, Exists
  <1> QED
    BY <1>1, <1>2, <1>3, StepOfOne

LEMMA PostsInOrder == Spec => [](RowsOK /\ HandsOK)
  <1>1. Init => RowsOK /\ HandsOK
    BY DEF Init, RowsOK, HandsOK, Exists, Idle, Holding
  <1> QED
    BY <1>1, RowsOKStep, HandsOKStep, PostsTypeOK, PTL DEF Spec

\* A published post has its publish_time, unless settings were written over a change
\* the handler that wrote them had not seen.
THEOREM PostsPublishedIsStamped == Spec => []PublishedIsStamped
  <1>1. RowsOK => PublishedIsStamped
    BY DEF RowsOK, RowOK, PublishedIsStamped
  <1> QED
    BY <1>1, PostsInOrder, PTL

\* The excerpt is the author's or is that of the content, with the same exception.
THEOREM PostsExcerptIsCurrent == Spec => []ExcerptIsCurrent
  <1>1. RowsOK => ExcerptIsCurrent
    BY DEF RowsOK, RowOK, ExcerptIsCurrent
  <1> QED
    BY <1>1, PostsInOrder, PTL
=============================================================================
