---------------------------- MODULE SearchProofs ----------------------------
(***************************************************************************)
(* Proofs about PostsSearch: its types, that the index never holds what    *)
(* visitors could not have read, and that it differs from the table only   *)
(* where something has gone wrong. The second is not inductive: it needs   *)
(* the same of what a handler has read back and is about to index, and of  *)
(* what a rebuild has collected so far (ShownInv). The third needs to know *)
(* which handlers overlap, and that one by itself has the row in hand as   *)
(* it is (DriftInv). The types of PostLists are here too, which rest on    *)
(* those of Posts.                                                         *)
(***************************************************************************)
EXTENDS PostsSearch, PostsProofs

\* A document of a post that was public at some time, or no document.
WasPublic(n, doc) == doc = None \/ doc \in shown[n]

ShownInv ==
    /\ \A n \in Names : WasPublic(n, Indexed(posts[n]))
    /\ \A n \in Names : WasPublic(n, search[n])
    /\ \A r \in Requests :
         answer[r] # None => WasPublic(req[r].name, Indexed(answer[r]))
    /\ rebuild # None => \A n \in Names : WasPublic(n, rebuild.docs[n])

LEMMA IndexedType ==
    ASSUME NEW row \in Row \cup {None}
    PROVE  Indexed(row) \in Doc \cup {None}
  BY DEF Indexed, DocOf, Doc, Row

LEMMA PostIndexedType ==
    ASSUME TypeOK, NEW n \in Names
    PROVE  Indexed(posts[n]) \in Doc \cup {None}
  BY IndexedType DEF TypeOK

\* A step of SearchNext is a step of Posts, or none for it.
LEMMA StepOfPosts == [SearchNext]_allVars => [Next]_vars
  BY DEF SearchNext, Work, BeginOn, ContinueOn, Sync, SyncLost, AbandonOn, Rebuilding,
         RebuildBegin, RebuildRead, RebuildSkip, RebuildCommit, RebuildAbandon, RestartOn,
         Next, vars, allVars

\* What was shown stays shown, and what is public is.
LEMMA ShowStep ==
    ASSUME TypeOK, TypeOK', Show, shown \in [Names -> SUBSET Doc]
    PROVE  /\ shown' \in [Names -> SUBSET Doc]
           /\ \A n \in Names : shown[n] \subseteq shown'[n]
           /\ \A n \in Names : Indexed(posts'[n]) = None \/ Indexed(posts'[n]) \in shown'[n]
  <1>1. ASSUME NEW n \in Names, posts'[n] # None PROVE DocOf(posts'[n]) \in Doc
    BY <1>1 DEF TypeOK, DocOf, Doc, Row
  <1>2. shown' = [n \in Names |->
                    shown[n] \cup IF posts'[n] # None /\ IsPublic(posts'[n])
                                  THEN {DocOf(posts'[n])} ELSE {}]
    BY DEF Show
  <1> QED
    BY <1>1, <1>2 DEF Indexed

\* Handlers that have something to index are at the stage where they do.
LEMMA AnswerStage ==
    ASSUME SearchTypeOK, NEW r \in Requests, Begin(r) \/ Abandon(r)
    PROVE  answer[r] = None
  BY DEF SearchTypeOK, Begin, Create, Open, Abandon

\* Only reading the post back leads to an answer.
LEMMA AnswerIsReadBack ==
    ASSUME TypeOK, NEW r \in Requests, Reads(r) \/ Writes(r) \/ Abandon(r), req'[r].at = "answer"
    PROVE  ReadBack(r) /\ Exists(req[r].name) /\ req'[r].name = req[r].name
  <1>1. \A next : Goto(r, next) \/ GotoWritten(r, next) => req'[r] = next
    BY DEF Goto, GotoWritten, TypeOK
  <1>2. /\ Idle.at = "idle"
        /\ \A stage : At(r, stage).at = stage /\ At(r, stage).name = req[r].name
        /\ \A n, at, op, hand : Holding(n, at, op, hand).at = at
    BY DEF Idle, At, Holding
  <1>3. ~Create(r)
    <2> SUFFICES ASSUME Create(r) PROVE FALSE
      OBVIOUS
    <2>1. PICK n \in Names, row \in NewRows(UserOf[r]) : Create(r)!(n, row)
      BY DEF Create
    <2> QED
      BY <1>1, <1>2, <2>1
  <1>4. ~Open(r)
    <2> SUFFICES ASSUME Open(r) PROVE FALSE
      OBVIOUS
    <2>1. PICK n \in Names, op \in Sent, b \in Bodies : Open(r)!(n, op, b)
      BY DEF Open
    <2> QED
      BY <1>1, <1>2, <2>1
  <1>5. ~Settings(r)
    <2>1. CASE Exists(req[r].name)
      BY <1>1, <1>2, <2>1 DEF Settings
    <2>2. CASE ~Exists(req[r].name)
      BY <1>1, <1>2, <2>2 DEF Settings
    <2> QED
      BY <2>1, <2>2
  <1>6. ~Return(r) /\ ~Refuse(r) /\ ~Abandon(r) /\ ~Purge(r)
    BY <1>1, <1>2 DEF Return, Refuse, Abandon, Purge
  <1>7. ~Insert(r)
    BY <1>1, <1>2, InsertStep
  <1>8. ~Terms(r)
    <2>1. Terms(r) => req'[r] = At(r, "internal") \/ req'[r] = At(r, "read")
      BY <1>1, TermsStep
    <2> QED
      BY <1>2, <2>1
  <1>9. ~WriteContent(r)
    <2>1. WriteContent(r) => \/ req'[r] = Idle
                            \/ req'[r] = Holding(req[r].name, "settings", req[r].op, None)
      BY <1>1, WriteContentStep
    <2> QED
      BY <1>2, <2>1
  <1>10. ~Save(r)
    <2>1. Save(r) => req'[r] = At(r, "internal") \/ req'[r] = At(r, "read")
      BY <1>1, SaveStep
    <2> QED
      BY <1>2, <2>1
  <1>11. ~Publish(r)
    BY <1>1, <1>2, PublishStep
  <1>12. ~(Unpublish(r) \/ SoftDelete(r) \/ Restore(r))
    <2>1. Unpublish(r) \/ SoftDelete(r) \/ Restore(r) =>
            req'[r] = At(r, "read") \/ req'[r] = At(r, "drop")
      BY <1>1, FlagsStep
    <2> QED
      BY <1>2, <2>1
  <1>13. ReadBack(r)
    BY <1>3, <1>4, <1>5, <1>6, <1>7, <1>8, <1>9, <1>10, <1>11, <1>12 DEF Reads, Writes
  <1> QED
    BY <1>1, <1>2, <1>13 DEF ReadBack

\* Steps of a handler, by what they do to the answers.
LEMMA AnswersStep ==
    ASSUME SearchTypeOK, TypeOK', NEW r \in Requests, Reads(r) \/ Writes(r) \/ Abandon(r),
           \/ answer' = answer /\ answer[r] = None /\ req'[r].at # "answer"
           \/ answer' = [answer EXCEPT ![r] =
                            IF req'[r].at = "answer" THEN posts[req[r].name] ELSE None]
           \/ answer' = [answer EXCEPT ![r] = None] /\ req'[r].at # "answer"
    PROVE  /\ answer' \in [Requests -> Row \cup {None}]
           /\ \A q \in Requests : answer'[q] # None <=> req'[q].at = "answer"
           /\ \A q \in Requests \ {r} : answer'[q] = answer[q] /\ req'[q].name = req[q].name
           /\ answer'[r] # None => answer'[r] = posts[req[r].name] /\ req'[r].name = req[r].name
  <1>1. TypeOK /\ answer \in [Requests -> Row \cup {None}]
        /\ \A q \in Requests : answer[q] # None <=> req[q].at = "answer"
    BY DEF SearchTypeOK
  <1>2. req'[r].at = "answer" =>
          /\ posts[req[r].name] \in Row /\ posts[req[r].name] # None
          /\ req'[r].name = req[r].name
    BY <1>1, AnswerIsReadBack, RequestFields DEF ReadBack, TypeOK, Exists
  <1>3. \A q \in Requests \ {r} : req'[q].at = req[q].at /\ req'[q].name = req[q].name
    BY <1>1, OthersStay
  <1> QED
    BY <1>1, <1>2, <1>3

\* What a step of a handler leaves of the index is typed.
LEMMA HandlerTypeStep ==
    ASSUME SearchTypeOK, TypeOK', NEW r \in Requests, Work(r) \/ AbandonOn(r)
    PROVE  SearchTypeOK'
  <1>1. /\ TypeOK /\ search \in Docs /\ extensions \subseteq Names
        /\ rebuild \in Rebuild \cup {None} /\ raced \subseteq Requests
        /\ drifted \subseteq Names /\ shown \in [Names -> SUBSET Doc]
        /\ answer \in [Requests -> Row \cup {None}]
        /\ \A q \in Requests : answer[q] # None <=> req[q].at = "answer"
    BY DEF SearchTypeOK
  <1>2. shown' \in [Names -> SUBSET Doc]
    BY <1>1, ShowStep DEF Work, BeginOn, ContinueOn, Sync, SyncLost, AbandonOn
  <1>3. CASE BeginOn(r)
    <2>1. Begin(r) /\ req[r].at = "idle"
      BY <1>3 DEF BeginOn, Begin, Create, Open
    <2>2. answer' = answer /\ answer[r] = None /\ req'[r].at # "answer"
      BY <1>1, <1>3, <2>1, AnswerIsReadBack DEF BeginOn, Begin, Reads, ReadBack
    <2>3. /\ answer' \in [Requests -> Row \cup {None}]
          /\ \A q \in Requests : answer'[q] # None <=> req'[q].at = "answer"
      BY <2>1, <2>2, AnswersStep DEF Begin, Reads
    <2>4. ASSUME rebuild # None PROVE \A n : [rebuild EXCEPT !.fresh = @ \ {n}] \in Rebuild
      BY <1>1, <2>4 DEF Rebuild
    <2>5. rebuild' \in Rebuild \cup {None}
      BY <1>3, <2>4 DEF BeginOn
    <2>6. raced' \subseteq Requests
      BY <1>1, <1>3 DEF BeginOn
    <2> QED
      BY <1>1, <1>2, <1>3, <2>3, <2>5, <2>6 DEF SearchTypeOK, BeginOn
  <1>4. CASE ContinueOn(r)
    <2>1. /\ Reads(r) \/ Writes(r)
          /\ answer' = [answer EXCEPT ![r] =
                          IF req'[r].at = "answer" THEN posts[req[r].name] ELSE None]
      BY <1>4 DEF ContinueOn, Continue, Reads, Writes
    <2>2. /\ answer' \in [Requests -> Row \cup {None}]
          /\ \A q \in Requests : answer'[q] # None <=> req'[q].at = "answer"
      BY <2>1, AnswersStep
    <2>3. drifted' \subseteq Names
      BY <1>1, <1>4, RequestFields DEF ContinueOn, Unsynced
    <2>4. raced' \subseteq Requests
      BY <1>1, <1>4 DEF ContinueOn
    <2> QED
      BY <1>1, <1>2, <1>4, <2>2, <2>3, <2>4 DEF SearchTypeOK, ContinueOn
  <1>5. ASSUME Return(r) \/ Abandon(r) PROVE req'[r].at # "answer" /\ (Abandon(r) => answer[r] = None)
    BY <1>1, <1>5, AnswerStage DEF Return, Abandon, Goto, TypeOK, Idle, Holding
  <1>6. ASSUME Return(r), answer' = [answer EXCEPT ![r] = None]
        PROVE  /\ req[r].name \in Names
               /\ answer' \in [Requests -> Row \cup {None}]
               /\ \A q \in Requests : answer'[q] # None <=> req'[q].at = "answer"
    <2>1. req[r].name \in Names
      BY <1>1, <1>6, RequestFields DEF Return
    <2> QED
      BY <1>5, <1>6, <2>1, AnswersStep DEF Reads
  <1>7. CASE Sync(r)
    <2>1. req[r].name \in Names /\ answer[r] \in Row \cup {None}
      BY <1>1, <1>6, <1>7 DEF Sync
    <2>2. search' \in Docs
      BY <1>1, <1>7, <2>1, IndexedType DEF Sync, Docs
    <2>3. drifted' \subseteq Names /\ raced' \subseteq Requests
      BY <1>1, <1>7, <2>1 DEF Sync
    <2> QED
      BY <1>1, <1>2, <1>6, <1>7, <2>2, <2>3 DEF SearchTypeOK, Sync
  <1>8. CASE SyncLost(r)
    <2>1. /\ req[r].name \in Names
          /\ answer' \in [Requests -> Row \cup {None}]
          /\ \A q \in Requests : answer'[q] # None <=> req'[q].at = "answer"
      BY <1>6, <1>8 DEF SyncLost
    <2>2. drifted' \subseteq Names /\ raced' \subseteq Requests
      BY <1>1, <1>8, <2>1 DEF SyncLost
    <2> QED
      BY <1>1, <1>2, <1>8, <2>1, <2>2 DEF SearchTypeOK, SyncLost
  <1>9. CASE AbandonOn(r)
    <2>1. answer' = answer /\ answer[r] = None /\ req'[r].at # "answer"
      BY <1>5, <1>9 DEF AbandonOn
    <2>2. /\ answer' \in [Requests -> Row \cup {None}]
          /\ \A q \in Requests : answer'[q] # None <=> req'[q].at = "answer"
      BY <1>9, <2>1, AnswersStep DEF AbandonOn
    <2>3. drifted' \subseteq Names /\ raced' \subseteq Requests
      BY <1>1, <1>9, RequestFields DEF AbandonOn, Unsynced
    <2> QED
      BY <1>1, <1>2, <1>9, <2>2, <2>3 DEF SearchTypeOK, AbandonOn
  <1> QED
    BY <1>3, <1>4, <1>7, <1>8, <1>9 DEF Work

LEMMA RebuildTypeStep ==
    ASSUME SearchTypeOK, TypeOK', Rebuilding \/ RebuildAbandon
    PROVE  SearchTypeOK'
  <1>1. /\ TypeOK /\ search \in Docs /\ extensions \subseteq Names
        /\ rebuild \in Rebuild \cup {None} /\ raced \subseteq Requests
        /\ drifted \subseteq Names /\ shown \in [Names -> SUBSET Doc]
        /\ answer \in [Requests -> Row \cup {None}]
        /\ \A q \in Requests : answer[q] # None <=> req[q].at = "answer"
    BY DEF SearchTypeOK
  <1>2. EmptyIndex \in Docs
    BY DEF EmptyIndex, Docs
  <1>3. CASE RebuildBegin
    <2>1. PICK dump \in {extensions} \cup SUBSET Names : RebuildBegin!(dump)
      BY <1>3 DEF RebuildBegin
    <2>2. dump \subseteq Names
      BY <1>1
    <2>3. [todo |-> dump, docs |-> EmptyIndex, fresh |-> {}] \in Rebuild
      BY <1>2, <2>2 DEF Rebuild
    <2> QED
      BY <1>1, <2>1, <2>2, <2>3 DEF SearchTypeOK, vars
  <1>4. CASE RebuildRead
    <2>1. PICK n \in Names : RebuildRead!(n)
      BY <1>4 DEF RebuildRead
    <2>2. Indexed(posts[n]) \in Doc \cup {None}
      BY <1>1, PostIndexedType
    <2>3. rebuild \in Rebuild
      BY <1>1, <2>1
    <2>4. rebuild' = [todo |-> rebuild.todo \ {n},
                      docs |-> [rebuild.docs EXCEPT ![n] = Indexed(posts[n])],
                      fresh |-> IF Busy(n) THEN rebuild.fresh ELSE rebuild.fresh \cup {n}]
      BY <2>1, <2>3 DEF Rebuild
    <2>5. rebuild' \in Rebuild
      BY <2>2, <2>3, <2>4 DEF Rebuild, Docs
    <2> QED
      BY <1>1, <2>1, <2>5 DEF SearchTypeOK, vars
  <1>5. CASE RebuildCommit
    <2>1. rebuild.docs \in Docs
      BY <1>1, <1>5 DEF RebuildCommit, Rebuild
    <2> QED
      BY <1>1, <1>5, <2>1 DEF SearchTypeOK, RebuildCommit, vars
  <1>6. CASE RebuildAbandon
    BY <1>1, <1>6 DEF SearchTypeOK, RebuildAbandon, vars
  <1>7. CASE RebuildSkip
    <2>1. rebuild' \in Rebuild
      BY <1>1, <1>7 DEF RebuildSkip, Rebuild
    <2> QED
      BY <1>1, <1>7, <2>1 DEF SearchTypeOK, RebuildSkip, vars
  <1> QED
    BY <1>3, <1>4, <1>5, <1>6, <1>7 DEF Rebuilding

LEMMA RestartTypeStep ==
    ASSUME SearchTypeOK, TypeOK', RestartOn
    PROVE  SearchTypeOK'
  <1>1. /\ TypeOK /\ search \in Docs /\ drifted \subseteq Names /\ extensions \subseteq Names
    BY DEF SearchTypeOK
  <1>2. \A r \in Requests : answer'[r] = None /\ req'[r].at = "idle"
    BY DEF RestartOn, Restart, Idle, Holding
  <1>3. search' \in Docs
    BY <1>1, PostIndexedType DEF RestartOn, Docs
  <1>4. drifted' \subseteq Names
    BY <1>1 DEF RestartOn
  <1> QED
    BY <1>1, <1>2, <1>3, <1>4 DEF SearchTypeOK, RestartOn

LEMMA SearchTypeStep == SearchTypeOK /\ [SearchNext]_allVars => SearchTypeOK'
  <1> SUFFICES ASSUME SearchTypeOK, [SearchNext]_allVars PROVE SearchTypeOK'
    OBVIOUS
  <1>1. TypeOK'
    BY StepOfPosts, PostsTypeStep DEF SearchTypeOK
  <1>2. CASE UNCHANGED allVars
    BY <1>2 DEF SearchTypeOK, TypeOK, allVars, vars
  <1> QED
    BY <1>1, <1>2, HandlerTypeStep, RebuildTypeStep, RestartTypeStep DEF SearchNext

\* The types of the index beside the posts.
THEOREM SearchTypeIsOK == SearchSpec => []SearchTypeOK
  <1>1. SearchInit => SearchTypeOK
    <2> SUFFICES ASSUME SearchInit PROVE SearchTypeOK
      OBVIOUS
    <2>1. TypeOK
      BY IdleIsARequest DEF SearchInit, Init, TypeOK
    <2> QED
      BY <2>1 DEF SearchInit, SearchTypeOK, EmptyIndex, Docs, Init, Idle, Holding
  <1> QED
    BY <1>1, SearchTypeStep, PTL DEF SearchSpec

\* A handler indexes what it read back, which was public when it did.
LEMMA HandlerShownStep ==
    ASSUME SearchTypeOK, SearchTypeOK', ShownInv, NEW r \in Requests, Work(r) \/ AbandonOn(r)
    PROVE  ShownInv'
  <1>1. /\ TypeOK /\ TypeOK' /\ search \in Docs /\ rebuild \in Rebuild \cup {None}
        /\ shown \in [Names -> SUBSET Doc]
        /\ answer \in [Requests -> Row \cup {None}]
        /\ answer' \in [Requests -> Row \cup {None}]
        /\ \A q \in Requests : answer[q] # None <=> req[q].at = "answer"
        /\ \A q \in Requests : answer'[q] # None <=> req'[q].at = "answer"
    BY DEF SearchTypeOK
  <1>2. Show /\ (Reads(r) \/ Writes(r) \/ Abandon(r))
    BY DEF Work, BeginOn, ContinueOn, Sync, SyncLost, AbandonOn, Begin, Continue, Reads, Writes
  <1>3. /\ \A n \in Names : shown[n] \subseteq shown'[n]
        /\ \A n \in Names : Indexed(posts'[n]) = None \/ Indexed(posts'[n]) \in shown'[n]
    BY <1>1, <1>2, ShowStep
  <1>4. ASSUME NEW q \in Requests, answer'[q] # None
        PROVE  /\ req[q].name \in Names /\ req'[q].name = req[q].name
               /\ \/ answer[q] # None /\ answer'[q] = answer[q]
                  \/ answer'[q] = posts[req[q].name]
    <2>1. req'[q].name \in Names
      BY <1>1, <1>4 DEF TypeOK, Request
    <2>2. CASE q # r
      <3>1. req'[q].name = req[q].name
        BY <1>1, <1>2, <2>2, OthersStay
      <3>2. answer'[q] = answer[q]
        BY <1>1, <2>2 DEF Work, BeginOn, ContinueOn, Sync, SyncLost, AbandonOn
      <3> QED
        BY <1>4, <2>1, <3>1, <3>2
    <2>3. CASE q = r
      <3>1. req'[r].name = req[r].name /\ ReadBack(r)
        BY <1>1, <1>2, <1>4, <2>3, AnswerIsReadBack
      <3>2. req'[r].at = "answer" /\ req[r].at = "read"
        BY <1>1, <1>4, <2>3, <3>1 DEF ReadBack
      <3>3. ~Return(r) /\ ~Begin(r)
        BY <3>2 DEF Return, Begin, Create, Open
      <3>4. ~Abandon(r)
        BY <1>1, <3>2 DEF Abandon, Goto, TypeOK, Idle, Holding
      <3>5. ContinueOn(r)
        BY <3>3, <3>4 DEF Work, BeginOn, Sync, SyncLost, AbandonOn
      <3> QED
        BY <1>1, <1>4, <2>1, <2>3, <3>1, <3>5 DEF ContinueOn
    <2> QED
      BY <2>2, <2>3
  <1>5. ASSUME NEW n \in Names PROVE search'[n] = None \/ search'[n] \in shown'[n]
    <2>1. search[n] = None \/ search[n] \in shown'[n]
      BY <1>3 DEF ShownInv, WasPublic
    <2>2. CASE Sync(r)
      <3>1. answer[r] # None => Indexed(answer[r]) = None \/ Indexed(answer[r]) \in shown[req[r].name]
        BY DEF ShownInv, WasPublic
      <3>2. Indexed(None) = None
        BY DEF Indexed
      <3>3. search' = [search EXCEPT ![req[r].name] = Indexed(answer[r])]
        BY <2>2 DEF Sync
      <3> QED
        BY <1>1, <1>3, <2>1, <3>1, <3>2, <3>3 DEF Docs
    <2>3. CASE ~Sync(r)
      BY <2>1, <2>3 DEF Work, BeginOn, ContinueOn, SyncLost, AbandonOn
    <2> QED
      BY <2>2, <2>3
  <1>6. rebuild' # None => rebuild # None /\ rebuild'.docs = rebuild.docs
    BY <1>1 DEF Work, BeginOn, ContinueOn, Sync, SyncLost, AbandonOn, Rebuild
  <1>7. rebuild' # None => \A n \in Names : rebuild'.docs[n] = None \/ rebuild'.docs[n] \in shown'[n]
    BY <1>3, <1>6 DEF ShownInv, WasPublic
  <1>8. ASSUME NEW q \in Requests, answer'[q] # None
        PROVE  Indexed(answer'[q]) = None \/ Indexed(answer'[q]) \in shown'[req'[q].name]
    <2>1. answer[q] # None =>
            Indexed(answer[q]) = None \/ Indexed(answer[q]) \in shown[req[q].name]
      BY DEF ShownInv, WasPublic
    <2>2. \A n \in Names : Indexed(posts[n]) = None \/ Indexed(posts[n]) \in shown[n]
      BY DEF ShownInv, WasPublic
    <2> QED
      BY <1>3, <1>4, <1>8, <2>1, <2>2
  <1> QED
    BY <1>3, <1>5, <1>7, <1>8 DEF ShownInv, WasPublic, Indexed, DocOf, IsPublic

LEMMA ShownStep == SearchTypeOK /\ ShownInv /\ [SearchNext]_allVars => ShownInv'
  <1> SUFFICES ASSUME SearchTypeOK, ShownInv, [SearchNext]_allVars PROVE ShownInv'
    OBVIOUS
  <1>1. SearchTypeOK'
    BY SearchTypeStep
  <1>2. CASE \E r \in Requests : Work(r) \/ AbandonOn(r)
    BY <1>1, <1>2, HandlerShownStep
  <1>3. rebuild \in Rebuild \cup {None} /\ search \in Docs
    BY DEF SearchTypeOK
  <1>4. CASE RebuildBegin
    BY <1>4 DEF RebuildBegin, ShownInv, WasPublic, vars, EmptyIndex, Indexed, DocOf, IsPublic
  <1>5. CASE RebuildRead
    <2>1. PICK n \in Names : RebuildRead!(n)
      BY <1>5 DEF RebuildRead
    <2>2. rebuild'.docs = [rebuild.docs EXCEPT ![n] = Indexed(posts[n])]
      BY <1>3, <2>1 DEF Rebuild
    <2>3. \A m \in Names : rebuild'.docs[m] = None \/ rebuild'.docs[m] \in shown[m]
      BY <1>3, <2>1, <2>2 DEF ShownInv, WasPublic, Rebuild, Docs
    <2> QED
      BY <2>1, <2>3 DEF ShownInv, WasPublic, vars, Indexed, DocOf, IsPublic
  <1>6. CASE RebuildCommit
    BY <1>6 DEF RebuildCommit, ShownInv, WasPublic, vars, Indexed, DocOf, IsPublic
  <1>7. CASE RebuildAbandon
    BY <1>7 DEF RebuildAbandon, ShownInv, WasPublic, vars, Indexed, DocOf, IsPublic
  <1>8. CASE RestartOn
    <2>1. posts' = posts /\ shown' = shown /\ rebuild' = None
          /\ \A r \in Requests : answer'[r] = None
      BY <1>8 DEF RestartOn, Restart
    <2>2. \A n \in Names : search'[n] = None \/ search'[n] \in shown[n]
      BY <1>8 DEF RestartOn, ShownInv, WasPublic
    <2> QED
      BY <2>1, <2>2 DEF ShownInv, WasPublic, Indexed, DocOf, IsPublic
  <1>9. CASE UNCHANGED allVars
    BY <1>9 DEF allVars, ShownInv, WasPublic, Indexed, DocOf, IsPublic
  <1>10. CASE RebuildSkip
    <2>1. rebuild'.docs = rebuild.docs /\ rebuild # None
      BY <1>3, <1>10 DEF RebuildSkip, Rebuild
    <2> QED
      BY <1>10, <2>1 DEF RebuildSkip, ShownInv, WasPublic, vars, Indexed, DocOf, IsPublic
  <1> QED
    BY <1>2, <1>4, <1>5, <1>6, <1>7, <1>8, <1>9, <1>10 DEF SearchNext, Rebuilding

\* Whatever overlaps, is lost or restarts, no draft, no private post and no edit
\* that was never public can be found.
THEOREM SearchOnlyPublished == SearchSpec => []OnlyPublishedIsSearchable
  <1>1. SearchInit => ShownInv
    BY DEF SearchInit, Init, ShownInv, WasPublic, EmptyIndex, Indexed
  <1>2. ShownInv => OnlyPublishedIsSearchable
    BY DEF ShownInv, WasPublic, OnlyPublishedIsSearchable
  <1> QED
    BY <1>1, <1>2, SearchTypeIsOK, ShownStep, PTL DEF SearchSpec

-----------------------------------------------------------------------------
\* Handlers on one post are known to overlap.
HandlersMeet ==
    \A r, q \in Requests :
        r # q /\ req[r].name \in Names /\ req[q].name = req[r].name => r \in raced

\* The index follows a post as long as no handler on it has written.
IndexKeepsUp ==
    \A n \in Names \ drifted :
        (\A r \in Requests : req[r].name = n => req[r].at \notin Unsynced)
        => search[n] = Indexed(posts[n])

\* A handler by itself indexes the post as it is.
AnswerIsCurrent ==
    \A r \in Requests \ raced :
        /\ req[r].at = "answer" => answer[r] = posts[req[r].name]
        /\ req[r].at = "drop" => Indexed(posts[req[r].name]) = None

\* So does a rebuild, of the posts that nobody was at work on.
RebuildIsCurrent ==
    rebuild # None =>
        \A n \in rebuild.fresh : ~Busy(n) /\ rebuild.docs[n] = Indexed(posts[n])

DriftInv == HandlersMeet /\ IndexKeepsUp /\ AnswerIsCurrent /\ RebuildIsCurrent

\* Whatever a handler does next: it goes on with its post or ends, and one that has
\* written has the index still to do.
LEMMA ContinuesInOrder ==
    ASSUME TypeOK, NEW r \in Requests, Continue(r)
    PROVE  /\ req[r].name \in Names
           /\ req'[r].at = "idle" \/ req'[r].name = req[r].name
           /\ \A n \in Names \ {req[r].name} : posts'[n] = posts[n]
           /\ posts'[req[r].name] # posts[req[r].name] => req'[r].at \in Unsynced
           /\ req[r].at \in Unsynced => req'[r].at \in Unsynced \/ Gone(r)
           /\ req'[r].at = "drop" => Indexed(posts'[req[r].name]) = None
           /\ req'[r].at = "answer" => posts' = posts
           /\ req[r].at \notin {"answer", "drop"}
  <1> DEFINE n == req[r].name
  <1>a. \A next : Goto(r, next) \/ GotoWritten(r, next) => req'[r] = next
    BY DEF Goto, GotoWritten, TypeOK
  <1>b. /\ Idle.at = "idle"
        /\ \A stage : At(r, stage).at = stage /\ At(r, stage).name = req[r].name
        /\ \A m, at, op, hand : Holding(m, at, op, hand).at = at /\ Holding(m, at, op, hand).name = m
    BY DEF Idle, At, Holding
  <1>c. Unsynced = {"terms", "settings", "save", "read", "answer", "drop"}
    BY DEF Unsynced
  <1>d. Gone(r) <=> req'[r].at \in {"idle", "conflict", "internal"}
    BY DEF Gone, Refusals
  <1>e. req[r].at # "idle" /\ req[r].at \notin {"answer", "drop"}
    BY DEF Continue, Insert, Terms, WriteContent, Settings, Save, Publish, Unpublish,
           SoftDelete, Restore, SetFlags, Purge, ReadBack, Refuse, Refusals
  <1>f. n \in Names
    BY <1>e, RequestFields
  <1>g. Writes(r) \/ Reads(r)
    BY DEF Continue, Writes, Reads
  <1>h. \A m \in Names \ {n} : posts'[m] = posts[m]
    BY <1>g, OnlyItsPost, ReadsType
  <1>1. CASE Insert(r)
    BY <1>1, <1>a, <1>b, <1>c, <1>d, <1>e, <1>f, <1>h, InsertStep
  <1>2. CASE Terms(r)
    <2>1. \/ posts' = posts /\ req'[r] = At(r, "internal")
          \/ req'[r] = At(r, "read")
      BY <1>2, <1>a, TermsStep
    <2> QED
      BY <2>1, <1>b, <1>c, <1>d, <1>e, <1>f, <1>h
  <1>3. CASE WriteContent(r)
    <2>1. /\ req[r].at = "write"
          /\ \/ posts' = posts /\ req'[r] = Idle
             \/ req'[r] = Holding(n, "settings", req[r].op, None)
      BY <1>3, <1>a, WriteContentStep
    <2> QED
      BY <2>1, <1>b, <1>c, <1>d, <1>e, <1>f, <1>h
  <1>4. CASE Settings(r)
    <2>1. /\ posts' = posts
          /\ \/ req'[r] = Idle \/ req'[r] = At(r, "conflict")
             \/ \E new : req'[r] = Holding(n, "save", None, new)
      <3>1. CASE Exists(n)
        BY <1>4, <3>1, <1>a DEF Settings
      <3>2. CASE ~Exists(n)
        BY <1>4, <3>2, <1>a DEF Settings
      <3> QED
        BY <3>1, <3>2
    <2> QED
      BY <2>1, <1>b, <1>c, <1>d, <1>e, <1>f, <1>h
  <1>5. CASE Save(r)
    <2>1. \/ posts' = posts /\ req'[r] = At(r, "internal")
          \/ req'[r] = At(r, "read")
      BY <1>5, <1>a, SaveStep
    <2> QED
      BY <2>1, <1>b, <1>c, <1>d, <1>e, <1>f, <1>h
  <1>6. CASE Publish(r)
    <2>1. req[r].at = "write" /\ req'[r] = At(r, "read")
      BY <1>6, <1>a, PublishStep
    <2> QED
      BY <2>1, <1>b, <1>c, <1>d, <1>e, <1>f, <1>h
  <1>7. CASE Unpublish(r) \/ Restore(r)
    <2>1. req[r].at = "write" /\ req'[r] = At(r, "read")
      BY <1>7, <1>a DEF Unpublish, Restore, SetFlags
    <2> QED
      BY <2>1, <1>b, <1>c, <1>d, <1>e, <1>f, <1>h
  <1>8. CASE SoftDelete(r)
    <2>1. req[r].at = "write" /\ req'[r] = At(r, "drop")
      BY <1>8, <1>a DEF SoftDelete, SetFlags
    <2>2. Indexed(posts'[n]) = None
      <3>1. CASE Exists(n)
        <4>1. posts[n] \in Row
          BY <1>f, <3>1 DEF TypeOK, Exists
        <4>2. posts'[n] = [posts[n] EXCEPT !.deleted = TRUE, !.published = FALSE]
          BY <1>8, <1>f, <3>1 DEF SoftDelete, SetFlags, TypeOK
        <4>3. posts'[n].deleted = TRUE
          BY <4>1, <4>2 DEF Row
        <4> QED
          BY <4>3 DEF Indexed, IsPublic
      <3>2. CASE ~Exists(n)
        <4>1. posts'[n] = None
          BY <1>8, <1>f, <3>2 DEF SoftDelete, SetFlags, TypeOK, Exists
        <4> QED
          BY <4>1 DEF Indexed
      <3> QED
        BY <3>1, <3>2
    <2> QED
      BY <2>1, <2>2, <1>b, <1>c, <1>d, <1>e, <1>f, <1>h
  <1>9. CASE Purge(r)
    <2>1. req[r].at = "write" /\ req'[r] = At(r, "drop") /\ posts'[n] = None
      BY <1>9, <1>a, <1>f DEF Purge, TypeOK
    <2>2. Indexed(posts'[n]) = None
      BY <2>1 DEF Indexed
    <2> QED
      BY <2>1, <2>2, <1>b, <1>c, <1>d, <1>e, <1>f, <1>h
  <1>10. CASE ReadBack(r)
    <2>1. posts' = posts /\ (req'[r] = Idle \/ req'[r] = At(r, "answer"))
      BY <1>10, <1>a DEF ReadBack
    <2> QED
      BY <2>1, <1>b, <1>c, <1>d, <1>e, <1>f, <1>h
  <1>11. CASE Refuse(r)
    <2>1. posts' = posts /\ req'[r] = Idle
      BY <1>11, <1>a DEF Refuse
    <2> QED
      BY <2>1, <1>b, <1>c, <1>d, <1>e, <1>f, <1>h
  <1> QED
    BY <1>1, <1>2, <1>3, <1>4, <1>5, <1>6, <1>7, <1>8, <1>9, <1>10, <1>11 DEF Continue

LEMMA BeginDrift ==
    ASSUME SearchTypeOK, TypeOK', DriftInv, NEW r \in Requests, BeginOn(r)
    PROVE  DriftInv'
  <1> DEFINE n == req'[r].name
             others == {q \in Requests \ {r} : req[q].name = n}
  <1>1. /\ TypeOK /\ Begin(r) /\ Reads(r) /\ posts' = posts /\ search' = search
        /\ answer' = answer /\ drifted' = drifted
        /\ raced' = IF others = {} THEN raced ELSE raced \cup others \cup {r}
        /\ rebuild' = IF rebuild = None THEN None ELSE [rebuild EXCEPT !.fresh = @ \ {n}]
    BY DEF SearchTypeOK, BeginOn, Begin, Reads, Create, Open
  <1>2. \A q \in Requests \ {r} : req'[q].at = req[q].at /\ req'[q].name = req[q].name
    BY <1>1, OthersStay
  <1>3. req[r].at = "idle" /\ req[r].name \notin Names
    <2>1. req[r].at = "idle"
      BY <1>1 DEF Begin, Create, Open
    <2> QED
      BY <1>1, <2>1, PostsAssumption DEF TypeOK, Request
  <1>4. req'[r].at \notin {"answer", "drop"} /\ n \in Names
    <2>1. \A next : Goto(r, next) => req'[r] = next
      BY <1>1 DEF Goto, TypeOK
    <2>2. \A m, at, op, hand : Holding(m, at, op, hand).at = at /\ Holding(m, at, op, hand).name = m
      BY DEF Holding
    <2>3. CASE Create(r)
      <3>1. PICK m \in Names, row \in NewRows(UserOf[r]) : Create(r)!(m, row)
        BY <2>3 DEF Create
      <3> QED
        BY <2>1, <2>2, <3>1
    <2>4. CASE Open(r)
      <3>1. PICK m \in Names, op \in Sent, b \in Bodies : Open(r)!(m, op, b)
        BY <2>4 DEF Open
      <3> QED
        BY <2>1, <2>2, <3>1
    <2> QED
      BY <1>1, <2>3, <2>4 DEF Begin
  <1>5. HandlersMeet'
    <2> SUFFICES ASSUME NEW p \in Requests, NEW q \in Requests, p # q, req'[p].name \in Names,
                        req'[q].name = req'[p].name
                 PROVE  p \in raced'
      BY DEF HandlersMeet
    <2>1. CASE p = r
      BY <1>1, <1>2, <2>1
    <2>2. CASE q = r
      BY <1>1, <1>2, <2>2
    <2>3. CASE p # r /\ q # r
      BY <1>1, <1>2, <2>3 DEF DriftInv, HandlersMeet
    <2> QED
      BY <2>1, <2>2, <2>3
  <1>6. IndexKeepsUp'
    BY <1>1, <1>2, <1>3 DEF DriftInv, IndexKeepsUp, Unsynced, Indexed, DocOf, IsPublic
  <1>7. AnswerIsCurrent'
    <2>1. \A q \in Requests \ raced' : q \notin raced
      BY <1>1
    <2> QED
      BY <1>1, <1>2, <1>4, <2>1 DEF DriftInv, AnswerIsCurrent, Indexed, DocOf, IsPublic
  <1>8. RebuildIsCurrent'
    <2> SUFFICES ASSUME rebuild' # None, NEW m \in rebuild'.fresh
                 PROVE  ~Busy(m)' /\ rebuild'.docs[m] = Indexed(posts[m])
      BY <1>1 DEF RebuildIsCurrent, Indexed, DocOf, IsPublic
    <2>1. rebuild \in Rebuild
      BY <1>1 DEF SearchTypeOK
    <2>2. m \in rebuild.fresh /\ m # n /\ rebuild'.docs = rebuild.docs
      BY <1>1, <2>1 DEF Rebuild
    <2>3. ~Busy(m) /\ rebuild.docs[m] = Indexed(posts[m])
      BY <2>1, <2>2, NoneIsNoDocument DEF DriftInv, RebuildIsCurrent
    <2> QED
      BY <1>2, <2>2, <2>3 DEF Busy
  <1> QED
    BY <1>5, <1>6, <1>7, <1>8 DEF DriftInv

\* A step of a handler that is at work on a post.
LEMMA HandlerDrift ==
    ASSUME SearchTypeOK, TypeOK', DriftInv, NEW r \in Requests, NEW n \in Names, n = req[r].name,
           Reads(r) \/ Writes(r) \/ Abandon(r),
           rebuild' = rebuild,
           raced' = raced \/ (raced' = raced \ {r} /\ req'[r].at = "idle"),
           req'[r].at = "idle" \/ req'[r].name = n,
           \A m \in Names \ {n} : /\ posts'[m] = posts[m] /\ search'[m] = search[m]
                                  /\ m \notin drifted' => m \notin drifted,
           \A q \in Requests \ {r} : answer'[q] = answer[q],
           \* what it leaves of its post
           n \notin drifted' /\ (\A q \in Requests : req'[q].name = n => req'[q].at \notin Unsynced)
               => search'[n] = Indexed(posts'[n]),
           r \notin raced' /\ req'[r].at = "answer" => answer'[r] = posts'[n],
           req'[r].at = "drop" => Indexed(posts'[n]) = None
    PROVE  DriftInv'
  <1>1. TypeOK
    BY DEF SearchTypeOK
  <1>2. \A q \in Requests \ {r} : req'[q].at = req[q].at /\ req'[q].name = req[q].name
    BY <1>1, OthersStay
  <1>3. req'[r].at = "idle" => req'[r].name \notin Names
    BY PostsAssumption DEF TypeOK, Request
  <1>4. \A row, old : row = old => Indexed(row) = Indexed(old)
    OBVIOUS
  <1>5. HandlersMeet'
    BY <1>2, <1>3 DEF DriftInv, HandlersMeet
  <1>6. IndexKeepsUp'
    <2> SUFFICES ASSUME NEW m \in Names \ drifted',
                        \A q \in Requests : req'[q].name = m => req'[q].at \notin Unsynced
                 PROVE  search'[m] = Indexed(posts'[m])
      BY DEF IndexKeepsUp, Indexed, DocOf, IsPublic
    <2>1. CASE m = n
      BY <2>1
    <2>2. CASE m # n
      <3>1. m \in Names \ drifted /\ search'[m] = search[m] /\ posts'[m] = posts[m]
        BY <2>2
      <3>2. \A q \in Requests : req[q].name = m => req[q].at \notin Unsynced
        BY <1>2, <2>2
      <3>3. search[m] = Indexed(posts[m])
        BY <3>1, <3>2 DEF DriftInv, IndexKeepsUp
      <3> QED
        BY <3>1, <3>3
    <2> QED
      BY <2>1, <2>2
  <1>7. AnswerIsCurrent'
    <2> SUFFICES ASSUME NEW q \in Requests \ raced'
                 PROVE  /\ req'[q].at = "answer" => answer'[q] = posts'[req'[q].name]
                        /\ req'[q].at = "drop" => Indexed(posts'[req'[q].name]) = None
      BY DEF AnswerIsCurrent, Indexed, DocOf, IsPublic
    <2>1. CASE q = r
      <3>1. req'[r].at \in {"answer", "drop"} => req'[r].name = n
        OBVIOUS
      <3> QED
        BY <2>1, <3>1
    <2>2. CASE q # r
      <3>1. q \notin raced /\ req'[q].at = req[q].at /\ req'[q].name = req[q].name
        BY <1>2, <2>2
      <3>2. req[q].name # n
        BY <2>2, <3>1 DEF DriftInv, HandlersMeet
      <3>3. SUFFICES ASSUME req[q].at \in {"answer", "drop"}
                     PROVE  /\ req'[q].at = "answer" => answer'[q] = posts'[req'[q].name]
                            /\ req'[q].at = "drop" => Indexed(posts'[req'[q].name]) = None
        BY <3>1
      <3>4. req[q].name \in Names \ {n}
        BY <1>1, <3>2, <3>3, RequestFields
      <3>5. posts'[req[q].name] = posts[req[q].name] /\ answer'[q] = answer[q]
        BY <2>2, <3>4
      <3>6. /\ req[q].at = "answer" => answer[q] = posts[req[q].name]
            /\ req[q].at = "drop" => Indexed(posts[req[q].name]) = None
        BY <3>1 DEF DriftInv, AnswerIsCurrent
      <3> QED
        BY <3>1, <3>5, <3>6
    <2> QED
      BY <2>1, <2>2
  <1>8. RebuildIsCurrent'
    <2> SUFFICES ASSUME rebuild # None, NEW m \in rebuild.fresh
                 PROVE  ~Busy(m)' /\ rebuild.docs[m] = Indexed(posts'[m])
      BY DEF RebuildIsCurrent, Indexed, DocOf, IsPublic
    <2>1. ~Busy(m) /\ rebuild.docs[m] = Indexed(posts[m]) /\ m \in Names
      BY DEF DriftInv, RebuildIsCurrent, SearchTypeOK, Rebuild
    <2>2. m # n
      BY <2>1 DEF Busy
    <2>3. ~Busy(m)'
      BY <1>2, <1>3, <2>1, <2>2 DEF Busy
    <2>4. posts'[m] = posts[m]
      BY <2>1, <2>2
    <2> QED
      BY <2>1, <2>3, <2>4
  <1> QED
    BY <1>5, <1>6, <1>7, <1>8 DEF DriftInv

\* A handler that returns or is dropped, or goes on.
LEMMA HandlersDrift ==
    ASSUME SearchTypeOK, TypeOK', DriftInv, NEW r \in Requests,
           ContinueOn(r) \/ Sync(r) \/ SyncLost(r) \/ AbandonOn(r)
    PROVE  DriftInv'
  <1>1. PICK n : n = req[r].name
    OBVIOUS
  <1>2. /\ TypeOK /\ search \in Docs /\ answer \in [Requests -> Row \cup {None}]
        /\ \A q \in Requests : answer[q] # None <=> req[q].at = "answer"
    BY DEF SearchTypeOK
  <1>3. n \in Names
    BY <1>1, <1>2, RequestFields, ContinuesInOrder
       DEF ContinueOn, Sync, SyncLost, AbandonOn, Return, Abandon
  <1>4. ASSUME Return(r) \/ Abandon(r)
        PROVE  posts' = posts /\ req'[r].at = "idle" /\ (Reads(r) \/ Writes(r) \/ Abandon(r))
    <2>1. Reads(r) \/ Writes(r) \/ Abandon(r)
      BY <1>4 DEF Reads
    <2>2. posts' = posts /\ req' = [req EXCEPT ![r] = Idle]
      BY <1>4 DEF Return, Abandon, Goto
    <2>3. req'[r] = Idle
      BY <1>2, <2>2 DEF TypeOK
    <2>4. Idle.at = "idle"
      BY DEF Idle, Holding
    <2> QED
      BY <2>1, <2>2, <2>3, <2>4
  <1>5. req'[r].at = "idle" => req'[r].name \notin Names
    BY PostsAssumption DEF TypeOK, Request
  <1>6. \A q \in Requests \ {r} : Reads(r) \/ Writes(r) \/ Abandon(r) =>
          req'[q].at = req[q].at /\ req'[q].name = req[q].name
    BY <1>2, OthersStay
  <1>7. CASE ContinueOn(r)
    <2>1. /\ Continue(r) /\ (Reads(r) \/ Writes(r) \/ Abandon(r))
          /\ answer' = [answer EXCEPT ![r] = IF req'[r].at = "answer" THEN posts[n] ELSE None]
          /\ raced' = IF req'[r].at = "idle" THEN raced \ {r} ELSE raced
          /\ drifted' = IF Gone(r) /\ req[r].at \in Unsynced THEN drifted \cup {n} ELSE drifted
          /\ search' = search /\ rebuild' = rebuild
      BY <1>1, <1>7 DEF ContinueOn, Continue, Reads, Writes
    <2>2. /\ req'[r].at = "idle" \/ req'[r].name = n
          /\ \A m \in Names \ {n} : posts'[m] = posts[m]
          /\ posts'[n] # posts[n] => req'[r].at \in Unsynced
          /\ req[r].at \in Unsynced => req'[r].at \in Unsynced \/ Gone(r)
          /\ req'[r].at = "drop" => Indexed(posts'[n]) = None
          /\ req'[r].at = "answer" => posts' = posts
      BY <1>1, <1>2, <2>1, ContinuesInOrder
    <2>3. ASSUME n \notin drifted', \A q \in Requests : req'[q].name = n => req'[q].at \notin Unsynced
          PROVE  search'[n] = Indexed(posts'[n])
      <3>1. "idle" \notin Unsynced
        BY DEF Unsynced
      <3>2. req'[r].at \notin Unsynced
        BY <2>2, <2>3, <3>1
      <3>3. posts'[n] = posts[n] /\ n \notin drifted /\ req[r].at \notin Unsynced
        BY <2>1, <2>2, <2>3, <3>2
      <3>4. \A q \in Requests : req[q].name = n => req[q].at \notin Unsynced
        BY <1>6, <2>1, <2>3, <3>3
      <3> QED
        BY <1>3, <2>1, <3>3, <3>4 DEF DriftInv, IndexKeepsUp
    <2>4. req'[r].at = "answer" => answer'[r] = posts'[n]
      BY <1>2, <2>1, <2>2
    <2>5. /\ \A q \in Requests \ {r} : answer'[q] = answer[q]
          /\ \A m : m \notin drifted' => m \notin drifted
      BY <1>2, <2>1
    <2> QED
      BY <1>1, <1>3, <2>1, <2>2, <2>3, <2>4, <2>5, HandlerDrift
  <1>8. CASE Sync(r)
    <2>1. /\ Return(r) /\ search' = [search EXCEPT ![n] = Indexed(answer[r])]
          /\ answer' = [answer EXCEPT ![r] = None]
          /\ drifted' = IF r \in raced THEN drifted \cup {n} ELSE drifted \ {n}
          /\ raced' = raced \ {r} /\ rebuild' = rebuild
      BY <1>1, <1>8 DEF Sync
    <2>2. ASSUME n \notin drifted' PROVE search'[n] = Indexed(posts[n])
      <3>1. r \notin raced /\ search'[n] = Indexed(answer[r])
        BY <1>2, <1>3, <2>1, <2>2 DEF Docs
      <3>2. CASE req[r].at = "answer"
        BY <1>1, <3>1, <3>2 DEF DriftInv, AnswerIsCurrent
      <3>3. CASE req[r].at = "drop"
        <4>1. answer[r] = None
          BY <1>2, <3>3
        <4>2. Indexed(None) = None
          BY DEF Indexed
        <4> QED
          BY <1>1, <3>1, <3>3, <4>1, <4>2 DEF DriftInv, AnswerIsCurrent
      <3> QED
        BY <2>1, <3>2, <3>3 DEF Return
    <2>3. \A m \in Names \ {n} : search'[m] = search[m] /\ (m \notin drifted' => m \notin drifted)
      BY <1>2, <2>1 DEF Docs
    <2>4. \A q \in Requests \ {r} : answer'[q] = answer[q]
      BY <1>2, <2>1
    <2> QED
      BY <1>1, <1>3, <1>4, <2>1, <2>2, <2>3, <2>4, HandlerDrift
  <1>9. CASE SyncLost(r)
    <2>1. /\ Return(r) /\ search' = search /\ answer' = [answer EXCEPT ![r] = None]
          /\ drifted' = drifted \cup {n} /\ raced' = raced \ {r} /\ rebuild' = rebuild
      BY <1>1, <1>9 DEF SyncLost
    <2>2. \A q \in Requests \ {r} : answer'[q] = answer[q]
      BY <1>2, <2>1
    <2> QED
      BY <1>1, <1>3, <1>4, <2>1, <2>2, HandlerDrift
  <1>10. CASE AbandonOn(r)
    <2>1. /\ Abandon(r) /\ search' = search /\ answer' = answer
          /\ drifted' = IF req[r].at \in Unsynced THEN drifted \cup {n} ELSE drifted
          /\ raced' = raced \ {r} /\ rebuild' = rebuild
      BY <1>1, <1>10 DEF AbandonOn
    <2>2. ASSUME n \notin drifted', \A q \in Requests : req'[q].name = n => req'[q].at \notin Unsynced
          PROVE  search'[n] = Indexed(posts[n])
      <3>1. n \notin drifted /\ req[r].at \notin Unsynced
        BY <2>1, <2>2
      <3>2. \A q \in Requests : req[q].name = n => req[q].at \notin Unsynced
        BY <1>6, <2>1, <2>2, <3>1
      <3> QED
        BY <1>3, <2>1, <3>1, <3>2 DEF DriftInv, IndexKeepsUp
    <2> QED
      BY <1>1, <1>3, <1>4, <2>1, <2>2, HandlerDrift
  <1> QED
    BY <1>7, <1>8, <1>9, <1>10

LEMMA DriftStep == SearchTypeOK /\ DriftInv /\ [SearchNext]_allVars => DriftInv'
  <1> SUFFICES ASSUME SearchTypeOK, DriftInv, [SearchNext]_allVars PROVE DriftInv'
    OBVIOUS
  <1>1. TypeOK /\ TypeOK'
    BY StepOfPosts, PostsTypeStep DEF SearchTypeOK
  <1>2. CASE \E r \in Requests : Work(r) \/ AbandonOn(r)
    BY <1>1, <1>2, BeginDrift, HandlersDrift DEF Work
  <1>3. rebuild \in Rebuild \cup {None} /\ search \in Docs
    BY DEF SearchTypeOK
  <1> USE DEF DriftInv
  <1>4. ASSUME UNCHANGED <<vars, answer, search, raced, drifted>>
        PROVE  HandlersMeet' /\ IndexKeepsUp' /\ AnswerIsCurrent'
    BY <1>4 DEF vars, HandlersMeet, IndexKeepsUp, AnswerIsCurrent, Indexed, DocOf, IsPublic
  <1>5. CASE RebuildBegin
    <2>1. rebuild'.fresh = {}
      BY <1>5 DEF RebuildBegin
    <2> QED
      BY <1>4, <1>5, <2>1 DEF RebuildBegin, RebuildIsCurrent
  <1>6. CASE RebuildRead
    <2>1. PICK n \in Names : RebuildRead!(n)
      BY <1>6 DEF RebuildRead
    <2>2. /\ rebuild'.docs = [rebuild.docs EXCEPT ![n] = Indexed(posts[n])]
          /\ rebuild'.fresh = IF Busy(n) THEN rebuild.fresh ELSE rebuild.fresh \cup {n}
          /\ rebuild.fresh \subseteq Names /\ rebuild.docs \in Docs
      BY <1>3, <2>1 DEF Rebuild
    <2>3. ASSUME NEW m \in rebuild'.fresh PROVE ~Busy(m) /\ rebuild'.docs[m] = Indexed(posts[m])
      BY <2>1, <2>2, <2>3 DEF RebuildIsCurrent, Docs
    <2>4. UNCHANGED <<vars, answer, search, raced, drifted>>
      BY <2>1
    <2>5. RebuildIsCurrent'
      BY <2>3, <2>4 DEF RebuildIsCurrent, vars, Busy, Indexed, DocOf, IsPublic
    <2> QED
      BY <1>4, <2>4, <2>5
  <1>7. CASE RebuildCommit
    <2>1. /\ rebuild # None /\ search' = rebuild.docs /\ rebuild' = None
          /\ drifted' = Names \ rebuild.fresh /\ UNCHANGED <<vars, answer, raced>>
      BY <1>7 DEF RebuildCommit
    <2>2. HandlersMeet' /\ AnswerIsCurrent' /\ RebuildIsCurrent'
      BY <2>1 DEF vars, HandlersMeet, AnswerIsCurrent, RebuildIsCurrent, Indexed, DocOf, IsPublic
    <2>3. IndexKeepsUp'
      BY <2>1 DEF vars, RebuildIsCurrent, IndexKeepsUp, Indexed, DocOf, IsPublic
    <2> QED
      BY <2>2, <2>3
  <1>8. CASE RebuildAbandon
    BY <1>4, <1>8 DEF RebuildAbandon, RebuildIsCurrent
  <1>9. CASE RestartOn
    <2>1. /\ posts' = posts /\ rebuild' = None
          /\ \A r \in Requests : req'[r].at = "idle" /\ req'[r].name = None
      BY <1>9 DEF RestartOn, Restart, Idle, Holding
    <2>2. HandlersMeet' /\ AnswerIsCurrent' /\ RebuildIsCurrent'
      BY <2>1, PostsAssumption DEF HandlersMeet, AnswerIsCurrent, RebuildIsCurrent
    <2>3. ASSUME NEW n \in Names \ drifted' PROVE search'[n] = Indexed(posts[n])
      <3>1. CASE search = EmptyIndex
        <4>1. PICK read \in SUBSET extensions :
                /\ search' = [m \in Names |-> IF m \in read THEN Indexed(posts[m]) ELSE None]
                /\ drifted' = Names \ read
          BY <1>9, <3>1 DEF RestartOn
        <4> QED
          BY <2>3, <4>1
      <3>2. CASE search # EmptyIndex
        <4>1. /\ search' = search /\ n \notin drifted
              /\ \A r \in Requests : req[r].name = n => req[r].at \notin Unsynced
          BY <1>9, <2>3, <3>2 DEF RestartOn
        <4> QED
          BY <4>1 DEF IndexKeepsUp
      <3> QED
        BY <3>1, <3>2
    <2>4. IndexKeepsUp'
      BY <2>1, <2>3 DEF IndexKeepsUp, Indexed, DocOf, IsPublic
    <2> QED
      BY <2>2, <2>4
  <1>10. CASE UNCHANGED allVars
    BY <1>4, <1>10 DEF allVars, vars, RebuildIsCurrent, Busy, Indexed, DocOf, IsPublic
  <1>11. CASE RebuildSkip
    <2>1. /\ rebuild # None /\ rebuild'.docs = rebuild.docs /\ rebuild'.fresh = rebuild.fresh
          /\ UNCHANGED <<vars, answer, search, raced, drifted>>
      BY <1>3, <1>11 DEF RebuildSkip, Rebuild
    <2>2. RebuildIsCurrent'
      BY <2>1 DEF RebuildIsCurrent, vars, Busy, Indexed, DocOf, IsPublic
    <2> QED
      BY <1>4, <2>1, <2>2
  <1> QED
    BY <1>2, <1>5, <1>6, <1>7, <1>8, <1>9, <1>10, <1>11 DEF SearchNext, Rebuilding

\* A post that nobody is at work on is in the index as it is stored, unless handlers
\* overlapped on it, one was dropped before it had indexed the post, or a rebuild
\* met them or passed the post over, because the legacy table does not have it or
\* because a statement failed.
THEOREM SearchDriftNeedsACause == SearchSpec => []DriftNeedsACause
  <1>1. SearchInit => DriftInv
    <2> SUFFICES ASSUME SearchInit PROVE DriftInv
      OBVIOUS
    <2>1. /\ \A n \in Names : search[n] = None /\ Indexed(posts[n]) = None
          /\ \A r \in Requests : req[r].at = "idle" /\ req[r].name = None
          /\ rebuild = None
      BY DEF SearchInit, Init, EmptyIndex, Indexed, Idle, Holding
    <2> QED
      BY <2>1, PostsAssumption
         DEF DriftInv, HandlersMeet, IndexKeepsUp, AnswerIsCurrent, RebuildIsCurrent
  <1>2. DriftInv => DriftNeedsACause
    BY DEF DriftInv, IndexKeepsUp, Busy, DriftNeedsACause
  <1> QED
    BY <1>1, <1>2, SearchTypeIsOK, DriftStep, PTL DEF SearchSpec

-----------------------------------------------------------------------------
(* Types of PostLists. Its steps of Posts are those that PostsProofs is about. *)

VARIABLES reading, moved    \* those of PostLists besides the ones of Posts

INSTANCE PostLists

\* The steps of the instance of Posts that PostLists has are those of Posts.
LEMMA ListedPostsBegin ==
    ASSUME NEW r \in Requests, P!Begin(r)
    PROVE  Begin(r)
  <1> USE DEF P!Exists, Exists, P!Goto, Goto, P!Holding, Holding
  <1>1. P!Create(r) => Create(r)
    BY DEF P!Create, Create, P!NewRows, NewRows
  <1>2. P!Open(r) => Open(r)
    BY DEF P!Open, Open, P!Puts, Puts
  <1> QED
    BY <1>1, <1>2 DEF P!Begin, Begin

LEMMA ListedPostsContinue ==
    ASSUME NEW r \in Requests, P!Continue(r)
    PROVE  Continue(r)
  <1> USE DEF P!Exists, Exists, P!Goto, Goto, P!GotoWritten, GotoWritten, P!Holding, Holding,
              P!At, At, P!Idle, Idle, P!SlugTaken, SlugTaken
  <1>1. P!Insert(r) => Insert(r)
    BY DEF P!Insert, Insert
  <1>2. P!Terms(r) => Terms(r)
    BY DEF P!Terms, Terms
  <1>3. P!WriteContent(r) => WriteContent(r)
    BY DEF P!WriteContent, WriteContent, P!Puts, Puts
  <1>4. P!Settings(r) => Settings(r)
    BY DEF P!Settings, Settings, P!SettingsOf, SettingsOf, P!Setting, Setting
  <1>5. P!Save(r) => Save(r)
    BY DEF P!Save, Save
  <1>6. P!Publish(r) => Publish(r)
    BY DEF P!Publish, Publish
  <1>7. P!Unpublish(r) => Unpublish(r)
    BY DEF P!Unpublish, Unpublish, P!SetFlags, SetFlags
  <1>8. P!SoftDelete(r) => SoftDelete(r)
    BY DEF P!SoftDelete, SoftDelete, P!SetFlags, SetFlags
  <1>9. P!Restore(r) => Restore(r)
    BY DEF P!Restore, Restore, P!SetFlags, SetFlags
  <1>10. P!Purge(r) => Purge(r)
    BY DEF P!Purge, Purge
  <1>11. P!ReadBack(r) => ReadBack(r)
    BY DEF P!ReadBack, ReadBack
  <1>12. P!Refuse(r) => Refuse(r)
    BY DEF P!Refuse, Refuse, P!Refusals, Refusals
  <1> QED
    BY <1>1, <1>2, <1>3, <1>4, <1>5, <1>6, <1>7, <1>8, <1>9, <1>10, <1>11, <1>12
    DEF P!Continue, Continue

LEMMA ListedPostsEnd ==
    /\ \A r \in Requests : (P!Return(r) => Return(r)) /\ (P!Abandon(r) => Abandon(r))
    /\ P!Restart => Restart
  BY DEF P!Return, Return, P!Abandon, Abandon, P!Restart, Restart, P!Unfinished, Unfinished,
         P!Goto, Goto, P!Holding, Holding, P!Idle, Idle

\* So the types of Posts stay as they are.
LEMMA ListedPostsType ==
    ASSUME TypeOK, PostsChange \/ P!Restart
    PROVE  TypeOK'
  <1>1. CASE PostsChange
    <2>1. PICK r \in Requests : P!Begin(r) \/ P!Continue(r) \/ P!Return(r) \/ P!Abandon(r)
      BY <1>1 DEF PostsChange
    <2>2. Begin(r) \/ Continue(r) \/ Return(r) \/ Abandon(r)
      BY <2>1, ListedPostsBegin, ListedPostsContinue, ListedPostsEnd
    <2> QED
      BY <2>2, PostsTypeStep DEF Next
  <1>2. CASE P!Restart
    BY <1>2, ListedPostsEnd, PostsTypeStep DEF Next
  <1> QED
    BY <1>1, <1>2

\* A page as its handler has it.
PageInHand ==
    [at : {"read", "shown"}, page : PagesOfLists \cup {"post"}, user : Users \cup {None},
     todo : SUBSET Names, shown : SUBSET (Names \X Row)]

ReadersInv ==
    /\ TypeOK
    /\ reading \in [Requests -> PageInHand \cup {NotReading}]
    /\ moved \in [Requests -> SUBSET Names]

LEMMA ReadersStart == ListsInit => ReadersInv
  <1> SUFFICES ASSUME ListsInit PROVE ReadersInv
    OBVIOUS
  <1>1. Init
    BY DEF ListsInit, P!Init, Init, P!Idle, Idle, P!Holding, Holding
  <1>2. TypeOK
    BY <1>1, IdleIsARequest DEF Init, TypeOK
  <1> QED
    BY <1>2 DEF ListsInit, ReadersInv

LEMMA ReadersStep == ReadersInv /\ [ListsNext]_listsVars => ReadersInv'
  <1> SUFFICES ASSUME ReadersInv, [ListsNext]_listsVars PROVE ReadersInv'
    OBVIOUS
  <1>0. NotReading.at = "idle"
    BY DEF NotReading
  <1>1. ASSUME NEW r \in Requests, ListsWork(r) PROVE ReadersInv'
    <2>1. UNCHANGED <<posts, req, clobbered, partial, purged>>
      BY <1>1 DEF ListsWork, SelectNames, ReadPost, ShowList, ShowPost, LeavePage
    <2>2. TypeOK'
      BY <2>1, PostsTypeStep DEF vars, ReadersInv
    <2>3. /\ moved' \in [Requests -> SUBSET Names]
          /\ \E l \in PageInHand \cup {NotReading} : reading' = [reading EXCEPT ![r] = l]
      <3>1. CASE SelectNames(r)
        <4>1. PICK page \in PagesOfLists, user \in Users \cup {None} :
                /\ reading' = [reading EXCEPT ![r] =
                     Reading("read", page, user,
                             {n \in Names : P!Exists(n) /\ Selected(posts[n], user)}, {})]
                /\ UNCHANGED moved
          BY <3>1 DEF SelectNames
        <4> DEFINE todo == {n \in Names : P!Exists(n) /\ Selected(posts[n], user)}
        <4>2. todo \in SUBSET Names
          OBVIOUS
        <4> HIDE DEF todo
        <4>3. Reading("read", page, user, todo, {}) \in PageInHand
          BY <4>2 DEF Reading, PageInHand
        <4> QED
          BY <4>1, <4>3 DEF ReadersInv, todo
      <3>2. CASE ReadPost(r)
        <4>1. PICK n \in Names :
                LET l == reading[r] IN
                /\ l.at = "read" /\ n \in l.todo
                /\ reading' = [reading EXCEPT ![r] =
                     IF P!Exists(n)
                     THEN [l EXCEPT !.todo = @ \ {n}, !.shown = @ \cup {<<n, posts[n]>>}]
                     ELSE NotReading]
                /\ moved' = IF P!Exists(n) THEN moved ELSE [moved EXCEPT ![r] = {}]
          BY <3>2 DEF ReadPost
        <4>2. reading[r] \in PageInHand
          BY <1>0, <4>1 DEF ReadersInv
        <4>3. P!Exists(n) => posts[n] \in Row
          BY DEF P!Exists, ReadersInv, TypeOK
        <4> DEFINE l == [reading[r] EXCEPT !.todo = @ \ {n},
                                           !.shown = @ \cup {<<n, posts[n]>>}]
        <4>4. P!Exists(n) => l \in PageInHand
          <5> SUFFICES ASSUME P!Exists(n) PROVE l \in PageInHand
            OBVIOUS
          <5> DEFINE todo == reading[r].todo \ {n}
                     got == reading[r].shown \cup {<<n, posts[n]>>}
          <5>1. todo \in SUBSET Names /\ got \in SUBSET (Names \X Row)
            BY <4>2, <4>3 DEF PageInHand
          <5>2. l = [reading[r] EXCEPT !.todo = todo, !.shown = got]
            OBVIOUS
          <5> HIDE DEF todo, got
          <5>3. [reading[r] EXCEPT !.todo = todo, !.shown = got] \in PageInHand
            BY <4>2, <5>1 DEF PageInHand
          <5> QED
            BY <5>2, <5>3
        <4>5. moved' \in [Requests -> SUBSET Names]
          BY <4>1 DEF ReadersInv
        <4> QED
          BY <4>1, <4>4, <4>5
      <3>3. CASE ShowList(r)
        <4>1. /\ reading[r].at = "read"
              /\ reading' = [reading EXCEPT ![r].at = "shown",
                                            ![r].shown = Answered(reading[r].page,
                                                                  reading[r].user, reading[r].shown)]
              /\ moved' = moved
          BY <3>3 DEF ShowList
        <4>2. reading[r] \in PageInHand
          BY <1>0, <4>1 DEF ReadersInv
        <4> DEFINE s == Answered(reading[r].page, reading[r].user, reading[r].shown)
        <4>3. s \in SUBSET (Names \X Row)
          BY <4>2 DEF Answered, PageInHand
        <4> HIDE DEF s
        <4>4. [reading[r] EXCEPT !.at = "shown", !.shown = s] \in PageInHand
          BY <4>2, <4>3 DEF PageInHand
        <4>5. reading' = [reading EXCEPT ![r] = [reading[r] EXCEPT !.at = "shown", !.shown = s]]
          BY <4>1, <4>2 DEF s, ReadersInv, PageInHand
        <4> QED
          BY <4>1, <4>4, <4>5 DEF ReadersInv
      <3>4. CASE ShowPost(r)
        <4>1. PICK n \in Names, user \in Users \cup {None} :
                /\ P!Exists(n)
                /\ reading' = [reading EXCEPT ![r] =
                                 Reading("shown", "post", user, {}, {<<n, posts[n]>>})]
                /\ UNCHANGED moved
          BY <3>4 DEF ShowPost
        <4>2. posts[n] \in Row
          BY <4>1 DEF P!Exists, ReadersInv, TypeOK
        <4>3. Reading("shown", "post", user, {}, {<<n, posts[n]>>}) \in PageInHand
          BY <4>2 DEF Reading, PageInHand
        <4> QED
          BY <4>1, <4>3 DEF ReadersInv
      <3>5. CASE LeavePage(r)
        BY <3>5 DEF LeavePage, ReadersInv
      <3> QED
        BY <1>1, <3>1, <3>2, <3>3, <3>4, <3>5 DEF ListsWork
    <2> QED
      BY <2>2, <2>3 DEF ReadersInv
  <1>2. CASE PostsChange
    <2>1. TypeOK' /\ reading' = reading
      BY <1>2, ListedPostsType DEF PostsChange, ReadersInv
    <2>2. ASSUME NEW r \in Requests
          PROVE  (IF reading[r].at = "read"
                  THEN moved[r] \cup {n \in reading[r].todo : posts'[n] # posts[n]}
                  ELSE moved[r]) \in SUBSET Names
      <3>1. moved[r] \in SUBSET Names
        BY DEF ReadersInv
      <3>2. reading[r].at = "read" => reading[r].todo \in SUBSET Names
        BY <1>0 DEF ReadersInv, PageInHand
      <3> QED
        BY <3>1, <3>2
    <2> QED
      BY <1>2, <2>1, <2>2 DEF PostsChange, ReadersInv
  <1>3. CASE ListsRestart
    <2>1. TypeOK'
      BY <1>3, ListedPostsType DEF ListsRestart, ReadersInv
    <2> QED
      BY <1>3, <2>1 DEF ListsRestart, ReadersInv
  <1>4. CASE UNCHANGED listsVars
    BY <1>4 DEF listsVars, ReadersInv, TypeOK
  <1> QED
    BY <1>1, <1>2, <1>3, <1>4 DEF ListsNext

\* A reader's handler has names of posts still to be read, and rows of posts that it
\* has read, whatever the handlers of Posts do meanwhile (list, by_slug).
THEOREM ListsTypesHold == ListsSpec => []ListsTypeOK
  <1>1. ReadersInv => ListsTypeOK
    <2> SUFFICES ASSUME ReadersInv, NEW r \in Requests
                 PROVE  /\ reading[r] # NotReading =>
                              /\ reading[r].todo \subseteq Names
                              /\ reading[r].shown \subseteq Names \X P!Row
                        /\ moved[r] \subseteq Names
      BY DEF ListsTypeOK
    <2>1. P!Row = Row
      BY DEF P!Row, Row
    <2> QED
      BY <2>1 DEF ReadersInv, PageInHand
  <1> QED
    BY <1>1, ReadersStart, ReadersStep, PTL DEF ListsSpec
=============================================================================
