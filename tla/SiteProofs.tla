----------------------------- MODULE SiteProofs -----------------------------
(***************************************************************************)
(* Proofs about the components that administrators and visitors of the     *)
(* site meet: Pages, PostLists, Settings and Taxonomy. Each has a section  *)
(* of its own, with the inductive invariant that its properties follow     *)
(* from.                                                                   *)
(***************************************************************************)
EXTENDS Settings, Taxonomy, Pages, PostLists, WellFoundedInduction, TLAPS

-----------------------------------------------------------------------------
(* Pages. Of PUTs that overlap it is known that they did (OverlapsAreBeside),
   and a PUT by itself finds, between its two statements, the page that its
   own text is in and holds the settings that it will store (EditInv). Visits
   are counted by one statement each, and their count needs only the types.
   A PUT that has read a published page has its time in hand (StampedInv). *)

SettingsOf(p) == [slug |-> p.slug, visible |-> p.visible]
Edited(p) == [text |-> p.text, slug |-> p.slug, visible |-> p.visible]
Follows(s, p, c) == s.slug = Given(c.slug, p.slug) /\ s.visible = Given(c.visible, p.visible)

\* PUTs that overlap on a page are known to.
OverlapsAreBeside ==
    \A r, q \in Requests, n \in PageNames :
        r # q /\ Changing(editing[r], n) /\ Changing(editing[q], n) => r \in beside

\* A page is its last edit as long as no PUT has stored its text. A PUT by itself
\* has its own text stored next, and in hand the settings it will store.
EditInv ==
    /\ OverlapsAreBeside
    /\ \A n \in PageNames \ mixed :
         (\A r \in Requests : Changing(editing[r], n) => editing[r].at = "text") =>
             edit[n] = Edited(pages[n])
    /\ \A r \in Requests \ beside, n \in PageNames :
         LET e == editing[r] IN
         Changing(e, n) /\ e.at # "text" =>
             /\ pages[n].text = e.change.text
             /\ n \notin mixed => SettingsOf(edit[n]) = SettingsOf(pages[n])
             /\ e.at = "save" => Follows(e.settings, pages[n], e.change)

\* Settings that are about to be saved on a published page have its time.
StampedInv ==
    /\ PublishedPagesAreStamped
    /\ \A r \in Requests, n \in PageNames \ unsure :
         editing[r].at = "save" /\ editing[r].page = n /\ pages[n].published
             => editing[r].settings.stamped

PagesInv == PagesTypeOK /\ VisitsAreCounted /\ EditInv /\ StampedInv

\* What is known of a handler from its stage.
LEMMA EditingFields ==
    ASSUME NEW e \in Editing
    PROVE  /\ e.at \in {"text", "read", "save"} =>
                /\ e.page \in PageNames /\ e.change \in Changes
                /\ e.change.text \in Texts
                /\ e.change.slug \in PageSlugs \cup {None}
                /\ e.change.visible \in Visible \cup {None}
           /\ e.at \in {"text", "read"} => e = [at |-> e.at, page |-> e.page, change |-> e.change]
           /\ e.at = "save" => /\ e.settings.slug \in PageSlugs /\ e.settings.visible \in Visible
                             /\ e.settings.stamped \in BOOLEAN
           /\ e.at = "seen" => e.page \in PageNames
  <1>1. \A c \in Changes : /\ c.text \in Texts
                           /\ c.slug \in PageSlugs \cup {None}
                           /\ c.visible \in Visible \cup {None}
    BY PagesAssumption DEF Change
  <1> QED
    BY <1>1 DEF Editing, Free, Saved, Seen, InHand

LEMMA PagesStart == PagesInit => PagesInv
  <1> SUFFICES ASSUME PagesInit PROVE PagesInv
    OBVIOUS
  <1>1. \A r \in Requests : editing[r] = Free
    BY DEF PagesInit
  <1>2. Free \in Editing /\ Free.at = "idle"
    BY DEF Free, Editing
  <1>3. /\ pages \in [PageNames -> [slug : PageSlugs, text : Texts, visible : {"PUBLIC"},
                                   published : BOOLEAN, stamped : BOOLEAN, visits : {0}]]
        /\ edit = [n \in PageNames |-> Edited(pages[n])]
    BY DEF PagesInit, Edited
  <1>4. pages \in [PageNames -> Page]
    BY <1>3 DEF Page, Visible
  <1>5. \A n \in PageNames : /\ pages[n].visits = 0
                             /\ Edited(pages[n]) \in [text : Texts, slug : PageSlugs, visible : Visible]
    BY <1>3 DEF Edited, Visible
  <1>6. PagesTypeOK
    BY <1>2, <1>3, <1>4, <1>5 DEF PagesInit, PagesTypeOK
  <1>7. VisitsAreCounted
    BY <1>5 DEF PagesInit, VisitsAreCounted
  <1>8. EditInv
    BY <1>1, <1>2, <1>3 DEF EditInv, OverlapsAreBeside, Changing
  <1>9. StampedInv
    BY <1>1, <1>2 DEF PagesInit, StampedInv, PublishedPagesAreStamped
  <1> QED
    BY <1>6, <1>7, <1>8, <1>9 DEF PagesInv

\* The settings that are stored are some.
LEMMA MergeType ==
    ASSUME PagesTypeOK, NEW n \in PageNames, NEW c \in Changes
    PROVE  Merge(pages[n], c) \in InHand
  <1>1. c.slug \in PageSlugs \cup {None} /\ c.visible \in Visible \cup {None}
        /\ c.time \in BOOLEAN
    BY PagesAssumption DEF Change
  <1>2. pages[n].slug \in PageSlugs /\ pages[n].visible \in Visible
        /\ pages[n].stamped \in BOOLEAN
    BY DEF PagesTypeOK, Page
  <1> QED
    BY <1>1, <1>2 DEF Merge, Given, InHand

LEMMA PagesTypesStep == PagesTypeOK /\ [PagesNext]_pagesVars => PagesTypeOK'
  <1> SUFFICES ASSUME PagesTypeOK, [PagesNext]_pagesVars PROVE PagesTypeOK'
    OBVIOUS
  <1> USE DEF PagesTypeOK
  <1>0. Free \in Editing
    BY DEF Editing
  <1>1. ASSUME NEW r \in Requests, PutPage(r) PROVE PagesTypeOK'
    BY <1>1 DEF PutPage, Text, Editing
  <1>2. ASSUME NEW r \in Requests, UpdateContent(r) PROVE PagesTypeOK'
    <2>1. /\ editing[r].page \in PageNames /\ editing[r].change \in Changes
          /\ editing[r].change.text \in Texts
          /\ editing[r] = [at |-> "text", page |-> editing[r].page,
                           change |-> editing[r].change]
      BY <1>2, EditingFields DEF UpdateContent
    <2>2. [editing[r] EXCEPT !.at = "read"] =
             [at |-> "read", page |-> editing[r].page, change |-> editing[r].change]
      BY <2>1
    <2>3. [editing[r] EXCEPT !.at = "read"] \in Editing
      BY <2>1, <2>2 DEF Editing
    <2>4. pages' \in [PageNames -> Page]
      BY SMTT(30), <1>2, <2>1 DEF UpdateContent, Page
    <2> QED
      BY <1>2, <2>3, <2>4 DEF UpdateContent
  <1>3. ASSUME NEW r \in Requests, ReadSettings(r) PROVE PagesTypeOK'
    <2>1. editing[r].page \in PageNames /\ editing[r].change \in Changes
      BY <1>3, EditingFields DEF ReadSettings
    <2>2. Saved(editing[r].page, editing[r].change,
                Merge(pages[editing[r].page], editing[r].change)) \in Editing
      BY <2>1, MergeType DEF Editing
    <2> QED
      BY <1>3, <2>2 DEF ReadSettings
  <1>4. ASSUME NEW r \in Requests, SaveSettings(r) PROVE PagesTypeOK'
    <2>1. /\ editing[r].page \in PageNames /\ editing[r].change.text \in Texts
          /\ editing[r].change.slug \in PageSlugs \cup {None}
          /\ editing[r].change.visible \in Visible \cup {None}
          /\ editing[r].settings.slug \in PageSlugs
          /\ editing[r].settings.visible \in Visible
          /\ editing[r].settings.stamped \in BOOLEAN
      BY <1>4, EditingFields DEF SaveSettings
    <2>2. pages' \in [PageNames -> Page]
      <3>1. PICK n, s : n = editing[r].page /\ s = editing[r].settings
        OBVIOUS
      <3>2. pages' = [pages EXCEPT ![n] = [@ EXCEPT !.slug = s.slug, !.visible = s.visible,
                                                    !.stamped = s.stamped]]
        BY <1>4, <3>1 DEF SaveSettings
      <3>3. /\ n \in PageNames /\ s.slug \in PageSlugs /\ s.visible \in Visible
            /\ s.stamped \in BOOLEAN
        BY <2>1, <3>1
      <3>4. [pages[n] EXCEPT !.slug = s.slug, !.visible = s.visible,
                             !.stamped = s.stamped] \in Page
        BY ZenonT(30), <3>3 DEF Page
      <3> QED
        BY <3>2, <3>4
    <2>3. edit' \in [PageNames -> [text : Texts, slug : PageSlugs, visible : Visible]]
      BY <1>4, <2>1 DEF SaveSettings, Given
    <2> QED
      BY <1>0, <1>4, <2>1, <2>2, <2>3 DEF SaveSettings, EndEdit
  <1>5. ASSUME NEW r \in Requests, SaveRefused(r) PROVE PagesTypeOK'
    <2>1. editing[r].page \in PageNames
      BY <1>5, EditingFields DEF SaveRefused
    <2> QED
      BY <1>0, <1>5, <2>1 DEF SaveRefused, EndEdit
  <1>6. CASE PublishPage \/ UnpublishPage
    <2>1. PICK n \in PageNames :
            \/ pages' = [pages EXCEPT ![n].published = TRUE, ![n].stamped = TRUE]
            \/ pages' = [pages EXCEPT ![n].published = FALSE]
      BY <1>6 DEF PublishPage, UnpublishPage
    <2>2. pages' \in [PageNames -> Page]
      <3>1. ASSUME pages' = [pages EXCEPT ![n].published = TRUE, ![n].stamped = TRUE]
            PROVE  pages' \in [PageNames -> Page]
        <4> DEFINE published == [pages EXCEPT ![n].published = TRUE]
        <4>1. published \in [PageNames -> Page]
          BY DEF Page
        <4>2. pages' = [published EXCEPT ![n].stamped = TRUE]
          BY <3>1
        <4> HIDE DEF published
        <4> QED
          BY <4>1, <4>2 DEF Page
      <3>2. ASSUME pages' = [pages EXCEPT ![n].published = FALSE]
            PROVE  pages' \in [PageNames -> Page]
        BY <3>2 DEF Page
      <3> QED
        BY <2>1, <3>1, <3>2
    <2>3. unsure' \subseteq PageNames
      BY <1>6 DEF PublishPage, UnpublishPage
    <2> QED
      BY <1>6, <2>2, <2>3 DEF PublishPage, UnpublishPage
  <1>8. ASSUME NEW r \in Requests, ViewPage(r) PROVE PagesTypeOK'
    <2>1. PICK n \in PageNames : /\ pages[n].visits < MaxVisits
                                 /\ editing' = [editing EXCEPT ![r] = Seen(n, pages[n].visits)]
      BY <1>8 DEF ViewPage
    <2>2. pages[n].visits \in 0..MaxVisits
      BY <2>1, PagesAssumption DEF Page
    <2> QED
      BY <1>8, <2>1, <2>2 DEF ViewPage, Editing
  <1>9. ASSUME NEW r \in Requests, IncrementVisit(r) PROVE PagesTypeOK'
    <2>1. editing[r].page \in PageNames
      BY <1>9, EditingFields DEF IncrementVisit
    <2>2. NextVisit(editing[r]) \in Nat
      BY <2>1 DEF NextVisit, Page
    <2>3. pages' \in [PageNames -> Page]
      BY ZenonT(30), <1>9, <2>1, <2>2 DEF IncrementVisit, Page
    <2> QED
      BY <1>0, <1>9, <2>1, <2>3 DEF IncrementVisit
  <1>10. ASSUME NEW r \in Requests, AbandonEdit(r) PROVE PagesTypeOK'
    <2>1. editing[r].at \in {"read", "save"} => editing[r].page \in PageNames
      BY EditingFields
    <2> QED
      BY <1>0, <1>10, <2>1 DEF AbandonEdit, EndEdit
  <1>11. CASE UNCHANGED pagesVars
    BY <1>11 DEF pagesVars
  <1> QED
    BY <1>1, <1>2, <1>3, <1>4, <1>5, <1>6, <1>8, <1>9, <1>10, <1>11
    DEF PagesNext, PagesWork

\* Only a visit that is counted counts.
\* Publishing a page changes nothing else of it.
LEMMA PublishingKeepsTheRest ==
    PagesTypeOK /\ (PublishPage \/ UnpublishPage) =>
        \A m \in PageNames : /\ pages'[m].text = pages[m].text
                             /\ pages'[m].slug = pages[m].slug
                             /\ pages'[m].visible = pages[m].visible
                             /\ pages'[m].visits = pages[m].visits
  <1> SUFFICES ASSUME PagesTypeOK, PublishPage \/ UnpublishPage, NEW m \in PageNames
               PROVE  /\ pages'[m].text = pages[m].text
                      /\ pages'[m].slug = pages[m].slug
                      /\ pages'[m].visible = pages[m].visible
                      /\ pages'[m].visits = pages[m].visits
    OBVIOUS
  <1>1. PICK n \in PageNames :
          \/ pages' = [pages EXCEPT ![n].published = TRUE, ![n].stamped = TRUE]
          \/ pages' = [pages EXCEPT ![n].published = FALSE]
    BY DEF PublishPage, UnpublishPage
  <1>2. pages'[m] = pages[m] \/ pages'[m] = [pages[m] EXCEPT !.published = FALSE]
          \/ pages'[m] = [pages[m] EXCEPT !.published = TRUE, !.stamped = TRUE]
    BY <1>1 DEF PagesTypeOK
  <1>3. pages[m] \in Page
    BY DEF PagesTypeOK
  <1> QED
    BY <1>2, <1>3 DEF Page

LEMMA VisitsStep ==
    PagesTypeOK /\ VisitsAreCounted /\ [PagesNext]_pagesVars => VisitsAreCounted'
  <1> SUFFICES ASSUME PagesTypeOK, VisitsAreCounted, [PagesNext]_pagesVars
               PROVE  VisitsAreCounted'
    OBVIOUS
  <1> USE DEF VisitsAreCounted
  <1>1. ASSUME NEW r \in Requests, IncrementVisit(r) PROVE VisitsAreCounted'
    <2>1. editing[r].page \in PageNames
      BY <1>1, EditingFields DEF IncrementVisit, PagesTypeOK
    <2> QED
      BY <1>1, <2>1 DEF IncrementVisit, NextVisit, PagesTypeOK, Page
  <1>2. ASSUME views' = views, \A n \in PageNames : pages'[n].visits = pages[n].visits
        PROVE  VisitsAreCounted'
    BY <1>2
  <1>3. ASSUME NEW r \in Requests, PutPage(r) \/ ReadSettings(r) \/ SaveRefused(r)
                                   \/ ViewPage(r) \/ AbandonEdit(r)
        PROVE  VisitsAreCounted'
    BY <1>3 DEF PutPage, ReadSettings, SaveRefused, ViewPage, AbandonEdit
  <1>4. ASSUME NEW r \in Requests, UpdateContent(r) \/ SaveSettings(r) PROVE VisitsAreCounted'
    <2>1. \A n \in PageNames : pages'[n].visits = pages[n].visits
      <3>1. CASE UpdateContent(r)
        BY <3>1 DEF UpdateContent, PagesTypeOK, Page
      <3>2. CASE SaveSettings(r)
        BY <3>2 DEF SaveSettings, PagesTypeOK, Page
      <3> QED
        BY <1>4, <3>1, <3>2
    <2> QED
      BY <1>2, <1>4, <2>1 DEF UpdateContent, SaveSettings
  <1>5. CASE PublishPage \/ UnpublishPage
    <2>1. \A m \in PageNames : pages'[m].visits = pages[m].visits
      BY <1>5, PublishingKeepsTheRest
    <2> QED
      BY <1>2, <1>5, <2>1 DEF PublishPage, UnpublishPage
  <1>6. CASE UNCHANGED pagesVars
    BY <1>6 DEF pagesVars
  <1> QED
    BY <1>1, <1>3, <1>4, <1>5, <1>6 DEF PagesNext, PagesWork

\* A step that leaves the rows, the history and the handlers that edit alone.
LEMMA EditsStay ==
    /\ EditInv
    /\ \A n \in PageNames : /\ pages'[n].text = pages[n].text
                            /\ pages'[n].slug = pages[n].slug
                            /\ pages'[n].visible = pages[n].visible
    /\ \A q \in Requests : \/ editing'[q] = editing[q]
                           \/ /\ editing'[q].at \notin {"text", "read", "save"}
                              /\ editing[q].at \notin {"text", "read", "save"}
    /\ beside' = beside /\ mixed' = mixed /\ edit' = edit
    => EditInv'
  <1> SUFFICES ASSUME EditInv,
                      \A n \in PageNames : /\ pages'[n].text = pages[n].text
                                           /\ pages'[n].slug = pages[n].slug
                                           /\ pages'[n].visible = pages[n].visible,
                      \A q \in Requests : \/ editing'[q] = editing[q]
                                          \/ /\ editing'[q].at \notin {"text", "read", "save"}
                                             /\ editing[q].at \notin {"text", "read", "save"},
                      beside' = beside, mixed' = mixed, edit' = edit
               PROVE  EditInv'
    OBVIOUS
  <1>2. \A q \in Requests, n \in PageNames :
          Changing(editing'[q], n) <=> Changing(editing[q], n)
    BY DEF Changing
  <1>3. \A q \in Requests, n \in PageNames :
          Changing(editing[q], n) => editing'[q] = editing[q]
    BY DEF Changing
  <1>4. OverlapsAreBeside'
    BY <1>2 DEF EditInv, OverlapsAreBeside
  <1> QED
    BY <1>2, <1>3, <1>4 DEF EditInv, Edited, SettingsOf, Follows

\* A handler that stops editing a page.
LEMMA EditEnds ==
    ASSUME PagesTypeOK, EditInv, NEW r \in Requests, EndEdit(r)
    PROVE  /\ OverlapsAreBeside'
           /\ \A q \in Requests, n \in PageNames :
                Changing(editing'[q], n) <=> q # r /\ Changing(editing[q], n)
           /\ \A q \in Requests \ {r} : editing'[q] = editing[q]
           /\ \A q \in Requests \ {r} : q \in beside' <=> q \in beside
  <1>1. \A q \in Requests : editing'[q] = IF q = r THEN Free ELSE editing[q]
    BY DEF EndEdit, PagesTypeOK
  <1>2. \A q \in Requests, n \in PageNames :
          Changing(editing'[q], n) <=> q # r /\ Changing(editing[q], n)
    BY <1>1 DEF Changing, Free
  <1>3. \A q \in Requests \ {r} : q \in beside' <=> q \in beside
    BY DEF EndEdit
  <1> QED
    BY <1>1, <1>2, <1>3 DEF EditInv, OverlapsAreBeside

LEMMA EditStep == PagesTypeOK /\ EditInv /\ [PagesNext]_pagesVars => EditInv'
  <1> SUFFICES ASSUME PagesTypeOK, EditInv, [PagesNext]_pagesVars PROVE EditInv'
    OBVIOUS
  <1>1. ASSUME NEW r \in Requests, PutPage(r) PROVE EditInv'
    <2>1. PICK n \in PageNames, c \in Changes :
            LET others == {q \in Requests \ {r} : Changing(editing[q], n)} IN
            /\ editing[r] = Free
            /\ editing' = [editing EXCEPT ![r] = Text(n, c)]
            /\ beside' = IF others = {} THEN beside ELSE beside \cup others \cup {r}
            /\ UNCHANGED <<pages, mixed, edit>>
      BY <1>1 DEF PutPage
    <2>2. \A q \in Requests : editing'[q] = IF q = r THEN Text(n, c) ELSE editing[q]
      BY <2>1 DEF PagesTypeOK
    <2>3. /\ \A m : Changing(Text(n, c), m) <=> m = n
          /\ Text(n, c).at = "text"
          /\ \A m : ~Changing(Free, m)
      BY DEF Changing, Text, Free
    <2>4. /\ beside \subseteq beside'
          /\ \A q \in Requests \ {r} : Changing(editing[q], n) =>
                q \in beside' /\ r \in beside'
      BY <2>1
    <2>5. OverlapsAreBeside'
      BY <2>2, <2>3, <2>4 DEF EditInv, OverlapsAreBeside
    <2>6. \A m \in PageNames :
            (\A q \in Requests : Changing(editing'[q], m) => editing'[q].at = "text")
              => (\A q \in Requests : Changing(editing[q], m) => editing[q].at = "text")
      BY <2>1, <2>2, <2>3
    <2>7. \A q \in Requests \ beside', m \in PageNames :
            Changing(editing'[q], m) /\ editing'[q].at # "text" =>
              /\ q \notin beside /\ editing'[q] = editing[q]
              /\ Changing(editing[q], m) /\ editing[q].at # "text"
      BY <2>2, <2>3, <2>4
    <2> QED
      BY <2>1, <2>5, <2>6, <2>7 DEF EditInv
  <1>2. ASSUME NEW r \in Requests, UpdateContent(r) PROVE EditInv'
    <2> DEFINE e == editing[r]
               next == [e EXCEPT !.at = "read"]
    <2>1. /\ e.at = "text" /\ e.page \in PageNames /\ Changing(e, e.page)
          /\ pages' = [pages EXCEPT ![e.page].text = e.change.text]
          /\ editing' = [editing EXCEPT ![r] = next]
          /\ UNCHANGED <<beside, mixed, edit>>
          /\ e = [at |-> "text", page |-> e.page, change |-> e.change]
      BY <1>2, EditingFields DEF UpdateContent, PagesTypeOK, Changing
    <2>2. next.at = "read" /\ next.page = e.page /\ next.change = e.change
      BY <2>1
    <2>3. /\ \A q \in Requests : editing'[q] = IF q = r THEN next ELSE editing[q]
          /\ \A n \in PageNames : n # e.page => pages'[n] = pages[n]
          /\ pages'[e.page].text = e.change.text
          /\ pages'[e.page].slug = pages[e.page].slug
          /\ pages'[e.page].visible = pages[e.page].visible
      BY <2>1 DEF PagesTypeOK, Page
    <2> HIDE DEF e, next
    <2>4. \A q \in Requests, n \in PageNames :
            Changing(editing'[q], n) <=> Changing(editing[q], n)
      BY <2>1, <2>2, <2>3 DEF Changing, e
    <2>5. OverlapsAreBeside'
      BY <2>1, <2>4 DEF EditInv, OverlapsAreBeside
    <2>6. ASSUME NEW n \in PageNames \ mixed,
                 \A q \in Requests : Changing(editing'[q], n) => editing'[q].at = "text"
          PROVE  edit[n] = Edited(pages'[n])
      <3>1. n # e.page
        BY <2>1, <2>2, <2>3, <2>4, <2>6 DEF e
      <3>2. \A q \in Requests : Changing(editing[q], n) => editing[q].at = "text"
        BY <2>1, <2>3, <2>4, <2>6 DEF e
      <3> QED
        BY <2>3, <3>1, <3>2 DEF EditInv
    <2>7. ASSUME NEW q \in Requests \ beside, NEW n \in PageNames,
                 Changing(editing'[q], n), editing'[q].at # "text"
          PROVE  /\ pages'[n].text = editing'[q].change.text
                 /\ n \notin mixed => SettingsOf(edit[n]) = SettingsOf(pages'[n])
                 /\ editing'[q].at = "save" =>
                      Follows(editing'[q].settings, pages'[n], editing'[q].change)
      <3>1. CASE q = r
        <4>1. n = e.page /\ editing'[q] = next
          BY <2>2, <2>3, <2>7, <3>1 DEF Changing
        <4>2. \A p \in Requests : Changing(editing[p], n) => p = r
          BY <2>1, <2>7, <3>1, <4>1 DEF EditInv, OverlapsAreBeside, e
        <4>3. n \notin mixed => edit[n] = Edited(pages[n])
          BY <2>1, <4>2 DEF EditInv, e
        <4>4. n \notin mixed => SettingsOf(edit[n]) = SettingsOf(pages'[n])
          BY <2>3, <4>1, <4>3 DEF SettingsOf, Edited
        <4> QED
          BY <2>2, <2>3, <4>1, <4>4
      <3>2. CASE q # r
        <4>1. editing'[q] = editing[q] /\ Changing(editing[q], n)
          BY <2>3, <2>4, <2>7, <3>2
        <4>2. n # e.page
          BY <2>1, <2>7, <3>2, <4>1 DEF EditInv, OverlapsAreBeside, e
        <4> QED
          BY <2>3, <2>7, <4>1, <4>2 DEF EditInv
      <3> QED
        BY <3>1, <3>2
    <2> QED
      BY <2>1, <2>5, <2>6, <2>7 DEF EditInv
  <1>3. ASSUME NEW r \in Requests, ReadSettings(r) PROVE EditInv'
    <2> DEFINE e == editing[r]
               next == Saved(e.page, e.change, Merge(pages[e.page], e.change))
    <2>1. /\ e.at = "read" /\ e.page \in PageNames
          /\ editing' = [editing EXCEPT ![r] = next]
          /\ UNCHANGED <<pages, beside, mixed, edit>>
      BY <1>3, EditingFields DEF ReadSettings, PagesTypeOK
    <2>2. /\ next.at = "save" /\ next.page = e.page /\ next.change = e.change
          /\ Follows(next.settings, pages[e.page], e.change)
      BY DEF Saved, Follows, Merge
    <2>3. \A q \in Requests : editing'[q] = IF q = r THEN next ELSE editing[q]
      BY <2>1 DEF PagesTypeOK
    <2> HIDE DEF e, next
    <2>4. \A q \in Requests, n \in PageNames :
            Changing(editing'[q], n) <=> Changing(editing[q], n)
      BY <2>1, <2>2, <2>3 DEF Changing, e
    <2>5. OverlapsAreBeside'
      BY <2>1, <2>4 DEF EditInv, OverlapsAreBeside
    <2>6. \A q \in Requests : editing'[q].at = "text" <=> editing[q].at = "text"
      BY <2>1, <2>2, <2>3 DEF e
    <2>7. \A n : Changing(next, n) => n = e.page
      BY <2>2 DEF Changing
    <2>8. \A q \in Requests \ beside, n \in PageNames :
            Changing(editing'[q], n) /\ editing'[q].at # "text" =>
              /\ pages[n].text = editing'[q].change.text
              /\ n \notin mixed => SettingsOf(edit[n]) = SettingsOf(pages[n])
              /\ editing'[q].at = "save" =>
                   Follows(editing'[q].settings, pages[n], editing'[q].change)
      BY <2>1, <2>2, <2>3, <2>4, <2>6, <2>7 DEF EditInv, e
    <2> QED
      BY <2>1, <2>4, <2>5, <2>6, <2>8 DEF EditInv
  <1>4. ASSUME NEW r \in Requests, SaveSettings(r) PROVE EditInv'
    <2>0. PICK e, n, s : e = editing[r] /\ n = e.page /\ s = e.settings
      OBVIOUS
    <2>1. /\ e.at = "save" /\ n \in PageNames /\ Changing(e, n)
          /\ pages' = [pages EXCEPT ![n] = [@ EXCEPT !.slug = s.slug, !.visible = s.visible,
                                                  !.stamped = s.stamped]]
          /\ mixed' = IF r \in beside THEN mixed \cup {n}
                      ELSE IF None \in {e.change.slug, e.change.visible} THEN mixed
                      ELSE mixed \ {n}
          /\ edit' = [edit EXCEPT ![n] =
                        [text |-> e.change.text, slug |-> Given(e.change.slug, edit[n].slug),
                         visible |-> Given(e.change.visible, edit[n].visible)]]
          /\ EndEdit(r)
      BY <1>4, <2>0, EditingFields DEF SaveSettings, PagesTypeOK, Changing
    <2>2. /\ OverlapsAreBeside'
          /\ \A q \in Requests, m \in PageNames :
               Changing(editing'[q], m) <=> q # r /\ Changing(editing[q], m)
          /\ \A q \in Requests \ {r} : editing'[q] = editing[q]
          /\ \A q \in Requests \ {r} : q \in beside' <=> q \in beside
      BY <2>1, EditEnds
    <2>3. /\ \A m \in PageNames : m # n => pages'[m] = pages[m] /\ edit'[m] = edit[m]
          /\ pages'[n].text = pages[n].text
          /\ pages'[n].slug = s.slug /\ pages'[n].visible = s.visible
          /\ edit'[n] = [text |-> e.change.text, slug |-> Given(e.change.slug, edit[n].slug),
                         visible |-> Given(e.change.visible, edit[n].visible)]
          /\ \A m \in PageNames : m # n => (m \in mixed' <=> m \in mixed)
      BY <2>1 DEF PagesTypeOK, Page
    <2>4. r \notin beside => /\ \A q \in Requests : Changing(editing[q], n) => q = r
                             /\ pages[n].text = e.change.text
                             /\ n \notin mixed => SettingsOf(edit[n]) = SettingsOf(pages[n])
                             /\ Follows(s, pages[n], e.change)
      BY <2>0, <2>1 DEF EditInv, OverlapsAreBeside
    <2>5. n \notin mixed' => r \notin beside /\ edit'[n] = Edited(pages'[n])
      <3> SUFFICES ASSUME n \notin mixed' PROVE r \notin beside /\ edit'[n] = Edited(pages'[n])
        OBVIOUS
      <3>1. r \notin beside
        BY <2>1
      <3>2. None \in {e.change.slug, e.change.visible} => n \notin mixed
        BY <2>1, <3>1
      <3>3. s.slug = Given(e.change.slug, pages[n].slug)
            /\ s.visible = Given(e.change.visible, pages[n].visible)
        BY <2>4, <3>1 DEF Follows
      <3>4. CASE None \in {e.change.slug, e.change.visible}
        <4>0. SettingsOf(edit[n]) = SettingsOf(pages[n])
          BY <2>4, <3>1, <3>2, <3>4
        <4>1. edit[n].slug = pages[n].slug /\ edit[n].visible = pages[n].visible
          BY ONLY <4>0 DEF SettingsOf
        <4> QED
          BY <2>3, <2>4, <3>1, <3>3, <4>1 DEF Edited
      <3>5. CASE None \notin {e.change.slug, e.change.visible}
        <4>1. \A old : Given(e.change.slug, old) = e.change.slug
                       /\ Given(e.change.visible, old) = e.change.visible
          BY <3>5 DEF Given
        <4> QED
          BY <2>3, <2>4, <3>1, <3>3, <4>1 DEF Edited
      <3> QED
        BY <3>4, <3>5
    <2>6. ASSUME NEW m \in PageNames \ mixed',
                 \A q \in Requests : Changing(editing'[q], m) => editing'[q].at = "text"
          PROVE  edit'[m] = Edited(pages'[m])
      <3>1. CASE m = n
        BY <2>5, <2>6, <3>1
      <3>2. CASE m # n
        <4>1. ~Changing(editing[r], m)
          BY <2>0, <2>1, <3>2 DEF Changing
        <4>2. m \notin mixed
              /\ \A q \in Requests : Changing(editing[q], m) => editing[q].at = "text"
          BY <2>2, <2>3, <2>6, <3>2, <4>1
        <4> QED
          BY <2>3, <3>2, <4>2 DEF EditInv
      <3> QED
        BY <3>1, <3>2
    <2>7. ASSUME NEW q \in Requests \ beside', NEW m \in PageNames,
                 Changing(editing'[q], m), editing'[q].at # "text"
          PROVE  /\ pages'[m].text = editing'[q].change.text
                 /\ m \notin mixed' => SettingsOf(edit'[m]) = SettingsOf(pages'[m])
                 /\ editing'[q].at = "save" =>
                      Follows(editing'[q].settings, pages'[m], editing'[q].change)
      <3>1. q # r /\ Changing(editing[q], m) /\ q \notin beside /\ editing'[q] = editing[q]
        BY <2>2, <2>7
      <3>2. m # n
        BY <2>0, <2>1, <3>1 DEF EditInv, OverlapsAreBeside
      <3> QED
        BY <2>3, <2>7, <3>1, <3>2 DEF EditInv
    <2> QED
      BY <2>2, <2>6, <2>7 DEF EditInv
  <1>5. ASSUME NEW r \in Requests, SaveRefused(r) \/ AbandonEdit(r) PROVE EditInv'
    <2>1. EndEdit(r) /\ UNCHANGED <<pages, edit>> /\ mixed \subseteq mixed'
          /\ (editing[r].at \in {"read", "save"} => editing[r].page \in mixed')
      BY <1>5 DEF SaveRefused, AbandonEdit
    <2>2. /\ OverlapsAreBeside'
          /\ \A q \in Requests, m \in PageNames :
               Changing(editing'[q], m) <=> q # r /\ Changing(editing[q], m)
          /\ \A q \in Requests \ {r} : editing'[q] = editing[q]
          /\ \A q \in Requests \ {r} : q \in beside' <=> q \in beside
      BY <2>1, EditEnds
    <2>3. ASSUME NEW m \in PageNames \ mixed',
                 \A q \in Requests : Changing(editing'[q], m) => editing'[q].at = "text"
          PROVE  edit[m] = Edited(pages[m])
      <3>1. Changing(editing[r], m) => editing[r].at = "text"
        BY <2>1, <2>3 DEF Changing
      <3>2. \A q \in Requests : Changing(editing[q], m) => editing[q].at = "text"
        BY <2>2, <2>3, <3>1
      <3> QED
        BY <2>1, <2>3, <3>2 DEF EditInv
    <2>4. \A q \in Requests \ beside', m \in PageNames :
            Changing(editing'[q], m) =>
              /\ q \notin beside /\ editing'[q] = editing[q] /\ Changing(editing[q], m)
      BY <2>2
    <2> QED
      BY <2>1, <2>2, <2>3, <2>4 DEF EditInv
  <1>6. CASE PublishPage \/ UnpublishPage
    <2>1. editing' = editing /\ UNCHANGED <<beside, mixed, edit>>
      BY <1>6 DEF PublishPage, UnpublishPage
    <2>2. \A m \in PageNames : /\ pages'[m].text = pages[m].text
                               /\ pages'[m].slug = pages[m].slug
                               /\ pages'[m].visible = pages[m].visible
      BY <1>6, PublishingKeepsTheRest
    <2> QED
      BY <2>1, <2>2, EditsStay
  <1>7. ASSUME NEW r \in Requests, ViewPage(r) PROVE EditInv'
    <2>1. PICK n \in PageNames : /\ editing[r] = Free
                                 /\ editing' = [editing EXCEPT ![r] = Seen(n, pages[n].visits)]
                                 /\ UNCHANGED <<pages, beside, mixed, edit>>
      BY <1>7 DEF ViewPage
    <2>2. Free.at = "idle" /\ Seen(n, pages[n].visits).at = "seen"
      BY DEF Free, Seen
    <2>3. \A q \in Requests : q = r \/ editing'[q] = editing[q]
      BY <2>1 DEF PagesTypeOK
    <2>4. editing'[r].at = "seen" /\ editing[r].at = "idle"
      BY <2>1, <2>2 DEF PagesTypeOK
    <2> QED
      BY <2>1, <2>3, <2>4, EditsStay
  <1>8. ASSUME NEW r \in Requests, IncrementVisit(r) PROVE EditInv'
    <2>1. /\ editing[r].at = "seen"
          /\ pages' = [pages EXCEPT ![editing[r].page].visits = NextVisit(editing[r])]
          /\ editing' = [editing EXCEPT ![r] = Free]
          /\ UNCHANGED <<beside, mixed, edit>>
      BY <1>8 DEF IncrementVisit
    <2>2. \A m \in PageNames : /\ pages'[m].text = pages[m].text
                               /\ pages'[m].slug = pages[m].slug
                               /\ pages'[m].visible = pages[m].visible
      BY <2>1 DEF PagesTypeOK, Page
    <2>3. \A q \in Requests : q = r \/ editing'[q] = editing[q]
      BY <2>1 DEF PagesTypeOK
    <2>4. editing'[r].at = "idle"
      BY <2>1 DEF PagesTypeOK, Free
    <2> QED
      BY <2>1, <2>2, <2>3, <2>4, EditsStay
  <1>9. CASE UNCHANGED pagesVars
    BY <1>9, EditsStay DEF pagesVars
  <1> QED
    BY <1>1, <1>2, <1>3, <1>4, <1>5, <1>6, <1>7, <1>8, <1>9 DEF PagesNext, PagesWork

\* No page is published, loses its time or is given one that is in doubt, and nobody
\* gets to the point of saving settings.
LEMMA StampsStay ==
    ASSUME StampedInv, unsure' = unsure,
           \A n \in PageNames : /\ pages'[n].published => pages[n].published
                                /\ pages'[n].stamped = pages[n].stamped,
           \A q \in Requests : editing'[q].at = "save" => editing'[q] = editing[q]
    PROVE  StampedInv'
  BY DEF StampedInv, PublishedPagesAreStamped

LEMMA StampedStep == PagesTypeOK /\ StampedInv /\ [PagesNext]_pagesVars => StampedInv'
  <1> SUFFICES ASSUME PagesTypeOK, StampedInv, [PagesNext]_pagesVars PROVE StampedInv'
    OBVIOUS
  <1>a. ASSUME NEW r \in Requests, NEW t, t.at # "save", editing' = [editing EXCEPT ![r] = t]
        PROVE  \A q \in Requests : editing'[q].at = "save" => editing'[q] = editing[q]
    BY <1>a DEF PagesTypeOK
  <1>b. Free.at # "save"
    BY DEF Free
  <1>1. ASSUME NEW r \in Requests, PutPage(r) \/ ViewPage(r) PROVE StampedInv'
    <2>1. PICK t : t.at # "save" /\ editing' = [editing EXCEPT ![r] = t]
      <3>1. CASE PutPage(r)
        <4>1. PICK n \in PageNames, c \in Changes :
                editing' = [editing EXCEPT ![r] = Text(n, c)]
          BY <3>1 DEF PutPage
        <4> QED
          BY <4>1 DEF Text
      <3>2. CASE ViewPage(r)
        <4>1. PICK n \in PageNames :
                editing' = [editing EXCEPT ![r] = Seen(n, pages[n].visits)]
          BY <3>2 DEF ViewPage
        <4> QED
          BY <4>1 DEF Seen
      <3> QED
        BY <1>1, <3>1, <3>2
    <2>2. \A q \in Requests : editing'[q].at = "save" => editing'[q] = editing[q]
      BY <1>a, <2>1
    <2> QED
      BY <1>1, <2>2, StampsStay DEF PutPage, ViewPage
  <1>2. ASSUME NEW r \in Requests, UpdateContent(r) PROVE StampedInv'
    <2>1. [editing[r] EXCEPT !.at = "read"].at # "save"
      <3>1. editing[r] = [at |-> "text", page |-> editing[r].page, change |-> editing[r].change]
        BY <1>2, EditingFields DEF UpdateContent, PagesTypeOK
      <3> QED
        BY <3>1
    <2>2. \A q \in Requests : editing'[q].at = "save" => editing'[q] = editing[q]
      BY <1>2, <1>a, <2>1 DEF UpdateContent
    <2>3. \A n \in PageNames : /\ pages'[n].published = pages[n].published
                              /\ pages'[n].stamped = pages[n].stamped
      BY <1>2 DEF UpdateContent, PagesTypeOK, Page
    <2> QED
      BY <1>2, <2>2, <2>3, StampsStay DEF UpdateContent
  <1>3. ASSUME NEW r \in Requests, ReadSettings(r) PROVE StampedInv'
    <2> DEFINE e == editing[r]
               next == Saved(e.page, e.change, Merge(pages[e.page], e.change))
    <2>1. e.page \in PageNames /\ e.change \in Changes
      BY <1>3, EditingFields DEF ReadSettings, PagesTypeOK
    <2>2. /\ next.page = e.page
          /\ pages[e.page].stamped => next.settings.stamped
      BY DEF Saved, Merge
    <2>3. \A q \in Requests : editing'[q] = IF q = r THEN next ELSE editing[q]
      BY <1>3 DEF ReadSettings, PagesTypeOK
    <2>4. UNCHANGED <<pages, unsure>>
      BY <1>3 DEF ReadSettings
    <2> HIDE DEF e, next
    <2> QED
      BY <2>1, <2>2, <2>3, <2>4 DEF StampedInv, PublishedPagesAreStamped
  <1>4. ASSUME NEW r \in Requests, SaveSettings(r) PROVE StampedInv'
    <2>0. PICK n, s : n = editing[r].page /\ s = editing[r].settings
      OBVIOUS
    <2>1. /\ editing[r].at = "save" /\ n \in PageNames
          /\ pages' = [pages EXCEPT ![n] = [@ EXCEPT !.slug = s.slug, !.visible = s.visible,
                                                  !.stamped = s.stamped]]
          /\ editing' = [editing EXCEPT ![r] = Free] /\ unsure' = unsure
      BY <1>4, <2>0, EditingFields DEF SaveSettings, EndEdit, PagesTypeOK
    <2>2. /\ \A m \in PageNames : m # n => pages'[m] = pages[m]
          /\ pages'[n].published = pages[n].published
          /\ pages'[n].stamped = s.stamped
      BY <2>1 DEF PagesTypeOK, Page
    <2>3. \A q \in Requests : editing'[q].at = "save" => editing'[q] = editing[q]
      BY <1>a, <1>b, <2>1
    <2>4. n \notin unsure /\ pages[n].published => s.stamped
      BY <2>0, <2>1 DEF StampedInv
    <2> QED
      BY <2>1, <2>2, <2>3, <2>4 DEF StampedInv, PublishedPagesAreStamped
  <1>5. ASSUME NEW r \in Requests, SaveRefused(r) \/ AbandonEdit(r) PROVE StampedInv'
    <2>1. \A q \in Requests : editing'[q].at = "save" => editing'[q] = editing[q]
      BY <1>5, <1>a, <1>b DEF SaveRefused, AbandonEdit, EndEdit
    <2> QED
      BY <1>5, <2>1, StampsStay DEF SaveRefused, AbandonEdit
  <1>6. CASE PublishPage
    <2>1. PICK n \in PageNames :
            /\ pages' = [pages EXCEPT ![n].published = TRUE, ![n].stamped = TRUE]
            /\ unsure' = IF \E q \in Requests :
                               editing[q].at = "save" /\ editing[q].page = n
                                   /\ ~editing[q].settings.stamped
                         THEN unsure \cup {n} ELSE unsure \ {n}
            /\ UNCHANGED editing
      BY <1>6 DEF PublishPage
    <2>2. /\ \A m \in PageNames : m # n => pages'[m] = pages[m]
          /\ pages'[n].stamped
      BY <2>1 DEF PagesTypeOK, Page
    <2>3. ASSUME NEW q \in Requests, NEW m \in PageNames \ unsure',
                 editing[q].at = "save", editing[q].page = m, pages'[m].published
          PROVE  editing[q].settings.stamped
      <3>1. CASE m = n
        BY <2>1, <2>3, <3>1
      <3>2. CASE m # n
        BY <2>1, <2>2, <2>3, <3>2 DEF StampedInv
      <3> QED
        BY <3>1, <3>2
    <2> QED
      BY <2>1, <2>2, <2>3 DEF StampedInv, PublishedPagesAreStamped
  <1>7. CASE UnpublishPage
    <2>1. \A m \in PageNames : /\ pages'[m].published => pages[m].published
                              /\ pages'[m].stamped = pages[m].stamped
      BY <1>7 DEF UnpublishPage, PagesTypeOK, Page
    <2> QED
      BY <1>7, <2>1, StampsStay DEF UnpublishPage
  <1>8. ASSUME NEW r \in Requests, IncrementVisit(r) PROVE StampedInv'
    <2>1. \A q \in Requests : editing'[q].at = "save" => editing'[q] = editing[q]
      BY <1>8, <1>a, <1>b DEF IncrementVisit
    <2>2. \A m \in PageNames : /\ pages'[m].published = pages[m].published
                              /\ pages'[m].stamped = pages[m].stamped
      BY <1>8 DEF IncrementVisit, PagesTypeOK, Page
    <2> QED
      BY <1>8, <2>1, <2>2, StampsStay DEF IncrementVisit
  <1>9. CASE UNCHANGED pagesVars
    BY <1>9, StampsStay DEF pagesVars
  <1> QED
    BY <1>1, <1>2, <1>3, <1>4, <1>5, <1>6, <1>7, <1>8, <1>9 DEF PagesNext, PagesWork

LEMMA PagesInvariant == PagesSpec => []PagesInv
  BY PagesStart, PagesTypesStep, VisitsStep, EditStep, StampedStep, PTL DEF PagesSpec, PagesInv

\* Every reachable state of pages and their handlers is well typed.
THEOREM PagesTypesHold == PagesSpec => []PagesTypeOK
  <1>1. PagesInv => PagesTypeOK
    BY DEF PagesInv
  <1> QED
    BY <1>1, PagesInvariant, PTL

\* Every visit is counted once, however many readers there are.
THEOREM VisitsAlwaysAreCounted == PagesSpec => []VisitsAreCounted
  <1>1. PagesInv => VisitsAreCounted
    BY DEF PagesInv
  <1> QED
    BY <1>1, PagesInvariant, PTL

\* A page is its last edit, except where PUTs overlapped on it or one stopped
\* between its two statements.
THEOREM PagesAreTheirLastEdits == PagesSpec => []PageIsTheLastEdit
  <1>1. PagesInv => PageIsTheLastEdit
    BY DEF PagesInv, EditInv, PageIsTheLastEdit, Edited
  <1> QED
    BY <1>1, PagesInvariant, PTL

\* A published page has the time of its publication, except where it was imported
\* without one or a PUT took it away again.
THEOREM PublishedPagesAlwaysAreStamped == PagesSpec => []PublishedPagesAreStamped
  <1>1. PagesInv => PublishedPagesAreStamped
    BY DEF PagesInv, StampedInv
  <1> QED
    BY <1>1, PagesInvariant, PTL

-----------------------------------------------------------------------------
(* PostLists. Posts change while a list is read; what was selected for a
   reader stays so unless its post has changed since (WasSelected). *)

\* A page as a reader's handler has it, where the posts in `changed' were written
\* after the list had been selected: what is read and what is going to be was
\* selected for the reader, or is among those.
WasSelected(l, changed, stored) ==
    /\ l = NotReading
       \/ \E at, page, user, todo, got :
            /\ l = Reading(at, page, user, todo, got)
            /\ at \in {"read", "shown"}
            /\ at = "read" => page \in PagesOfLists
    /\ l.at = "read" =>
         /\ \A s \in l.shown : s[1] \in changed \/ Selected(s[2], l.user)
         /\ \A n \in l.todo :
              n \in changed \/ (stored[n] # None => Selected(stored[n], l.user))
    /\ l.at = "shown" =>
         \A s \in l.shown :
             /\ s[1] \in changed \/ Selected(s[2], l.user)
             /\ l.page \in {"home", "post"} => MayRead(s[2], l.user)

ListsInv ==
    /\ reading = [r \in Requests |-> reading[r]]
    /\ moved = [r \in Requests |-> moved[r]]
    /\ \A r \in Requests : WasSelected(reading[r], moved[r], posts)

LEMMA PageFields ==
    \A at, page, user, todo, got :
        LET l == Reading(at, page, user, todo, got) IN
        /\ l.at = at /\ l.page = page /\ l.user = user /\ l.todo = todo /\ l.shown = got
  BY DEF Reading

LEMMA NobodyReads == \A changed, stored : WasSelected(NotReading, changed, stored)
  BY DEF NotReading, WasSelected

LEMMA ListsStart == ListsInit => ListsInv
  BY NobodyReads DEF ListsInit, ListsInv

\* The step of one handler that leaves the posts alone.
LEMMA OneReaderMoves ==
    ASSUME ListsInv, NEW r \in Requests, NEW l, NEW m,
           reading' = [reading EXCEPT ![r] = l], moved' = [moved EXCEPT ![r] = m],
           posts' = posts, WasSelected(l, m, posts)
    PROVE  ListsInv'
  BY DEF ListsInv

LEMMA ListsStep == ListsInv /\ [ListsNext]_listsVars => ListsInv'
  <1> SUFFICES ASSUME ListsInv, [ListsNext]_listsVars PROVE ListsInv'
    OBVIOUS
  <1>0. \A r \in Requests : WasSelected(reading[r], moved[r], posts)
    BY DEF ListsInv
  <1>1. ASSUME NEW r \in Requests, SelectNames(r) PROVE ListsInv'
    <2>1. PICK page \in PagesOfLists, user \in Users \cup {None} :
            /\ reading' = [reading EXCEPT ![r] =
                 Reading("read", page, user,
                         {n \in Names : P!Exists(n) /\ Selected(posts[n], user)}, {})]
            /\ UNCHANGED <<posts, moved>>
      BY <1>1 DEF SelectNames
    <2> DEFINE todo == {n \in Names : P!Exists(n) /\ Selected(posts[n], user)}
               l == Reading("read", page, user, todo, {})
    <2>4. \A n \in todo : Selected(posts[n], user)
      OBVIOUS
    <2> HIDE DEF todo
    <2>5. l.at = "read" /\ l.page = page /\ l.user = user /\ l.todo = todo /\ l.shown = {}
      BY PageFields
    <2>2. WasSelected(l, moved[r], posts)
      BY <2>4, <2>5 DEF WasSelected
    <2>3. moved' = [moved EXCEPT ![r] = moved[r]]
      BY <2>1 DEF ListsInv
    <2> QED
      BY <2>1, <2>2, <2>3, OneReaderMoves DEF todo
  <1>2. ASSUME NEW r \in Requests, ReadPost(r) PROVE ListsInv'
    <2>1. PICK n \in Names :
            LET l == reading[r] IN
            /\ l.at = "read" /\ n \in l.todo
            /\ reading' = [reading EXCEPT ![r] =
                 IF P!Exists(n)
                 THEN [l EXCEPT !.todo = @ \ {n}, !.shown = @ \cup {<<n, posts[n]>>}]
                 ELSE NotReading]
            /\ moved' = IF P!Exists(n) THEN moved ELSE [moved EXCEPT ![r] = {}]
            /\ posts' = posts
      BY <1>2 DEF ReadPost
    <2>2. CASE ~P!Exists(n)
      <3>1. reading' = [reading EXCEPT ![r] = NotReading] /\ moved' = [moved EXCEPT ![r] = {}]
        BY <2>1, <2>2
      <3> QED
        BY <2>1, <3>1, NobodyReads, OneReaderMoves
    <2>3. CASE P!Exists(n)
      <3>1. PICK page, user, todo, got :
              page \in PagesOfLists /\ reading[r] = Reading("read", page, user, todo, got)
        BY <1>0, <2>1, PageFields, NobodyReads DEF WasSelected, NotReading
      <3>2. reading[r].at = "read" /\ reading[r].user = user /\ reading[r].page = page
            /\ reading[r].todo = todo /\ reading[r].shown = got
        BY <3>1, PageFields
      <3> DEFINE l == Reading("read", page, user, todo \ {n}, got \cup {<<n, posts[n]>>})
      <3>3. reading' = [reading EXCEPT ![r] = l]
        <4>1. l = [reading[r] EXCEPT !.todo = @ \ {n}, !.shown = @ \cup {<<n, posts[n]>>}]
          <5>1. [reading[r] EXCEPT !.todo = todo \ {n}]
                  = Reading("read", page, user, todo \ {n}, got)
            BY <3>1 DEF Reading
          <5>2. [Reading("read", page, user, todo \ {n}, got) EXCEPT
                   !.shown = got \cup {<<n, posts[n]>>}] = l
            BY DEF Reading
          <5> QED
            BY <3>2, <5>1, <5>2
        <4> QED
          BY <2>1, <2>3, <4>1
      <3>4. /\ \A s \in got : s[1] \in moved[r] \/ Selected(s[2], user)
            /\ \A m \in todo : m \in moved[r] \/ (posts[m] # None => Selected(posts[m], user))
        BY <1>0, <3>2 DEF WasSelected
      <3>5. n \in moved[r] \/ Selected(posts[n], user)
        BY <2>1, <2>3, <3>2, <3>4 DEF P!Exists
      <3>6. \A s \in got \cup {<<n, posts[n]>>} : s[1] \in moved[r] \/ Selected(s[2], user)
        BY <3>4, <3>5
      <3>7. WasSelected(l, moved[r], posts)
        BY <3>1, <3>4, <3>6, PageFields DEF WasSelected
      <3>8. moved' = [moved EXCEPT ![r] = moved[r]]
        BY <2>1, <2>3 DEF ListsInv
      <3> QED
        BY <2>1, <3>3, <3>7, <3>8, OneReaderMoves
    <2> QED
      BY <2>2, <2>3
  <1>3. ASSUME NEW r \in Requests, ShowList(r) PROVE ListsInv'
    <2>1. PICK page, user, todo, got :
            page \in PagesOfLists /\ reading[r] = Reading("read", page, user, todo, got)
      BY <1>0, <1>3, PageFields, NobodyReads DEF WasSelected, NotReading, ShowList
    <2>2. reading[r].at = "read" /\ reading[r].user = user /\ reading[r].page = page
          /\ reading[r].todo = todo /\ reading[r].shown = got
      BY <2>1, PageFields
    <2> DEFINE l == Reading("shown", page, user, todo, Answered(page, user, got))
    <2>3. reading' = [reading EXCEPT ![r] = l]
      <3>1. reading' = [reading EXCEPT ![r] =
                          [reading[r] EXCEPT !.at = "shown", !.shown = Answered(page, user, got)]]
        BY <1>3, <2>2 DEF ShowList, ListsInv
      <3>2. l = [reading[r] EXCEPT !.at = "shown", !.shown = Answered(page, user, got)]
        <4>1. [reading[r] EXCEPT !.at = "shown"] = Reading("shown", page, user, todo, got)
          BY <2>1 DEF Reading
        <4>2. [Reading("shown", page, user, todo, got) EXCEPT
                 !.shown = Answered(page, user, got)] = l
          BY DEF Reading
        <4> QED
          BY <4>1, <4>2
      <3> QED
        BY <3>1, <3>2
    <2>4. \A s \in got : s[1] \in moved[r] \/ Selected(s[2], user)
      BY <1>0, <2>2 DEF WasSelected
    <2>5. /\ \A s \in Answered(page, user, got) : s[1] \in moved[r] \/ Selected(s[2], user)
          /\ page = "home" => \A s \in Answered(page, user, got) : MayRead(s[2], user)
          /\ page # "post"
      BY <2>1, <2>4 DEF Answered, PagesOfLists
    <2>6. WasSelected(l, moved[r], posts)
      BY <2>5, PageFields DEF WasSelected
    <2>7. moved' = [moved EXCEPT ![r] = moved[r]] /\ posts' = posts
      BY <1>3 DEF ShowList, ListsInv
    <2> QED
      BY <2>3, <2>6, <2>7, OneReaderMoves
  <1>4. ASSUME NEW r \in Requests, ShowPost(r) PROVE ListsInv'
    <2>1. PICK n \in Names, user \in Users \cup {None} :
            /\ Selected(posts[n], user) /\ MayRead(posts[n], user)
            /\ reading' = [reading EXCEPT ![r] =
                             Reading("shown", "post", user, {}, {<<n, posts[n]>>})]
            /\ UNCHANGED <<posts, moved>>
      BY <1>4 DEF ShowPost
    <2>2. WasSelected(Reading("shown", "post", user, {}, {<<n, posts[n]>>}), moved[r], posts)
      BY <2>1, PageFields DEF WasSelected
    <2>3. moved' = [moved EXCEPT ![r] = moved[r]]
      BY <2>1 DEF ListsInv
    <2> QED
      BY <2>1, <2>2, <2>3, OneReaderMoves
  <1>5. ASSUME NEW r \in Requests, LeavePage(r) PROVE ListsInv'
    BY <1>5, NobodyReads, OneReaderMoves DEF LeavePage
  <1>6. CASE PostsChange
    <2>1. /\ reading' = reading
          /\ moved' = [r \in Requests |->
                         IF reading[r].at = "read"
                         THEN moved[r] \cup {n \in reading[r].todo : posts'[n] # posts[n]}
                         ELSE moved[r]]
      BY <1>6 DEF PostsChange
    <2>2. ASSUME NEW r \in Requests PROVE WasSelected(reading[r], moved'[r], posts')
      <3>1. \A n \in reading[r].todo :
              reading[r].at = "read" /\ n \notin moved'[r] => posts'[n] = posts[n]
        BY <2>1
      <3>2. moved[r] \subseteq moved'[r]
        BY <2>1
      <3> QED
        BY <1>0, <3>1, <3>2 DEF WasSelected
    <2> QED
      BY <2>1, <2>2 DEF ListsInv
  <1>7. CASE ListsRestart
    BY <1>7, NobodyReads DEF ListsRestart, ListsInv
  <1>8. CASE UNCHANGED listsVars
    BY <1>8 DEF listsVars, ListsInv
  <1> QED
    BY <1>1, <1>2, <1>3, <1>4, <1>5, <1>6, <1>7, <1>8 DEF ListsNext, ListsWork

LEMMA ListsInvariant == ListsSpec => []ListsInv
  BY ListsStart, ListsStep, PTL DEF ListsSpec

\* Every list shows its reader only posts that were selected for it, unless they
\* changed after that, and a page that asks again only what the reader may read.
THEOREM AlwaysShownToItsReaders == ListsSpec => []ShownToItsReaders
  <1>1. ListsInv => ShownToItsReaders
    BY DEF ListsInv, WasSelected, Selected, ShownToItsReaders
  <1> QED
    BY <1>1, ListsInvariant, PTL

-----------------------------------------------------------------------------
(* Settings. Handlers that overlap on a row are on record
   (OverlapsAreCrossed); one by itself has made of the rows it has written so
   far what it set out to (AsWritten); and a map that no handler is in the
   midst of writing is up to date (UpToDate). Keys are written from the least
   one on: Min takes it, and the well-foundedness of the naturals makes it an
   element. *)

LEMMA MinIsOne ==
    ASSUME NEW S, S \subseteq Nat, S # {}
    PROVE  Min(S) \in S
  <1>1. PICK x \in S : \A y \in S : ~ (<<y, x>> \in OpToRel(<, Nat))
    BY WFMin, NatLessThanWellFounded, Zenon
  <1>2. \A y \in S : ~(y < x)
    BY <1>1, Zenon DEF OpToRel
  <1>3. \A y \in S : x <= y
    BY <1>2
  <1> QED
    BY <1>3 DEF Min

LEMMA SettingsConstants ==
    /\ Keys \subseteq Nat
    /\ None \notin Values
    /\ System \notin Maps /\ Form \notin Maps /\ System # Form
    /\ \A m \in Everything : KeysOf[m] \subseteq Keys
    /\ \A m \in Maps : KeysOf[m] \cap KeysOf[System] = {}
    /\ \A m \in Maps \cup {System} : KeysOf[m] \cap KeysOf[Form] = {}
    /\ KeysOf[System] # {}
    /\ \A p \in Payloads : /\ p[1] \in Maps \cup {System} /\ p[2] \in Data
                           /\ p[1] # System => KeysIn(p[2]) \subseteq KeysOf[p[1]]
  BY SettingsAssumption DEF Everything

\* What a handler is at in each of its stages.
Shape(o) ==
    /\ o \in Op
    /\ o.left \subseteq KeysIn(o.data)
    /\ o.at = "clear" => o.map \in Maps /\ ~o.get /\ o.left = KeysIn(o.data)
    /\ o.at = "write" => o.map \in Maps \cup {System} /\ ~o.get /\ o.left # {}
    /\ o.at = "index" => /\ o.map \in Maps \cup {System} /\ o.left = {}
                         /\ o.get => o.map = System
    /\ o.at = "form" => o.map = Form /\ ~o.get
    /\ o.at # "idle" /\ (o.map # System \/ o.get) => KeysIn(o.data) \subseteq KeysOf[o.map]

\* What a handler that nobody overlaps has made of its rows.
AsWritten(o, stored) ==
    /\ o.at \in {"write", "index"} /\ o.map \in Maps =>
         \A k \in KeysOf[o.map] : stored[k] = IF k \in o.left THEN None ELSE o.data[k]
    /\ HasWritten(o) /\ o.map = System =>
         \A k \in KeysIn(o.data) \ o.left : stored[k] = o.data[k]
    /\ o.at = "index" /\ o.get =>
         \A k \in Keys : o.data[k] = IF k \in KeysOf[System] THEN stored[k] ELSE None

OverlapsAreCrossed ==
    \A r, q \in Requests : r # q /\ Reach(op[r]) \cap Reach(op[q]) # {} => r \in crossed

\* What the map was last given, or the site is shown of it, is what is stored.
UpToDate(m) == Stored(m) = IF m = System THEN shown ELSE lastPut[m]

Unwritten(m) == \A r \in Requests : HasWritten(op[r]) => m \notin Touched(op[r])

SettingsInv ==
    /\ SettingsTypeOK
    /\ \A r \in Requests : Shape(op[r])
    /\ OverlapsAreCrossed
    /\ \A r \in Requests \ crossed : AsWritten(op[r], rows)
    /\ \A m \in (Maps \cup {System}) \ suspect : Unwritten(m) => UpToDate(m)

LEMMA AtRest == /\ Shape(Rest) /\ Reach(Rest) = {} /\ Touched(Rest) = {} /\ ~HasWritten(Rest)
                /\ Rest.at = "idle" /\ Rest \in Op /\ \A stored : AsWritten(Rest, stored)
  <1>1. /\ Rest.at = "idle" /\ Rest.left = {} /\ Rest.map = None /\ Rest.data = Empty
        /\ Rest.get = FALSE
    BY DEF Rest
  <1>2. Rest \in Op
    BY DEF Rest, Op, Stages, Data, Empty
  <1> QED
    BY <1>1, <1>2 DEF Shape, Reach, Touched, HasWritten, AsWritten

LEMMA SettingsStart == SettingsInit => SettingsInv
  <1> SUFFICES ASSUME SettingsInit PROVE SettingsInv
    OBVIOUS
  <1>1. /\ rows = Empty /\ shown = Empty /\ crossed = {} /\ suspect = {}
        /\ lastPut = [m \in Maps |-> Empty]
        /\ op = [r \in Requests |-> Rest]
    BY DEF SettingsInit
  <1>2. Empty \in Data
    BY DEF Empty, Data
  <1>3. SettingsTypeOK
    BY <1>1, <1>2, AtRest DEF SettingsTypeOK
  <1>4. \A m \in Maps \cup {System} : UpToDate(m)
    BY <1>1, SettingsConstants DEF UpToDate, Stored, Empty
  <1> QED
    BY <1>1, <1>3, <1>4, AtRest DEF SettingsInv, OverlapsAreCrossed

\* What a handler has made of its rows depends on the rows it reaches.
LEMMA OnlyItsRows ==
    ASSUME NEW o, Shape(o), NEW t, NEW u, AsWritten(o, t),
           \A k \in Reach(o) : u[k] = t[k]
    PROVE  AsWritten(o, u)
  <1>1. o.at # "idle" => KeysOf[o.map] \subseteq Reach(o) /\ KeysIn(o.data) \subseteq Reach(o)
    BY DEF Reach
  <1>2. o.at = "index" /\ o.get => o.map = System
    BY DEF Shape
  <1> QED
    BY <1>1, <1>2 DEF AsWritten, HasWritten

LEMMA ReachIsRows ==
    ASSUME NEW o, Shape(o)
    PROVE  /\ Reach(o) \subseteq Keys
           /\ o.at # "idle" => /\ o.map \in Everything
                               /\ KeysOf[o.map] \subseteq Reach(o)
                               /\ KeysIn(o.data) \subseteq Reach(o)
  <1>1. o.at # "idle" => o.map \in Everything
    BY DEF Shape, Op, Stages, Everything
  <1> QED
    BY <1>1, SettingsConstants DEF Reach, KeysIn

\* A step of one handler that writes among the rows it reaches, if any, and goes on
\* with the same rows or ends.
LEMMA HandlerGoesOn ==
    ASSUME SettingsInv, NEW r \in Requests, NEW o,
           op' = [op EXCEPT ![r] = o], Shape(o),
           Reach(o) \subseteq Reach(op[r]),
           \A k \in Keys \ Reach(op[r]) : rows'[k] = rows[k],
           crossed' = IF o.at = "idle" THEN crossed \ {r} ELSE crossed,
           r \notin crossed => AsWritten(o, rows')
    PROVE  /\ op' \in [Requests -> Op] /\ crossed' \subseteq Requests
           /\ \A q \in Requests : op'[q] = IF q = r THEN o ELSE op[q]
           /\ \A q \in Requests : Shape(op'[q])
           /\ OverlapsAreCrossed'
           /\ \A q \in Requests \ crossed' : AsWritten(op'[q], rows')
  <1>1. /\ \A q \in Requests : op'[q] = IF q = r THEN o ELSE op[q]
        /\ op' \in [Requests -> Op] /\ crossed' \subseteq Requests
    BY DEF SettingsInv, SettingsTypeOK, Shape
  <1>2. \A q \in Requests : Shape(op'[q])
    BY <1>1 DEF SettingsInv
  <1>3. o.at = "idle" => Reach(o) = {}
    BY DEF Reach
  <1>4. OverlapsAreCrossed'
    BY <1>1, <1>3 DEF SettingsInv, OverlapsAreCrossed
  <1>5. ASSUME NEW q \in Requests \ crossed' PROVE AsWritten(op'[q], rows')
    <2>1. CASE q = r /\ r \notin crossed
      BY <1>1, <2>1
    <2>2. CASE q = r /\ r \in crossed
      <3>1. o.at = "idle"
        BY <1>5, <2>2
      <3> QED
        BY <1>1, <2>2, <3>1 DEF AsWritten, HasWritten
    <2>3. CASE q # r
      <3>1. q \notin crossed /\ op'[q] = op[q]
        BY <1>1, <1>5, <2>3
      <3>2. Reach(op[q]) \cap Reach(op[r]) = {}
        BY <2>3, <3>1 DEF SettingsInv, OverlapsAreCrossed
      <3>3. Reach(op[q]) \subseteq Keys
        BY ReachIsRows DEF SettingsInv
      <3>4. \A k \in Reach(op[q]) : rows'[k] = rows[k]
        BY <3>2, <3>3
      <3> QED
        BY <3>1, <3>4, OnlyItsRows DEF SettingsInv
    <2> QED
      BY <2>1, <2>2, <2>3
  <1> QED
    BY <1>1, <1>2, <1>4, <1>5
\* A handler begins.
LEMMA HandlerBegins ==
    ASSUME SettingsInv, NEW r \in Requests, NEW o, Begin(r, o), Shape(o), o.at # "idle",
           AsWritten(o, rows), UNCHANGED <<rows, shown, suspect, lastPut>>
    PROVE  SettingsInv'
  <1>1. /\ op' = [op EXCEPT ![r] = o] /\ op[r].at = "idle"
        /\ crossed \subseteq crossed' /\ crossed' \subseteq Requests
        /\ \A q \in Requests \ {r} :
              Reach(op[q]) \cap Reach(o) # {} => q \in crossed' /\ r \in crossed'
    <2>1. crossed \subseteq Requests
      BY DEF SettingsInv, SettingsTypeOK
    <2> QED
      BY <2>1 DEF Begin, Rivals
  <1>2. \A q \in Requests : op'[q] = IF q = r THEN o ELSE op[q]
    BY <1>1 DEF SettingsInv, SettingsTypeOK
  <1>3. op' \in [Requests -> Op] /\ \A q \in Requests : Shape(op'[q])
    BY ZenonT(30), <1>1, <1>2 DEF SettingsInv, SettingsTypeOK, Shape
  <1>4. OverlapsAreCrossed'
    BY <1>1, <1>2 DEF SettingsInv, OverlapsAreCrossed
  <1>5. \A q \in Requests \ crossed' : AsWritten(op'[q], rows')
    BY <1>1, <1>2 DEF SettingsInv
  <1>6. SettingsTypeOK'
    BY <1>1, <1>3 DEF SettingsInv, SettingsTypeOK, Shape
  <1>7. ASSUME NEW m \in (Maps \cup {System}) \ suspect', Unwritten(m)' PROVE UpToDate(m)'
    <2>1. ~HasWritten(op[r])
      BY <1>1 DEF HasWritten
    <2>2. Unwritten(m)
      BY <1>2, <1>7, <2>1 DEF Unwritten
    <2> QED
      BY <1>7, <2>2 DEF SettingsInv, UpToDate, Stored
  <1> QED
    BY <1>3, <1>4, <1>5, <1>6, <1>7 DEF SettingsInv

\* Of a map that a handler does not touch the rows stay.
LEMMA UntouchedStays ==
    ASSUME NEW m \in Maps \cup {System}, NEW o, m \notin Touched(o),
           \A k \in Keys \ Reach(o) : rows'[k] = rows[k]
    PROVE  Stored(m)' = Stored(m)
  BY SettingsConstants DEF Touched, Stored

\* A handler goes on, or ends before it has written anything.
LEMMA SettingsGoOn ==
    ASSUME SettingsInv, NEW r \in Requests, NEW o,
           op' = [op EXCEPT ![r] = o], Shape(o),
           Reach(o) \subseteq Reach(op[r]),
           rows' \in Data, \A k \in Keys \ Reach(op[r]) : rows'[k] = rows[k],
           crossed' = IF o.at = "idle" THEN crossed \ {r} ELSE crossed,
           r \notin crossed => AsWritten(o, rows'),
           UNCHANGED <<shown, suspect, lastPut>>,
           \/ HasWritten(o) /\ Touched(op[r]) \subseteq Touched(o)
           \/ rows' = rows /\ ~HasWritten(op[r])
           \/ Touched(op[r]) = {}
    PROVE  SettingsInv'
  <1>1. /\ op' \in [Requests -> Op] /\ crossed' \subseteq Requests
        /\ \A q \in Requests : op'[q] = IF q = r THEN o ELSE op[q]
        /\ \A q \in Requests : Shape(op'[q])
        /\ OverlapsAreCrossed'
        /\ \A q \in Requests \ crossed' : AsWritten(op'[q], rows')
    BY HandlerGoesOn
  <1>2. SettingsTypeOK'
    BY <1>1 DEF SettingsInv, SettingsTypeOK, Shape
  <1>3. ASSUME NEW m \in (Maps \cup {System}) \ suspect', Unwritten(m)' PROVE UpToDate(m)'
    <2>1. HasWritten(o) => m \notin Touched(o)
      BY <1>1, <1>3 DEF Unwritten
    <2>2. Unwritten(m)
      BY <1>1, <1>3, <2>1 DEF Unwritten
    <2>3. UpToDate(m)
      BY <1>3, <2>2 DEF SettingsInv
    <2>4. Stored(m)' = Stored(m)
      <3>1. CASE m \notin Touched(op[r])
        BY <3>1, UntouchedStays
      <3>2. CASE rows' = rows
        BY <3>2 DEF Stored
      <3> QED
        BY <2>1, <3>1, <3>2
    <2> QED
      BY <2>3, <2>4 DEF UpToDate
  <1> QED
    BY <1>1, <1>2, <1>3 DEF SettingsInv
LEMMA OpFields ==
    ASSUME NEW at \in Stages, NEW map \in Everything, NEW data \in Data,
           NEW left \in SUBSET Keys, NEW get \in BOOLEAN
    PROVE  LET o == [at |-> at, map |-> map, data |-> data, left |-> left, get |-> get] IN
           /\ o \in Op /\ o.at = at /\ o.map = map /\ o.data = data
           /\ o.left = left /\ o.get = get
  BY DEF Op

LEMMA PutMapStep == ASSUME SettingsInv, NEW r \in Requests, PutMap(r) PROVE SettingsInv'
  <1>1. PICK p \in Payloads :
          /\ Begin(r, [at |-> IF p[1] # System THEN "clear"
                             ELSE IF KeysIn(p[2]) = {} THEN "index" ELSE "write",
                      map |-> p[1], data |-> p[2], left |-> KeysIn(p[2]), get |-> FALSE])
          /\ UNCHANGED <<rows, shown, suspect, lastPut>>
    BY DEF PutMap
  <1> DEFINE at == IF p[1] # System THEN "clear"
                   ELSE IF KeysIn(p[2]) = {} THEN "index" ELSE "write"
             o == [at |-> at, map |-> p[1], data |-> p[2], left |-> KeysIn(p[2]), get |-> FALSE]
  <1>2. /\ p[1] \in Maps \cup {System} /\ p[1] \in Everything /\ p[2] \in Data
        /\ p[1] # System => KeysIn(p[2]) \subseteq KeysOf[p[1]]
    BY SettingsConstants DEF Everything
  <1>3. at \in Stages /\ KeysIn(p[2]) \subseteq Keys
    BY DEF Stages, KeysIn
  <1>4. Begin(r, o)
    BY <1>1
  <1>5. /\ at = "clear" => p[1] # System
        /\ at = "index" => p[1] = System /\ KeysIn(p[2]) = {}
        /\ at = "write" => p[1] = System /\ KeysIn(p[2]) # {}
        /\ at \in {"clear", "index", "write"}
    OBVIOUS
  <1> HIDE DEF at
  <1>6. /\ o \in Op /\ o.at = at /\ o.map = p[1] /\ o.data = p[2]
        /\ o.left = KeysIn(p[2]) /\ o.get = FALSE
    BY <1>2, <1>3 DEF Op
  <1> HIDE DEF o
  <1>7. Shape(o) /\ o.at # "idle"
    BY <1>2, <1>6, <1>5 DEF Shape
  <1>8. AsWritten(o, rows)
    BY <1>6, <1>5, SettingsConstants DEF AsWritten, HasWritten
  <1> QED
    BY <1>1, <1>4, <1>7, <1>8, HandlerBegins

LEMMA StoredIsData == SettingsInv => \A m \in Everything : Stored(m) \in Data
  BY DEF SettingsInv, SettingsTypeOK, Stored, Data

LEMMA GetSystemStep == ASSUME SettingsInv, NEW r \in Requests, GetSystem(r) PROVE SettingsInv'
  <1> DEFINE o == [at |-> "index", map |-> System, data |-> Stored(System),
                   left |-> {}, get |-> TRUE]
  <1>1. Begin(r, o) /\ UNCHANGED <<rows, shown, suspect, lastPut>>
    BY DEF GetSystem
  <1>2. System \in Everything /\ Stored(System) \in Data
    BY StoredIsData DEF Everything
  <1>3. /\ o \in Op /\ o.at = "index" /\ o.map = System /\ o.data = Stored(System)
        /\ o.left = {} /\ o.get = TRUE
    BY <1>2, OpFields DEF Stages
  <1> HIDE DEF o
  <1>4. \A k \in Keys : o.data[k] = IF k \in KeysOf[System] THEN rows[k] ELSE None
    BY <1>3 DEF Stored
  <1>5. Shape(o) /\ o.at # "idle"
    BY <1>3, <1>4 DEF Shape, KeysIn
  <1>6. AsWritten(o, rows)
    BY <1>3, <1>4, SettingsConstants DEF AsWritten, HasWritten
  <1> QED
    BY <1>1, <1>5, <1>6, HandlerBegins

LEMMA ReadFormStep == ASSUME SettingsInv, NEW r \in Requests, ReadForm(r) PROVE SettingsInv'
  <1>1. PICK k \in KeysOf[Form], v \in Values \ Junk :
          /\ Begin(r, [at |-> "form", map |-> Form, data |-> [Empty EXCEPT ![k] = v],
                      left |-> {k}, get |-> FALSE])
          /\ UNCHANGED <<rows, shown, suspect, lastPut>>
    BY DEF ReadForm
  <1> DEFINE data == [Empty EXCEPT ![k] = v]
             o == [at |-> "form", map |-> Form, data |-> data, left |-> {k}, get |-> FALSE]
  <1>2. Form \in Everything /\ k \in Keys
    BY SettingsConstants DEF Everything
  <1>3. data \in Data /\ KeysIn(data) = {k}
    BY <1>2, SettingsConstants DEF Empty, Data, KeysIn
  <1>4. Begin(r, o)
    BY <1>1
  <1>8. {k} \in SUBSET Keys /\ "form" \in Stages /\ FALSE \in BOOLEAN
    BY <1>2 DEF Stages
  <1> HIDE DEF data
  <1>5. /\ o \in Op /\ o.at = "form" /\ o.map = Form /\ o.data = data
        /\ o.left = {k} /\ o.get = FALSE
    BY <1>2, <1>3, <1>8, OpFields
  <1> HIDE DEF o
  <1>6. Shape(o) /\ o.at # "idle"
    BY <1>3, <1>5 DEF Shape
  <1>7. AsWritten(o, rows)
    BY <1>5 DEF AsWritten, HasWritten
  <1> QED
    BY <1>1, <1>4, <1>6, <1>7, HandlerBegins

LEMMA ClearStep == ASSUME SettingsInv, NEW r \in Requests, Clear(r) PROVE SettingsInv'
  <1> DEFINE c == op[r]
             at == IF c.left = {} THEN "index" ELSE "write"
             o == [c EXCEPT !.at = at]
  <1>1. /\ c.at = "clear" /\ c \in Op /\ Shape(c)
        /\ op' = [op EXCEPT ![r] = o]
        /\ rows' = [k \in Keys |-> IF k \in KeysOf[c.map] THEN None ELSE rows[k]]
        /\ UNCHANGED <<shown, crossed, suspect, lastPut>>
    BY DEF Clear, SettingsInv, SettingsTypeOK
  <1>2. /\ o \in Op /\ o.at = at /\ o.map = c.map /\ o.data = c.data
        /\ o.left = c.left /\ o.get = c.get
    BY <1>1 DEF Op, Stages
  <1>3. c.map \in Maps /\ ~c.get /\ c.left = KeysIn(c.data) /\ KeysIn(c.data) \subseteq KeysOf[c.map]
    BY <1>1, SettingsConstants DEF Shape
  <1>4. at \in {"index", "write"} /\ (at = "index" => c.left = {}) /\ (at = "write" => c.left # {})
    OBVIOUS
  <1> HIDE DEF o, at, c
  <1>5. Shape(o)
    BY <1>2, <1>3, <1>4 DEF Shape
  <1>6. Reach(o) = Reach(c)
    BY <1>1, <1>2, <1>4 DEF Reach
  <1>7. rows' \in Data /\ \A k \in Keys \ Reach(c) : rows'[k] = rows[k]
    BY <1>1, <1>3, ReachIsRows DEF Data, SettingsInv, SettingsTypeOK
  <1>8. AsWritten(o, rows')
    <2>1. \A k \in KeysOf[c.map] : k \in Keys /\ rows'[k] = None /\ (k \notin c.left => c.data[k] = None)
      BY <1>1, <1>3, SettingsConstants DEF KeysIn, Everything
    <2> QED
      BY <1>2, <1>3, <2>1, SettingsConstants DEF AsWritten, HasWritten
  <1>9. HasWritten(o) /\ Touched(o) = Touched(c)
    BY <1>2, <1>3, <1>4, <1>6 DEF HasWritten, Touched
  <1> QED
    BY <1>1, <1>2, <1>4, <1>5, <1>6, <1>7, <1>8, <1>9, SettingsGoOn DEF c

LEMMA WriteKeyStep == ASSUME SettingsInv, NEW r \in Requests, WriteKey(r) PROVE SettingsInv'
  <1> DEFINE c == op[r]
             k == Min(c.left)
             left == c.left \ {k}
             at == IF left = {} THEN "index" ELSE "write"
             o == [c EXCEPT !.left = left, !.at = at]
  <1>1. /\ c.at = "write" /\ c \in Op /\ Shape(c)
        /\ rows' = [rows EXCEPT ![k] = c.data[k]]
        /\ UNCHANGED <<shown, crossed, suspect, lastPut>>
    BY DEF WriteKey, SettingsInv, SettingsTypeOK
  <1>2. op' = [op EXCEPT ![r] = o]
    BY <1>1 DEF WriteKey
  <1>3. k \in c.left /\ c.left \subseteq KeysIn(c.data) /\ KeysIn(c.data) \subseteq Keys
    <2>1. c.left \subseteq KeysIn(c.data) /\ c.left # {} /\ KeysIn(c.data) \subseteq Keys
      BY <1>1 DEF Shape, KeysIn
    <2>2. c.left \subseteq Nat
      BY <2>1, SettingsConstants
    <2> QED
      BY <2>1, <2>2, MinIsOne
  <1> HIDE DEF k
  <1>4. left \in SUBSET Keys /\ at \in Stages
    BY <1>3 DEF Stages
  <1>5. /\ o \in Op /\ o.at = at /\ o.map = c.map /\ o.data = c.data
        /\ o.left = left /\ o.get = c.get
    BY <1>1, <1>4 DEF Op
  <1>6. /\ at \in {"index", "write"} /\ (at = "index" => left = {}) /\ (at = "write" => left # {})
        /\ left \subseteq c.left
    OBVIOUS
  <1>7. /\ c.map \in Maps \cup {System} /\ ~c.get
        /\ c.map # System => KeysIn(c.data) \subseteq KeysOf[c.map]
    BY <1>1 DEF Shape
  <1> HIDE DEF o, at, c
  <1>8. Shape(o)
    BY <1>3, <1>5, <1>6, <1>7 DEF Shape
  <1>9. Reach(o) = Reach(c)
    BY <1>1, <1>5, <1>6 DEF Reach
  <1>10. rows' \in Data /\ \A j \in Keys : rows'[j] = IF j = k THEN c.data[k] ELSE rows[j]
    <2>1. c.data \in Data /\ rows \in Data
      BY <1>1 DEF Op, SettingsInv, SettingsTypeOK
    <2> QED
      BY <1>1, <1>3, <2>1 DEF Data
  <1>11. \A j \in Keys \ Reach(c) : rows'[j] = rows[j]
    BY <1>1, <1>3, <1>10, ReachIsRows
  <1>12. r \notin crossed => AsWritten(o, rows')
    <2>1. r \notin crossed => AsWritten(c, rows)
      BY DEF SettingsInv, c
    <2>2. \A m \in Maps : KeysOf[m] \subseteq Keys
      BY SettingsConstants DEF Everything
    <2> QED
      BY <1>1, <1>3, <1>5, <1>6, <1>7, <1>10, <2>1, <2>2 DEF AsWritten, HasWritten
  <1>13. HasWritten(o) /\ Touched(o) = Touched(c)
    BY <1>5, <1>6, <1>7, <1>9 DEF HasWritten, Touched
  <1> QED
    BY <1>1, <1>2, <1>5, <1>6, <1>8, <1>9, <1>10, <1>11, <1>12, <1>13, SettingsGoOn DEF c
LEMMA WriteFormStep == ASSUME SettingsInv, NEW r \in Requests, WriteForm(r) PROVE SettingsInv'
  <1> DEFINE c == op[r]
  <1>1. /\ c.at = "form" /\ c \in Op /\ Shape(c)
        /\ rows' = [k \in Keys |-> IF k \in c.left THEN c.data[k] ELSE rows[k]]
        /\ op' = [op EXCEPT ![r] = Rest] /\ crossed' = crossed \ {r}
        /\ UNCHANGED <<shown, suspect, lastPut>>
    BY DEF WriteForm, SettingsInv, SettingsTypeOK
  <1>2. /\ c.map = Form /\ KeysIn(c.data) \subseteq KeysOf[Form]
        /\ c.left \subseteq KeysIn(c.data)
    BY <1>1, SettingsConstants DEF Shape
  <1>3. Reach(c) = KeysOf[Form]
    BY <1>1, <1>2 DEF Reach
  <1>4. Touched(c) = {}
    BY <1>3, SettingsConstants DEF Touched
  <1>5. rows' \in Data
    BY <1>1 DEF Data, Op, SettingsInv, SettingsTypeOK
  <1>6. \A k \in Keys \ Reach(c) : rows'[k] = rows[k]
    BY <1>1, <1>2, <1>3
  <1> QED
    BY <1>1, <1>4, <1>5, <1>6, AtRest, SettingsGoOn

LEMMA AbandonStep == ASSUME SettingsInv, NEW r \in Requests, AbandonPut(r) PROVE SettingsInv'
  <1>1. /\ op' = [op EXCEPT ![r] = Rest] /\ crossed' = crossed \ {r}
        /\ suspect' = IF HasWritten(op[r]) THEN suspect \cup Touched(op[r]) ELSE suspect
        /\ rows' = rows /\ shown' = shown /\ lastPut' = lastPut
    BY DEF AbandonPut
  <1>2. /\ op' \in [Requests -> Op] /\ crossed' \subseteq Requests
        /\ \A q \in Requests : op'[q] = IF q = r THEN Rest ELSE op[q]
        /\ \A q \in Requests : Shape(op'[q])
        /\ OverlapsAreCrossed'
        /\ \A q \in Requests \ crossed' : AsWritten(op'[q], rows')
    BY <1>1, AtRest, HandlerGoesOn
  <1>3. SettingsTypeOK'
    BY <1>1, <1>2 DEF SettingsInv, SettingsTypeOK, Shape, Touched
  <1>4. ASSUME NEW m \in (Maps \cup {System}) \ suspect', Unwritten(m)' PROVE UpToDate(m)'
    <2>1. HasWritten(op[r]) => m \notin Touched(op[r])
      BY <1>1, <1>4
    <2>2. Unwritten(m) /\ m \notin suspect
      BY <1>1, <1>2, <1>4, <2>1 DEF Unwritten
    <2> QED
      BY <1>1, <2>2 DEF SettingsInv, UpToDate, Stored
  <1> QED
    BY <1>2, <1>3, <1>4 DEF SettingsInv

\* A map that an uncrossed handler ends with is touched by no other.
LEMMA AloneOnItsMap ==
    ASSUME SettingsInv, NEW r \in Requests \ crossed, op[r].at # "idle",
           NEW q \in Requests, op[r].map \in Touched(op[q])
    PROVE  q = r
  <1>1. Reach(op[q]) \cap Reach(op[r]) # {}
    BY ReachIsRows DEF Touched, SettingsInv
  <1> QED
    BY <1>1 DEF SettingsInv, OverlapsAreCrossed

LEMMA IndexMapStep == ASSUME SettingsInv, NEW r \in Requests, IndexMap(r) PROVE SettingsInv'
  <1> DEFINE c == op[r]
             m == c.map
  <1>1. /\ c.at = "index" /\ c \in Op /\ Shape(c)
        /\ shown' = IF m = System THEN c.data ELSE shown
        /\ op' = [op EXCEPT ![r] = Rest] /\ crossed' = crossed \ {r}
        /\ lastPut' = IF m \in Maps THEN [lastPut EXCEPT ![m] = c.data] ELSE lastPut
        /\ suspect' = IF c.get /\ r \notin crossed THEN suspect \ {m}
                      ELSE IF r \notin crossed /\ Whole(c) THEN (suspect \cup Touched(c)) \ {m}
                      ELSE suspect \cup Touched(c)
        /\ rows' = rows
    BY DEF IndexMap, SettingsInv, SettingsTypeOK
  <1>2. /\ op' \in [Requests -> Op] /\ crossed' \subseteq Requests
        /\ \A q \in Requests : op'[q] = IF q = r THEN Rest ELSE op[q]
        /\ \A q \in Requests : Shape(op'[q])
        /\ OverlapsAreCrossed'
        /\ \A q \in Requests \ crossed' : AsWritten(op'[q], rows')
    BY <1>1, AtRest, HandlerGoesOn
  <1>3. /\ m \in Maps \cup {System} /\ c.left = {} /\ (c.get => m = System)
        /\ m # System \/ c.get => KeysIn(c.data) \subseteq KeysOf[m]
        /\ c.data \in Data
    BY <1>1 DEF Shape, Op
  <1>4. SettingsTypeOK'
    BY <1>1, <1>2, <1>3 DEF SettingsInv, SettingsTypeOK, Shape, Touched
  <1>5. r \notin crossed /\ (c.get \/ Whole(c)) => Stored(m) = c.data
    <2>1. SUFFICES ASSUME r \notin crossed, c.get \/ Whole(c) PROVE Stored(m) = c.data
      OBVIOUS
    <2>2. AsWritten(c, rows)
      BY <2>1 DEF SettingsInv
    <2>3. \A k \in Keys : Stored(m)[k] = IF k \in KeysOf[m] THEN rows[k] ELSE None
      BY DEF Stored
    <2>4. \A k \in Keys : k \notin KeysIn(c.data) <=> c.data[k] = None
      BY DEF KeysIn
    <2>5. \A k \in Keys : Stored(m)[k] = c.data[k]
      <3>1. CASE c.get
        BY <1>1, <1>3, <2>2, <2>3, <3>1 DEF AsWritten
      <3>2. CASE ~c.get /\ m \in Maps
        BY <1>1, <1>3, <2>2, <2>3, <2>4, <3>2, SettingsConstants DEF AsWritten
      <3>3. CASE ~c.get /\ m = System
        <4>1. /\ KeysIn(Stored(System)) \subseteq KeysIn(c.data)
              /\ KeysIn(c.data) \subseteq KeysOf[System]
          BY <2>1, <3>3 DEF Whole
        <4>2. \A k \in KeysIn(c.data) : rows[k] = c.data[k]
          BY <1>1, <1>3, <2>2, <3>3 DEF AsWritten, HasWritten
        <4>3. \A k \in Keys : k \notin KeysIn(Stored(System)) => Stored(m)[k] = None
          BY <3>3 DEF KeysIn
        <4> QED
          BY <2>3, <2>4, <3>3, <4>1, <4>2, <4>3
      <3> QED
        BY <1>3, <3>1, <3>2, <3>3
    <2> QED
      BY <1>3, <2>5 DEF Stored, Data
  <1>6. m \in Touched(c) \/ (m # System /\ KeysOf[m] = {})
    BY <1>1, <1>3, ReachIsRows, SettingsConstants DEF Touched
  <1>7. ASSUME NEW j \in (Maps \cup {System}) \ suspect', Unwritten(j)' PROVE UpToDate(j)'
    <2>1. Stored(j)' = Stored(j)
      BY <1>1 DEF Stored
    <2>2. CASE j = m
      <3>1. Stored(m) = c.data
        <4>1. CASE r \notin crossed /\ (c.get \/ Whole(c))
          BY <1>5, <4>1
        <4>2. CASE ~(r \notin crossed /\ (c.get \/ Whole(c)))
          <5>1. m # System /\ KeysOf[m] = {}
            BY <1>1, <1>6, <1>7, <2>2, <4>2
          <5>2. \A k \in Keys : Stored(m)[k] = None /\ c.data[k] = None
            BY <1>3, <5>1 DEF Stored, KeysIn
          <5> QED
            BY <1>3, <5>2 DEF Stored, Data
        <4> QED
          BY <4>1, <4>2
      <3>2. m = System => shown' = c.data
        BY <1>1
      <3>3. m # System => lastPut'[m] = c.data
        BY <1>1, <1>3 DEF SettingsInv, SettingsTypeOK
      <3> QED
        BY <2>1, <2>2, <3>1, <3>2, <3>3 DEF UpToDate
    <2>3. CASE j # m
      <3>1. j \notin Touched(c)
        <4>1. CASE c.get /\ r \notin crossed
          BY <1>1, <1>3, <2>3, <4>1, SettingsConstants DEF Touched, Reach
        <4>2. CASE ~(c.get /\ r \notin crossed)
          BY <1>1, <1>7, <2>3, <4>2
        <4> QED
          BY <4>1, <4>2
      <3>2. j \notin suspect
        BY <1>1, <1>7, <2>3
      <3>3. Unwritten(j)
        BY <1>2, <1>7, <3>1 DEF Unwritten
      <3>4. UpToDate(j)
        BY <1>7, <3>2, <3>3 DEF SettingsInv
      <3>5. j = System => shown' = shown
        BY <1>1, <2>3
      <3>6. j # System => lastPut'[j] = lastPut[j]
        BY <1>1, <1>7, <2>3 DEF SettingsInv, SettingsTypeOK
      <3> QED
        BY <2>1, <3>4, <3>5, <3>6 DEF UpToDate
    <2> QED
      BY <2>2, <2>3
  <1> QED
    BY <1>2, <1>4, <1>7 DEF SettingsInv
LEMMA SettingsRestartStep == ASSUME SettingsInv, SettingsRestart PROVE SettingsInv'
  <1>1. /\ shown' = Stored(System) /\ op' = [r \in Requests |-> Rest] /\ crossed' = {}
        /\ suspect' = (suspect \cup UNION {Touched(op[r]) : r \in {q \in Requests :
                                                               HasWritten(op[q])}})
                       \ {System}
        /\ rows' = rows /\ lastPut' = lastPut
    BY DEF SettingsRestart
  <1>2. \A r \in Requests : op'[r] = Rest
    BY <1>1
  <1>3. Stored(System) \in Data
    BY StoredIsData DEF Everything
  <1>4. suspect' \subseteq Maps \cup {System}
    BY <1>1 DEF SettingsInv, SettingsTypeOK, Touched
  <1>5. SettingsTypeOK'
    BY <1>1, <1>2, <1>3, <1>4, AtRest DEF SettingsInv, SettingsTypeOK
  <1>6. ASSUME NEW m \in (Maps \cup {System}) \ suspect' PROVE UpToDate(m)'
    <2>1. Stored(m)' = Stored(m)
      BY <1>1 DEF Stored
    <2>2. CASE m = System
      BY <1>1, <2>1, <2>2 DEF UpToDate
    <2>3. CASE m # System
      <3>1. m \notin suspect /\ Unwritten(m)
        BY <1>1, <1>6, <2>3 DEF Unwritten
      <3> QED
        BY <1>1, <1>6, <2>1, <2>3, <3>1 DEF SettingsInv, UpToDate
    <2> QED
      BY <2>2, <2>3
  <1> QED
    BY <1>2, <1>5, <1>6, AtRest DEF SettingsInv, OverlapsAreCrossed

LEMMA SettingsStep == SettingsInv /\ [SettingsNext]_settingsVars => SettingsInv'
  <1> SUFFICES ASSUME SettingsInv, [SettingsNext]_settingsVars PROVE SettingsInv'
    OBVIOUS
  <1>1. ASSUME UNCHANGED settingsVars PROVE SettingsInv'
    BY <1>1 DEF settingsVars, SettingsInv, SettingsTypeOK, OverlapsAreCrossed, Unwritten,
                UpToDate, Stored
  <1> QED
    BY <1>1, PutMapStep, GetSystemStep, ClearStep, WriteKeyStep, IndexMapStep, ReadFormStep,
       WriteFormStep, AbandonStep, SettingsRestartStep DEF SettingsNext, SettingsWork

LEMMA SettingsInvariant == SettingsSpec => []SettingsInv
  BY SettingsStart, SettingsStep, PTL DEF SettingsSpec

\* Nobody at work on a map: nobody has written in it.
LEMMA SettledIsUnwritten ==
    SettingsInv => \A m \in (Maps \cup {System}) \ suspect : Settled(m) => UpToDate(m)
  BY DEF SettingsInv, Settled, Unwritten

\* Every reachable state of settings and config maps is well typed.
THEOREM SettingsTypesHold == SettingsSpec => []SettingsTypeOK
  <1>1. SettingsInv => SettingsTypeOK
    BY DEF SettingsInv
  <1> QED
    BY <1>1, SettingsInvariant, PTL

\* Once no PUT is between its statements, the site shows the settings that are
\* stored, unless handlers overlapped on them or a part of them was written alone.
THEOREM SiteAlwaysShowsWhatIsStored == SettingsSpec => []SiteShowsWhatIsStored
  <1>1. SettingsInv => SiteShowsWhatIsStored
    BY SettledIsUnwritten DEF UpToDate, SiteShowsWhatIsStored
  <1> QED
    BY <1>1, SettingsInvariant, PTL

\* Once no PUT is between its statements, a config map holds what one PUT wrote, whole,
\* unless PUTs overlapped on it or one stopped half way.
THEOREM MapsAreOnePut == SettingsSpec => []MapIsOnePut
  <1>1. SettingsInv => MapIsOnePut
    BY SettledIsUnwritten, SettingsConstants DEF UpToDate, MapIsOnePut
  <1> QED
    BY <1>1, SettingsInvariant, PTL

-----------------------------------------------------------------------------
(* Taxonomy. A term has its slug in the index unless a handler is about to put
   it there; handlers that overlap on a term, or on the terms of a post, are on
   record; and one by itself has in hand what is stored, or has joined the terms
   of its save that it has not left (TermInv, SaveInv). *)

LEMMA SavesAreSequences == \A s \in Saves : s \in Seq(TermNames) /\ s \in Todos
  <1> SUFFICES ASSUME NEW s \in Saves PROVE s \in Seq(TermNames) /\ s \in Todos
    OBVIOUS
  <1>1. s \in Seq(TermNames)
    BY TaxonomyAssumption
  <1>2. s \in Suffixes(s)
    <2>1. CASE s = <<>>
      BY <2>1 DEF Suffixes
    <2>2. CASE s # <<>>
      <3>1. 1 \in 1..Len(s) /\ SubSeq(s, 1, Len(s)) = s
        BY <1>1, <2>2
      <3> QED
        BY <3>1 DEF Suffixes
    <2> QED
      BY <2>1, <2>2
  <1> QED
    BY <1>1, <1>2 DEF Todos

\* What is left of the terms of a save: one and the rest of them.
LEMMA LeftOfTerms ==
    ASSUME NEW t \in Todos, t # <<>>
    PROVE  /\ t \in Seq(TermNames) /\ t[1] \in TermNames /\ Tail(t) \in Todos
           /\ Range(t) = {t[1]} \cup Range(Tail(t))
  <1>1. PICK s \in Saves : t \in Suffixes(s)
    BY DEF Todos
  <1>2. s \in Seq(TermNames)
    BY TaxonomyAssumption
  <1>3. PICK i \in 1..Len(s) : t = SubSeq(s, i, Len(s))
    BY <1>1 DEF Suffixes
  <1>4. t \in Seq(TermNames) /\ t[1] \in TermNames
    BY <1>2, <1>3
  <1>5. Tail(t) = SubSeq(s, i + 1, Len(s))
    BY <1>2, <1>3
  <1>6. Tail(t) \in Suffixes(s)
    <2>1. CASE i = Len(s)
      BY <1>2, <1>5, <2>1 DEF Suffixes
    <2>2. CASE i # Len(s)
      <3>1. i + 1 \in 1..Len(s)
        BY <1>2, <2>2
      <3> QED
        BY <1>5, <3>1 DEF Suffixes
    <2> QED
      BY <2>1, <2>2
  <1>7. Range(t) = {t[1]} \cup Range(Tail(t))
    <2>1. /\ Len(t) \in Nat \ {0} /\ DOMAIN t = 1..Len(t)
          /\ DOMAIN Tail(t) = 1..(Len(t) - 1)
          /\ \A j \in 1..(Len(t) - 1) : Tail(t)[j] = t[j + 1]
      BY <1>4
    <2>2. ASSUME NEW j \in DOMAIN t, j # 1 PROVE j - 1 \in DOMAIN Tail(t) /\ Tail(t)[j - 1] = t[j]
      BY <2>1, <2>2
    <2>3. ASSUME NEW j \in DOMAIN Tail(t) PROVE j + 1 \in DOMAIN t /\ Tail(t)[j] = t[j + 1]
      BY <2>1, <2>3
    <2>4. 1 \in DOMAIN t
      BY <2>1
    <2>5. Range(t) \subseteq {t[1]} \cup Range(Tail(t))
      BY ONLY <2>2 DEF Range
    <2>6. {t[1]} \cup Range(Tail(t)) \subseteq Range(t)
      BY ONLY <2>3, <2>4 DEF Range
    <2> QED
      BY <2>5, <2>6
  <1> QED
    BY <1>4, <1>6, <1>7 DEF Todos

LEMMA WorkFields ==
    ASSUME NEW w \in Work
    PROVE  /\ w.at \in TermStages => /\ w.kind \in Kinds /\ w.term \in TermNames
                                     /\ w.slug \in TermSlugs \cup {None}
           /\ w.at \in PostStages =>
                /\ w.kind \in Kinds /\ w.post \in Tagged /\ w.all \in Saves
                /\ w = OnPost(w.at, w.kind, w.post, w.all, w.todo)
                /\ IF w.at = "clear" THEN w.todo = w.all ELSE w.todo \in Todos \ {<<>>}
           /\ w.at \notin TermStages \cup PostStages => w = NoWork
  <1>1. CASE w = NoWork
    BY <1>1 DEF NoWork, TermStages, PostStages
  <1>2. ASSUME NEW at \in TermStages, NEW k \in Kinds, NEW n \in TermNames,
               NEW s \in TermSlugs \cup {None}, w = OnTerm(at, k, n, s)
        PROVE  /\ w.at \in TermStages /\ w.at \notin PostStages
               /\ w.kind \in Kinds /\ w.term \in TermNames /\ w.slug \in TermSlugs \cup {None}
    BY <1>2 DEF OnTerm, TermStages, PostStages
  <1>3. ASSUME NEW k \in Kinds, NEW p \in Tagged, NEW all \in Saves, w = OnPost("clear", k, p, all, all)
        PROVE  /\ w.at = "clear" /\ w.kind = k /\ w.post = p /\ w.all = all /\ w.todo = all
               /\ w = OnPost(w.at, w.kind, w.post, w.all, w.todo)
    BY <1>3 DEF OnPost
  <1>4. ASSUME NEW at \in {"term", "join"}, NEW k \in Kinds, NEW p \in Tagged,
               NEW all \in Saves, NEW todo \in Todos \ {<<>>}, w = OnPost(at, k, p, all, todo)
        PROVE  /\ w.at = at /\ w.kind = k /\ w.post = p /\ w.all = all /\ w.todo = todo
               /\ w = OnPost(w.at, w.kind, w.post, w.all, w.todo)
    BY <1>4 DEF OnPost
  <1>5. \/ w = NoWork
        \/ \E at \in TermStages, k \in Kinds, n \in TermNames, s \in TermSlugs \cup {None} :
             w = OnTerm(at, k, n, s)
        \/ \E k \in Kinds, p \in Tagged, all \in Saves : w = OnPost("clear", k, p, all, all)
        \/ \E at \in {"term", "join"}, k \in Kinds, p \in Tagged, all \in Saves,
              todo \in Todos \ {<<>>} : w = OnPost(at, k, p, all, todo)
    BY DEF Work
  <1>6. "term" \notin TermStages /\ "join" \notin TermStages /\ "clear" \notin TermStages
        /\ PostStages = {"clear", "term", "join"}
    BY DEF TermStages, PostStages
  <1> QED
    BY <1>1, <1>2, <1>3, <1>4, <1>5, <1>6

LEMMA StagesApart ==
    /\ NoWork \in Work /\ NoWork.at = "idle"
    /\ TermStages \cap PostStages = {} /\ "idle" \notin TermStages \cup PostStages
  BY DEF Work, NoWork, TermStages, PostStages

LEMMA TermWork ==
    \A at, k, n, s : LET w == OnTerm(at, k, n, s) IN
        /\ w.at = at /\ w.kind = k /\ w.term = n /\ w.slug = s
        /\ at \in TermStages /\ k \in Kinds /\ n \in TermNames /\ s \in TermSlugs \cup {None}
             => w \in Work
  <1>1. \A at, k, n, s : LET w == OnTerm(at, k, n, s) IN
          w.at = at /\ w.kind = k /\ w.term = n /\ w.slug = s
    BY DEF OnTerm
  <1>2. \A at \in TermStages, k \in Kinds, n \in TermNames, s \in TermSlugs \cup {None} :
          OnTerm(at, k, n, s) \in Work
    BY DEF Work
  <1> QED
    BY <1>1, <1>2

LEMMA PostWork ==
    /\ \A at, k, p, all, todo : LET w == OnPost(at, k, p, all, todo) IN
         w.at = at /\ w.kind = k /\ w.post = p /\ w.all = all /\ w.todo = todo
    /\ \A k \in Kinds, p \in Tagged, all \in Saves :
         /\ OnPost("clear", k, p, all, all) \in Work
         /\ \A at \in {"term", "join"}, todo \in Todos \ {<<>>} :
              OnPost(at, k, p, all, todo) \in Work
  <1>1. \A at, k, p, all, todo : LET w == OnPost(at, k, p, all, todo) IN
          w.at = at /\ w.kind = k /\ w.post = p /\ w.all = all /\ w.todo = todo
    BY DEF OnPost
  <1>2. \A k \in Kinds, p \in Tagged, all \in Saves : OnPost("clear", k, p, all, all) \in Work
    BY DEF Work
  <1>3. ASSUME NEW k \in Kinds, NEW p \in Tagged, NEW all \in Saves,
               NEW at \in {"term", "join"}, NEW todo \in Todos \ {<<>>}
        PROVE  OnPost(at, k, p, all, todo) \in Work
    BY DEF Work
  <1> QED
    BY <1>1, <1>2, <1>3

\* A save that goes on to its next term, with so many of them left.
WithLeft(w, todo) == [w EXCEPT !.at = "term", !.todo = todo]

LEMMA SaveGoesOn ==
    \A w \in Work, todo \in Todos \ {<<>>} : w.at \in PostStages =>
        LET v == WithLeft(w, todo) IN
        /\ v \in Work /\ v.at = "term" /\ v.kind = w.kind /\ v.post = w.post
        /\ v.all = w.all /\ v.todo = todo
  <1> SUFFICES ASSUME NEW w \in Work, NEW todo \in Todos \ {<<>>}, w.at \in PostStages
               PROVE  LET v == WithLeft(w, todo) IN
                      /\ v \in Work /\ v.at = "term" /\ v.kind = w.kind /\ v.post = w.post
                      /\ v.all = w.all /\ v.todo = todo
    OBVIOUS
  <1>1. w = OnPost(w.at, w.kind, w.post, w.all, w.todo)
    BY WorkFields
  <1>2. [w EXCEPT !.at = "term"] = OnPost("term", w.kind, w.post, w.all, w.todo)
    BY <1>1 DEF OnPost
  <1>3. [OnPost("term", w.kind, w.post, w.all, w.todo) EXCEPT !.todo = todo]
          = OnPost("term", w.kind, w.post, w.all, todo)
    BY DEF OnPost
  <1>4. WithLeft(w, todo) = OnPost("term", w.kind, w.post, w.all, todo)
    BY <1>2, <1>3 DEF WithLeft
  <1>5. w.kind \in Kinds /\ w.post \in Tagged /\ w.all \in Saves
    BY WorkFields
  <1> QED
    BY <1>4, <1>5, PostWork

LEMMA SaveJoins ==
    ASSUME NEW w \in Work, w.at = "term"
    PROVE  LET v == [w EXCEPT !.at = "join"] IN
           /\ v \in Work /\ v.at = "join" /\ v.kind = w.kind /\ v.post = w.post
           /\ v.all = w.all /\ v.todo = w.todo
  <1>1. /\ w.kind \in Kinds /\ w.post \in Tagged /\ w.all \in Saves /\ w.todo \in Todos \ {<<>>}
        /\ w = OnPost(w.at, w.kind, w.post, w.all, w.todo)
    BY WorkFields DEF PostStages
  <1>2. [w EXCEPT !.at = "join"] = OnPost("join", w.kind, w.post, w.all, w.todo)
    BY <1>1 DEF OnPost
  <1> QED
    BY <1>1, <1>2, PostWork

\* One entry of a table or of the index is set.
LEMMA SlugsOf ==
    ASSUME NEW f \in [Kinds -> [TermNames -> TermSlugs \cup {None}]],
           NEW k \in Kinds, NEW n \in TermNames, NEW s \in TermSlugs \cup {None}
    PROVE  /\ [f EXCEPT ![k][n] = s] \in [Kinds -> [TermNames -> TermSlugs \cup {None}]]
           /\ \A j \in Kinds, m \in TermNames :
                [f EXCEPT ![k][n] = s][j][m] = IF j = k /\ m = n THEN s ELSE f[j][m]
  OBVIOUS

\* So are the terms of a post.
LEMMA TermsOf ==
    ASSUME NEW f \in [Kinds -> [Tagged -> SUBSET TermNames]],
           NEW k \in Kinds, NEW p \in Tagged, NEW T \in SUBSET TermNames
    PROVE  /\ [f EXCEPT ![k][p] = T] \in [Kinds -> [Tagged -> SUBSET TermNames]]
           /\ \A j \in Kinds, q \in Tagged :
                [f EXCEPT ![k][p] = T][j][q] = IF j = k /\ q = p THEN T ELSE f[j][q]
  OBVIOUS

\* A save takes its next term or ends.
LEMMA NextTermType ==
    ASSUME TaxonomyTypeOK, NEW r \in Requests, work[r].at \in PostStages,
           NEW todo \in Todos, NextTerm(r, todo)
    PROVE  /\ work' \in [Requests -> Work] /\ met' \subseteq Requests
           /\ torn' \subseteq Kinds \X Tagged
           /\ saved' \in [Kinds -> [Tagged -> SUBSET TermNames]]
  <1>1. /\ work[r] \in Work /\ work[r].kind \in Kinds /\ work[r].post \in Tagged
        /\ Range(work[r].all) \subseteq TermNames
    <2>1. work[r] \in Work
      BY DEF TaxonomyTypeOK
    <2>2. work[r].all \in Seq(TermNames)
      BY <2>1, WorkFields, SavesAreSequences
    <2>3. Range(work[r].all) \subseteq TermNames
      BY <2>2 DEF Range
    <2> QED
      BY <2>1, <2>3, WorkFields
  <1>2. CASE todo = <<>>
    <2>1. /\ work' = [work EXCEPT ![r] = NoWork] /\ met' = met \ {r}
          /\ torn' \subseteq torn
          /\ saved' = [saved EXCEPT ![work[r].kind][work[r].post] = Range(work[r].all)]
      BY <1>2 DEF NextTerm
    <2>2. saved' \in [Kinds -> [Tagged -> SUBSET TermNames]]
      BY <1>1, <2>1, TermsOf DEF TaxonomyTypeOK
    <2> QED
      BY <2>1, <2>2, StagesApart DEF TaxonomyTypeOK
  <1>3. CASE todo # <<>>
    <2>1. /\ work' = [work EXCEPT ![r] = WithLeft(work[r], todo)]
          /\ UNCHANGED <<met, torn, saved>>
      BY <1>3 DEF NextTerm, WithLeft
    <2>2. WithLeft(work[r], todo) \in Work
      BY <1>1, <1>3, SaveGoesOn
    <2> QED
      BY <2>1, <2>2 DEF TaxonomyTypeOK
  <1> QED
    BY <1>2, <1>3

LEMMA TaxonomyTypesStep == TaxonomyTypeOK /\ [TaxonomyNext]_taxonomyVars => TaxonomyTypeOK'
  <1> SUFFICES ASSUME TaxonomyTypeOK, [TaxonomyNext]_taxonomyVars PROVE TaxonomyTypeOK'
    OBVIOUS
  <1> USE DEF TaxonomyTypeOK
  <1>a. Tag \in Kinds /\ Category \in Kinds
    BY DEF Kinds
  <1>1. ASSUME NEW r \in Requests, NEW k \in Kinds, CreateFind(r, k) \/ UpdateGet(r, k)
        PROVE  TaxonomyTypeOK'
    <2>1. PICK at \in {"insert", "update"}, n \in TermNames, s \in TermSlugs :
            /\ Start(r, OnTerm(at, k, n, s), OthersOn(r, k, n))
            /\ UNCHANGED <<table, entries, joined, astray, torn, saved>>
      BY <1>1 DEF CreateFind, UpdateGet
    <2>2. OnTerm(at, k, n, s) \in Work
      BY TermWork DEF TermStages
    <2> QED
      BY <2>1, <2>2 DEF Start, OthersOn
  <1>2. ASSUME NEW r \in Requests, NEW k \in Kinds, CreateInsert(r, k) \/ UpdateRow(r, k)
        PROVE  TaxonomyTypeOK'
    <2>1. /\ work[r].at \in TermStages /\ work[r].kind = k
          /\ \/ Finish(r, FALSE) /\ table' = table
             \/ /\ Put(k, work[r].term, work[r].slug)
                /\ GoOn(r, OnTerm("read", k, work[r].term, None))
          /\ UNCHANGED <<entries, joined, torn, saved>>
      BY <1>2 DEF CreateInsert, UpdateRow, TermStages
    <2>2. work[r].term \in TermNames /\ work[r].slug \in TermSlugs \cup {None}
      BY <2>1, WorkFields
    <2>3. OnTerm("read", k, work[r].term, None) \in Work
      BY <2>2, TermWork DEF TermStages
    <2> QED
      <3>1. CASE Finish(r, FALSE) /\ table' = table
        BY <2>1, <3>1, StagesApart DEF Finish
      <3>2. CASE /\ Put(k, work[r].term, work[r].slug)
                 /\ GoOn(r, OnTerm("read", k, work[r].term, None))
        <4>1. table' \in [Kinds -> [TermNames -> TermSlugs \cup {None}]]
          BY <2>2, <3>2, SlugsOf DEF Put
        <4> QED
          BY <2>1, <2>3, <3>2, <4>1 DEF GoOn
      <3> QED
        BY <2>1, <3>1, <3>2
  <1>3. ASSUME NEW r \in Requests, NEW k \in Kinds, ReadBack(r, k) PROVE TaxonomyTypeOK'
    <2>1. /\ work[r].at \in TermStages /\ work[r].kind = k
          /\ \/ Finish(r, TRUE)
             \/ GoOn(r, OnTerm("index", k, work[r].term, table[k][work[r].term]))
          /\ UNCHANGED <<table, entries, joined, torn, saved>>
      BY <1>3 DEF ReadBack, TermStages
    <2>2. work[r].term \in TermNames
      BY <2>1, WorkFields
    <2>3. OnTerm("index", k, work[r].term, table[k][work[r].term]) \in Work
      BY <2>2, TermWork DEF TermStages
    <2> QED
      <3>1. CASE Finish(r, TRUE)
        <4>1. <<work[r].kind, work[r].term>> \in Kinds \X TermNames
          BY <2>1, <2>2
        <4> QED
          BY <2>1, <3>1, <4>1, StagesApart DEF Finish
      <3>2. CASE GoOn(r, OnTerm("index", k, work[r].term, table[k][work[r].term]))
        BY <2>1, <2>3, <3>2 DEF GoOn
      <3> QED
        BY <2>1, <3>1, <3>2
  <1>4. ASSUME NEW r \in Requests, NEW k \in Kinds, IndexTerm(r, k) \/ RemoveEntry(r, k)
        PROVE  TaxonomyTypeOK'
    <2>1. work[r].at \in TermStages
      BY <1>4 DEF IndexTerm, RemoveEntry, TermStages
    <2>2. work[r].term \in TermNames /\ work[r].slug \in TermSlugs \cup {None}
      BY <2>1, WorkFields
    <2> QED
      <3>1. /\ work' = [work EXCEPT ![r] = NoWork] /\ met' = met \ {r}
            /\ astray' \subseteq astray \cup {<<k, work[r].term>>}
            /\ UNCHANGED <<table, joined, torn, saved>>
        BY <1>4 DEF IndexTerm, RemoveEntry
      <3>2. entries' \in [Kinds -> [TermNames -> TermSlugs \cup {None}]]
        <4>1. work[r].kind = k
          BY <1>4 DEF IndexTerm, RemoveEntry
        <4>2. PICK s \in TermSlugs \cup {None} : entries' = [entries EXCEPT ![k][work[r].term] = s]
          BY <1>4, <2>2 DEF IndexTerm, RemoveEntry
        <4> QED
          BY <2>2, <4>2, SlugsOf
      <3>3. <<k, work[r].term>> \in Kinds \X TermNames
        BY <2>2
      <3> QED
        BY <3>1, <3>2, <3>3, StagesApart
  <1>5. ASSUME NEW r \in Requests, NEW k \in Kinds, DeleteRow(r, k) PROVE TaxonomyTypeOK'
    <2>1. PICK n \in TermNames :
            /\ work' = [work EXCEPT ![r] = OnTerm("remove", k, n, None)]
            /\ met' = met \cup SavesWith(k, n) \cup
                        (IF OthersOn(r, k, n) = {} THEN {} ELSE OthersOn(r, k, n) \cup {r})
            /\ Put(k, n, None)
            /\ joined' = [joined EXCEPT ![k] = [p \in Tagged |-> joined[k][p] \ {n}]]
            /\ saved' = [saved EXCEPT ![k] = [p \in Tagged |-> saved[k][p] \ {n}]]
            /\ UNCHANGED <<entries, astray, torn>>
      BY <1>5 DEF DeleteRow
    <2>2. OnTerm("remove", k, n, None) \in Work
      BY TermWork DEF TermStages
    <2>3. /\ [p \in Tagged |-> joined[k][p] \ {n}] \in [Tagged -> SUBSET TermNames]
          /\ [p \in Tagged |-> saved[k][p] \ {n}] \in [Tagged -> SUBSET TermNames]
      OBVIOUS
    <2>4. met' \subseteq Requests
      BY <2>1 DEF SavesWith, OthersOn
    <2> QED
      BY <2>1, <2>2, <2>3, <2>4 DEF Put
  <1>6. ASSUME NEW r \in Requests, NEW k \in Kinds, SaveTerms(r, k) PROVE TaxonomyTypeOK'
    <2>1. PICK p \in Tagged, values \in Saves :
            /\ Start(r, OnPost("clear", k, p, values, values),
                     {q \in Requests \ {r} : Saving(work[q], k, p)})
            /\ torn' = torn \cup {<<k, p>>}
            /\ UNCHANGED <<table, entries, joined, astray, saved>>
      BY <1>6 DEF SaveTerms
    <2>2. OnPost("clear", k, p, values, values) \in Work
      BY PostWork
    <2> QED
      BY <2>1, <2>2 DEF Start
  <1>7. ASSUME NEW r \in Requests, NEW k \in Kinds, ClearTerms(r, k) \/ JoinTerm(r, k)
        PROVE  TaxonomyTypeOK'
    <2> DEFINE w == work[r]
    <2>1. w \in Work /\ w.at \in PostStages /\ w.kind = k
      BY <1>7 DEF ClearTerms, JoinTerm, PostStages
    <2>2. w.post \in Tagged /\ w.todo \in Todos
      BY <2>1, WorkFields, SavesAreSequences
    <2> HIDE DEF w
    <2>3. UNCHANGED <<table, entries, astray>>
      BY <1>7 DEF ClearTerms, JoinTerm
    <2>4. CASE ClearTerms(r, k)
      <3>1. joined' = [joined EXCEPT ![k][w.post] = {}] /\ NextTerm(r, w.todo)
        BY <2>4 DEF ClearTerms, w
      <3>2. joined' \in [Kinds -> [Tagged -> SUBSET TermNames]]
        BY <2>2, <3>1, TermsOf
      <3> QED
        BY <2>1, <2>2, <2>3, <3>1, <3>2, NextTermType DEF w
    <2>5. CASE JoinTerm(r, k)
      <3>1. /\ joined' = [joined EXCEPT ![k][w.post] = joined[k][w.post] \cup {w.todo[1]}]
            /\ NextTerm(r, Tail(w.todo)) /\ w.at = "join"
        BY <2>5 DEF JoinTerm, w
      <3>2. w.todo # <<>>
        BY <2>1, <3>1, WorkFields
      <3>3. w.todo[1] \in TermNames /\ Tail(w.todo) \in Todos
        BY <2>2, <3>2, LeftOfTerms
      <3>4. joined[k][w.post] \cup {w.todo[1]} \in SUBSET TermNames
        BY <2>2, <3>3
      <3>5. joined' \in [Kinds -> [Tagged -> SUBSET TermNames]]
        BY <2>2, <3>1, <3>4, TermsOf
      <3> QED
        BY <2>1, <2>3, <3>1, <3>3, <3>5, NextTermType DEF w
    <2> QED
      BY <1>7, <2>4, <2>5
  <1>8. ASSUME NEW r \in Requests, NEW k \in Kinds, CreateImplicitly(r, k) PROVE TaxonomyTypeOK'
    <2> DEFINE n == work[r].todo[1]
    <2>1. /\ work[r] \in Work /\ work[r].at = "term" /\ work[r].at \in PostStages
          /\ work' = [work EXCEPT ![r] = [work[r] EXCEPT !.at = "join"]]
          /\ \/ UNCHANGED <<table, astray, met>>
             \/ /\ Put(k, n, SlugOf[n]) /\ astray' = astray \cup {<<k, n>>}
                /\ met' \subseteq met \cup Requests
          /\ UNCHANGED <<entries, joined, torn, saved>>
      BY <1>8 DEF CreateImplicitly, PostStages
    <2>2. work[r].todo \in Todos \ {<<>>}
      BY <2>1, WorkFields
    <2>4. [work[r] EXCEPT !.at = "join"] \in Work
      BY <2>1, SaveJoins
    <2>5. n \in TermNames /\ SlugOf[n] \in TermSlugs \cup {None}
      BY <2>2, LeftOfTerms, TaxonomyAssumption DEF Injection
    <2> HIDE DEF n
    <2>6. /\ table' \in [Kinds -> [TermNames -> TermSlugs \cup {None}]]
          /\ astray' \subseteq Kinds \X TermNames /\ met' \subseteq Requests
      <3>1. CASE UNCHANGED <<table, astray, met>>
        BY <3>1
      <3>2. CASE /\ Put(k, n, SlugOf[n]) /\ astray' = astray \cup {<<k, n>>}
                 /\ met' \subseteq met \cup Requests
        BY <2>5, <3>2, SlugsOf DEF Put
      <3> QED
        BY <2>1, <3>1, <3>2 DEF n
    <2> QED
      BY <2>1, <2>4, <2>6
  <1>9. ASSUME NEW r \in Requests, NEW k \in Kinds, JoinRefused(r, k) PROVE TaxonomyTypeOK'
    BY <1>9, StagesApart DEF JoinRefused
  <1>10. ASSUME NEW r \in Requests, AbandonTerm(r) PROVE TaxonomyTypeOK'
    <2>1. work[r].at \in {"read", "index", "remove"} => <<work[r].kind, work[r].term>> \in Kinds \X TermNames
      BY WorkFields DEF TermStages
    <2> QED
      BY <1>10, <2>1, StagesApart DEF AbandonTerm
  <1>11. CASE TaxonomyRestart
    BY <1>11, StagesApart DEF TaxonomyRestart
  <1>12. CASE UNCHANGED taxonomyVars
    BY <1>12 DEF taxonomyVars
  <1> QED
    BY <1>a, <1>1, <1>2, <1>3, <1>4, <1>5, <1>6, <1>7, <1>8, <1>9, <1>10, <1>11, <1>12
       DEF TaxonomyNext, TagStep, CategoryStep, SaveStep

LEMMA TaxonomyStart == TaxonomyInit => TaxonomyTypeOK
  BY StagesApart DEF TaxonomyInit, TaxonomyTypeOK
-----------------------------------------------------------------------------
\* Handlers on one term are known to overlap.
TermsMeet ==
    \A r, q \in Requests : \A k \in Kinds, n \in TermNames :
        r # q /\ WorksOn(work[r], k, n) /\ WorksOn(work[q], k, n) => r \in met

\* The index has the slug of the table as long as no handler on the term has
\* changed the row.
IndexFollows ==
    \A k \in Kinds, n \in TermNames :
        /\ <<k, n>> \notin astray
        /\ \A r \in Requests : WorksOn(work[r], k, n) => work[r].at \in {"insert", "update"}
        => entries[k][n] = table[k][n]

\* A handler by itself is about to index what is stored.
InHandIsStored ==
    /\ \A r \in Requests : work[r].at = "remove" => work[r].slug = None
    /\ \A r \in Requests \ met :
         work[r].at \in {"index", "remove"} => work[r].slug = table[work[r].kind][work[r].term]

TermInv == TermsMeet /\ IndexFollows /\ InHandIsStored

LEMMA TermsStart == TaxonomyInit => TermInv
  BY StagesApart DEF TaxonomyInit, TermInv, TermsMeet, IndexFollows, InHandIsStored, WorksOn

\* A step of one handler that leaves the table and the index alone: it begins, ends,
\* has read a row, or is at work on a post.
LEMMA TermsStay ==
    ASSUME TaxonomyTypeOK, TermInv, NEW r \in Requests, NEW w,
           work' = [work EXCEPT ![r] = w], table' = table, entries' = entries,
           astray \subseteq astray', met \ {r} \subseteq met',
           \/ /\ w.at \notin TermStages
              /\ work[r].at \in {"read", "index", "remove"} =>
                   <<work[r].kind, work[r].term>> \in astray'
           \/ /\ w.at \in {"insert", "update"} /\ work[r].at \notin TermStages
              /\ \A q \in Requests \ {r} :
                   WorksOn(work[q], w.kind, w.term) => q \in met' /\ r \in met'
           \/ /\ w.at = "index" /\ work[r].at = "read"
              /\ w.kind = work[r].kind /\ w.term = work[r].term
              /\ w.slug = table[w.kind][w.term] /\ met' = met
    PROVE  TermInv'
  <1>1. \A q \in Requests : work'[q] = IF q = r THEN w ELSE work[q]
    BY DEF TaxonomyTypeOK
  <1>2. {"insert", "update", "read", "index", "remove"} = TermStages
    BY DEF TermStages
  <1>3. TermsMeet'
    BY <1>1, <1>2 DEF TermInv, TermsMeet, WorksOn
  <1>4. InHandIsStored'
    BY <1>1, <1>2 DEF TermInv, InHandIsStored
  <1>5. ASSUME NEW k \in Kinds, NEW n \in TermNames, <<k, n>> \notin astray',
               \A q \in Requests : WorksOn(work'[q], k, n) => work'[q].at \in {"insert", "update"}
        PROVE  entries[k][n] = table[k][n]
    <2>1. <<k, n>> \notin astray
      BY <1>5
    <2>2. \A q \in Requests : WorksOn(work[q], k, n) => work[q].at \in {"insert", "update"}
      BY <1>1, <1>2, <1>5 DEF WorksOn
    <2> QED
      BY <2>1, <2>2 DEF TermInv, IndexFollows
  <1> QED
    BY <1>3, <1>4, <1>5 DEF TermInv, IndexFollows

\* A statement on the row of a term, by a handler on the term that is going to index
\* it, or by a save.
LEMMA RowChanges ==
    ASSUME TaxonomyTypeOK, TermInv, NEW r \in Requests, NEW w,
           NEW k \in Kinds, NEW n \in TermNames, NEW s \in TermSlugs \cup {None},
           work' = [work EXCEPT ![r] = w], Put(k, n, s), entries' = entries,
           astray \subseteq astray', met \subseteq met',
           \A q \in Requests \ {r} :
             WorksOn(work[q], k, n) => q \in met' /\ (w.at \in TermStages => r \in met'),
           \/ /\ w.at \in {"read", "remove"} /\ w.kind = k /\ w.term = n
              /\ w.at = "remove" => w.slug = s /\ s = None
              /\ work[r].at \notin TermStages \/ WorksOn(work[r], k, n)
           \/ /\ w.at \notin TermStages /\ work[r].at \notin TermStages
              /\ <<k, n>> \in astray'
    PROVE  TermInv'
  <1>1. \A q \in Requests : work'[q] = IF q = r THEN w ELSE work[q]
    BY DEF TaxonomyTypeOK
  <1>2. {"insert", "update", "read", "index", "remove"} = TermStages
    BY DEF TermStages
  <1>3. \A j \in Kinds, m \in TermNames :
          table'[j][m] = IF j = k /\ m = n THEN s ELSE table[j][m]
    BY SlugsOf DEF Put, TaxonomyTypeOK
  <1>4. TermsMeet'
    BY <1>1, <1>2 DEF TermInv, TermsMeet, WorksOn
  <1>5. InHandIsStored'
    <2>1. \A q \in Requests : work'[q].at = "remove" => work'[q].slug = None
      BY <1>1, <1>2 DEF TermInv, InHandIsStored
    <2>2. ASSUME NEW q \in Requests \ met', work'[q].at \in {"index", "remove"}
          PROVE  work'[q].slug = table'[work'[q].kind][work'[q].term]
      <3>1. CASE q = r
        BY <1>1, <1>2, <1>3, <2>2, <3>1
      <3>2. CASE q # r
        <4>1. /\ work'[q] = work[q] /\ q \notin met /\ work[q].at \in TermStages
              /\ work[q].slug = table[work[q].kind][work[q].term]
          BY <1>1, <1>2, <2>2, <3>2 DEF TermInv, InHandIsStored
        <4>2. work[q].kind \in Kinds /\ work[q].term \in TermNames
          BY <4>1, WorkFields DEF TaxonomyTypeOK
        <4>3. ~(work[q].kind = k /\ work[q].term = n)
          BY <2>2, <3>2, <4>1 DEF WorksOn
        <4> QED
          BY <1>3, <4>1, <4>2, <4>3
      <3> QED
        BY <3>1, <3>2
    <2> QED
      BY <2>1, <2>2 DEF InHandIsStored
  <1>6. ASSUME NEW j \in Kinds, NEW m \in TermNames, <<j, m>> \notin astray',
               \A q \in Requests : WorksOn(work'[q], j, m) => work'[q].at \in {"insert", "update"}
        PROVE  entries[j][m] = table'[j][m]
    <2>1. <<j, m>> \notin astray
      BY <1>6
    <2>2. ~(j = k /\ m = n)
      BY <1>1, <1>2, <1>6 DEF WorksOn
    <2>3. \A q \in Requests : WorksOn(work[q], j, m) => work[q].at \in {"insert", "update"}
      BY <1>1, <1>2, <1>6, <2>2 DEF WorksOn
    <2> QED
      BY <1>3, <2>1, <2>2, <2>3 DEF TermInv, IndexFollows
  <1> QED
    BY <1>4, <1>5, <1>6 DEF TermInv, IndexFollows

\* A handler on a term sets its entry in the index, and ends.
LEMMA EntryChanges ==
    ASSUME TaxonomyTypeOK, TermInv, NEW r \in Requests, work[r].at \in {"index", "remove"},
           NEW k \in Kinds, NEW n \in TermNames, k = work[r].kind, n = work[r].term,
           work' = [work EXCEPT ![r] = NoWork], table' = table,
           entries' = [entries EXCEPT ![k][n] = work[r].slug],
           astray' = IF r \in met THEN astray \cup {<<k, n>>} ELSE astray \ {<<k, n>>},
           met' = met \ {r}
    PROVE  TermInv'
  <1>1. \A q \in Requests : work'[q] = IF q = r THEN NoWork ELSE work[q]
    BY DEF TaxonomyTypeOK
  <1>2. work[r].at \in TermStages /\ work[r].slug \in TermSlugs \cup {None}
    <2>1. work[r].at \in TermStages
      BY DEF TermStages
    <2> QED
      BY <2>1, WorkFields DEF TaxonomyTypeOK
  <1>3. \A j \in Kinds, m \in TermNames :
          entries'[j][m] = IF j = k /\ m = n THEN work[r].slug ELSE entries[j][m]
    BY <1>2, SlugsOf DEF TaxonomyTypeOK
  <1>4. TermsMeet'
    BY <1>1, StagesApart DEF TermInv, TermsMeet, WorksOn
  <1>5. InHandIsStored'
    BY <1>1, StagesApart DEF TermInv, InHandIsStored
  <1>6. ASSUME NEW j \in Kinds, NEW m \in TermNames, <<j, m>> \notin astray',
               \A q \in Requests : WorksOn(work'[q], j, m) => work'[q].at \in {"insert", "update"}
        PROVE  entries'[j][m] = table[j][m]
    <2>1. CASE j = k /\ m = n
      <3>1. r \notin met
        BY <1>6, <2>1
      <3> QED
        BY <1>3, <2>1, <3>1 DEF TermInv, InHandIsStored
    <2>2. CASE ~(j = k /\ m = n)
      <3>1. <<j, m>> \notin astray
        BY <1>6, <2>2
      <3>2. \A q \in Requests : WorksOn(work[q], j, m) => work[q].at \in {"insert", "update"}
        BY <1>1, <1>6, <2>2 DEF WorksOn
      <3> QED
        BY <1>3, <2>2, <3>1, <3>2 DEF TermInv, IndexFollows
    <2> QED
      BY <2>1, <2>2
  <1> QED
    BY <1>4, <1>5, <1>6 DEF TermInv, IndexFollows
LEMMA TermsStep == TaxonomyTypeOK /\ TermInv /\ [TaxonomyNext]_taxonomyVars => TermInv'
  <1> SUFFICES ASSUME TaxonomyTypeOK, TermInv, [TaxonomyNext]_taxonomyVars PROVE TermInv'
    OBVIOUS
  <1>a. Tag \in Kinds /\ Category \in Kinds
    BY DEF Kinds
  <1>b. {"insert", "update", "read", "index", "remove"} = TermStages
        /\ {"clear", "term", "join"} = PostStages
    BY DEF TermStages, PostStages
  <1>c. \A r \in Requests : work[r] \in Work
    BY DEF TaxonomyTypeOK
  <1>1. ASSUME NEW r \in Requests, NEW k \in Kinds, CreateFind(r, k) \/ UpdateGet(r, k)
        PROVE  TermInv'
    <2>1. PICK at \in {"insert", "update"}, n \in TermNames, s \in TermSlugs :
            /\ Start(r, OnTerm(at, k, n, s), OthersOn(r, k, n))
            /\ UNCHANGED <<table, entries, joined, astray, torn, saved>>
      BY <1>1 DEF CreateFind, UpdateGet
    <2> DEFINE w == OnTerm(at, k, n, s)
    <2>2. w.at = at /\ w.kind = k /\ w.term = n
      BY TermWork
    <2> HIDE DEF w
    <2>3. /\ work' = [work EXCEPT ![r] = w] /\ work[r].at = "idle"
          /\ table' = table /\ entries' = entries /\ astray' = astray
          /\ met' = IF OthersOn(r, k, n) = {} THEN met ELSE met \cup OthersOn(r, k, n) \cup {r}
      BY <2>1, StagesApart DEF Start, w
    <2>4. \A q \in Requests \ {r} : WorksOn(work[q], k, n) => q \in met' /\ r \in met'
      BY <2>3 DEF OthersOn
    <2> QED
      BY <2>2, <2>3, <2>4, StagesApart, TermsStay
  <1>2. ASSUME NEW r \in Requests, NEW k \in Kinds, CreateInsert(r, k) \/ UpdateRow(r, k)
        PROVE  TermInv'
    <2> DEFINE n == work[r].term
               s == work[r].slug
    <2>1. /\ work[r].at \in {"insert", "update"} /\ work[r].kind = k
          /\ \/ Finish(r, FALSE) /\ table' = table
             \/ /\ Put(k, n, s) /\ GoOn(r, OnTerm("read", k, n, None))
          /\ UNCHANGED <<entries, joined, torn, saved>>
      BY <1>2 DEF CreateInsert, UpdateRow
    <2>2. n \in TermNames /\ s \in TermSlugs \cup {None} /\ WorksOn(work[r], k, n)
      BY <1>b, <1>c, <2>1, WorkFields DEF WorksOn
    <2>3. CASE Finish(r, FALSE) /\ table' = table
      BY <2>1, <2>3, StagesApart, TermsStay DEF Finish
    <2>4. CASE Put(k, n, s) /\ GoOn(r, OnTerm("read", k, n, None))
      <3>1. \A q \in Requests \ {r} : WorksOn(work[q], k, n) => q \in met /\ r \in met
        BY <2>2 DEF TermInv, TermsMeet
      <3> DEFINE w == OnTerm("read", k, n, None)
      <3>2. w.at = "read" /\ w.kind = k /\ w.term = n
        BY TermWork
      <3>3. work' = [work EXCEPT ![r] = w] /\ met' = met /\ astray' = astray
        BY <2>4 DEF GoOn
      <3> HIDE DEF w, n, s
      <3> QED
        BY <2>1, <2>2, <2>4, <3>1, <3>2, <3>3, RowChanges
    <2> QED
      BY <2>1, <2>3, <2>4
  <1>3. ASSUME NEW r \in Requests, NEW k \in Kinds, ReadBack(r, k) PROVE TermInv'
    <2> DEFINE w == OnTerm("index", k, work[r].term, table[k][work[r].term])
    <2>1. /\ work[r].at = "read" /\ work[r].kind = k
          /\ Finish(r, TRUE) \/ GoOn(r, w)
          /\ UNCHANGED <<table, entries, joined, torn, saved>>
      BY <1>3 DEF ReadBack
    <2>2. /\ w.at = "index" /\ w.kind = k /\ w.term = work[r].term
          /\ w.slug = table[k][work[r].term]
      BY TermWork
    <2> HIDE DEF w
    <2>3. CASE Finish(r, TRUE)
      BY <2>1, <2>3, StagesApart, TermsStay DEF Finish
    <2>4. CASE GoOn(r, w)
      BY <2>1, <2>2, <2>4, TermsStay DEF GoOn
    <2> QED
      BY <2>1, <2>3, <2>4
  <1>4. ASSUME NEW r \in Requests, NEW k \in Kinds, IndexTerm(r, k) \/ RemoveEntry(r, k)
        PROVE  TermInv'
    <2>1. /\ work[r].at \in {"index", "remove"} /\ work[r].kind = k
          /\ entries' = [entries EXCEPT ![k][work[r].term] = work[r].slug]
          /\ work' = [work EXCEPT ![r] = NoWork]
          /\ astray' = IF r \in met THEN astray \cup {<<k, work[r].term>>}
                       ELSE astray \ {<<k, work[r].term>>}
          /\ met' = met \ {r} /\ table' = table
      BY <1>4 DEF IndexTerm, RemoveEntry, TermInv, InHandIsStored
    <2>2. work[r].term \in TermNames
      BY <1>b, <1>c, <2>1, WorkFields
    <2> QED
      BY <2>1, <2>2, EntryChanges
  <1>5. ASSUME NEW r \in Requests, NEW k \in Kinds, DeleteRow(r, k) PROVE TermInv'
    <2>1. PICK n \in TermNames :
            /\ work[r] = NoWork
            /\ work' = [work EXCEPT ![r] = OnTerm("remove", k, n, None)]
            /\ met' = met \cup SavesWith(k, n) \cup
                        (IF OthersOn(r, k, n) = {} THEN {} ELSE OthersOn(r, k, n) \cup {r})
            /\ Put(k, n, None)
            /\ UNCHANGED <<entries, astray, torn>>
      BY <1>5 DEF DeleteRow
    <2> DEFINE w == OnTerm("remove", k, n, None)
    <2>2. w.at = "remove" /\ w.kind = k /\ w.term = n /\ w.slug = None
      BY TermWork
    <2> HIDE DEF w
    <2>3. \A q \in Requests \ {r} : WorksOn(work[q], k, n) => q \in met' /\ r \in met'
      BY <2>1 DEF OthersOn
    <2>4. work[r].at \notin TermStages /\ met \subseteq met'
      BY <2>1, StagesApart
    <2> QED
      BY ZenonT(30), <2>1, <2>2, <2>3, <2>4, RowChanges DEF w
  <1>6. ASSUME NEW r \in Requests, NEW k \in Kinds, SaveTerms(r, k) PROVE TermInv'
    <2>1. PICK p \in Tagged, values \in Saves :
            /\ Start(r, OnPost("clear", k, p, values, values),
                     {q \in Requests \ {r} : Saving(work[q], k, p)})
            /\ UNCHANGED <<table, entries, joined, astray, saved>>
      BY <1>6 DEF SaveTerms
    <2> DEFINE w == OnPost("clear", k, p, values, values)
    <2>2. w.at \notin TermStages
      BY <1>b, PostWork, StagesApart
    <2> HIDE DEF w
    <2>3. /\ work' = [work EXCEPT ![r] = w] /\ work[r].at = "idle" /\ met \subseteq met'
          /\ table' = table /\ entries' = entries /\ astray' = astray
      BY <2>1, StagesApart DEF Start, w
    <2> QED
      BY <2>2, <2>3, TermsStay
  <1>7. ASSUME NEW r \in Requests, NEW k \in Kinds, ClearTerms(r, k) \/ JoinTerm(r, k)
        PROVE  TermInv'
    <2>1. PICK w : /\ work' = [work EXCEPT ![r] = w] /\ w.at \notin TermStages
                   /\ met \ {r} \subseteq met'
      <3>1. /\ work[r].at \in PostStages /\ (work[r].at = "join" => work[r].todo # <<>>)
            /\ work[r].at \in {"clear", "join"}
        BY <1>7, <1>b, <1>c, WorkFields DEF ClearTerms, JoinTerm
      <3>2. work[r].todo \in Todos /\ (work[r].at = "join" => Tail(work[r].todo) \in Todos)
        BY <1>c, <3>1, WorkFields, SavesAreSequences, LeftOfTerms
      <3>3. PICK todo \in Todos : NextTerm(r, todo)
        BY <1>7, <3>2 DEF ClearTerms, JoinTerm
      <3>4. CASE todo = <<>>
        <4>1. work' = [work EXCEPT ![r] = NoWork] /\ met' = met \ {r}
          BY <3>3, <3>4 DEF NextTerm
        <4> QED
          BY <4>1, StagesApart
      <3>5. CASE todo # <<>>
        <4>1. work' = [work EXCEPT ![r] = WithLeft(work[r], todo)] /\ met' = met
          BY <3>3, <3>5 DEF NextTerm, WithLeft
        <4>2. WithLeft(work[r], todo).at = "term"
          BY <1>c, <3>1, <3>5, SaveGoesOn
        <4> QED
          BY <1>b, <4>1, <4>2, StagesApart
      <3> QED
        BY <3>4, <3>5
    <2>2. /\ table' = table /\ entries' = entries /\ astray' = astray
          /\ work[r].at \in {"clear", "join"}
      BY <1>7 DEF ClearTerms, JoinTerm
    <2> QED
      BY <2>1, <2>2, TermsStay
  <1>8. ASSUME NEW r \in Requests, NEW k \in Kinds, CreateImplicitly(r, k) PROVE TermInv'
    <2> DEFINE n == work[r].todo[1]
               w == [work[r] EXCEPT !.at = "join"]
    <2>1. /\ work[r].at = "term" /\ work' = [work EXCEPT ![r] = w]
          /\ \/ UNCHANGED <<table, astray, met>>
             \/ /\ Put(k, n, SlugOf[n]) /\ astray' = astray \cup {<<k, n>>}
                /\ met' = met \cup {q \in Requests : WorksOn(work[q], k, n)}
          /\ entries' = entries
      BY <1>8 DEF CreateImplicitly
    <2>2. w.at \notin TermStages /\ work[r].at \notin TermStages
      BY <1>b, <1>c, <2>1, SaveJoins, StagesApart
    <2>3. n \in TermNames /\ SlugOf[n] \in TermSlugs \cup {None}
      <3>1. work[r].todo \in Todos \ {<<>>}
        BY <1>b, <1>c, <2>1, WorkFields
      <3> QED
        BY <3>1, LeftOfTerms, TaxonomyAssumption DEF Injection
    <2> HIDE DEF n, w
    <2>4. CASE UNCHANGED <<table, astray, met>>
      BY <2>1, <2>2, <2>4, TermsStay
    <2>5. CASE /\ Put(k, n, SlugOf[n]) /\ astray' = astray \cup {<<k, n>>}
               /\ met' = met \cup {q \in Requests : WorksOn(work[q], k, n)}
      <3>1. \A q \in Requests \ {r} : WorksOn(work[q], k, n) => q \in met'
        BY <2>5
      <3> QED
        BY <2>1, <2>2, <2>3, <2>5, <3>1, RowChanges
    <2> QED
      BY <2>1, <2>4, <2>5 DEF n
  <1>9. ASSUME NEW r \in Requests, NEW k \in Kinds, JoinRefused(r, k) PROVE TermInv'
    BY <1>9, StagesApart, TermsStay DEF JoinRefused
  <1>10. ASSUME NEW r \in Requests, AbandonTerm(r) PROVE TermInv'
    BY <1>10, StagesApart, TermsStay DEF AbandonTerm
  <1>11. CASE TaxonomyRestart
    BY <1>11, StagesApart DEF TaxonomyRestart, TermInv, TermsMeet, IndexFollows, InHandIsStored,
                              WorksOn
  <1>12. CASE UNCHANGED taxonomyVars
    BY <1>12 DEF taxonomyVars, TermInv, TermsMeet, IndexFollows, InHandIsStored
  <1> QED
    BY <1>a, <1>1, <1>2, <1>3, <1>4, <1>5, <1>6, <1>7, <1>8, <1>9, <1>10, <1>11, <1>12
       DEF TaxonomyNext, TagStep, CategoryStep, SaveStep
-----------------------------------------------------------------------------
\* Saves of one post are known to overlap.
SavesMeet ==
    \A r, q \in Requests : \A k \in Kinds, p \in Tagged :
        r # q /\ Saving(work[r], k, p) /\ Saving(work[q], k, p) => r \in met

SavesAreTorn ==
    \A r \in Requests : \A k \in Kinds, p \in Tagged :
        Saving(work[r], k, p) => <<k, p>> \in torn

\* A save by itself has stored its terms up to those it has left.
SavedSoFar ==
    \A r \in Requests \ met :
        LET w == work[r] IN
        w.at \in {"term", "join"} => Range(w.all) = joined[w.kind][w.post] \cup Range(w.todo)

SaveInv == SavesMeet /\ SavesAreTorn /\ SavedSoFar /\ TermsAreWhatWasSaved

LEMMA SavesStart == TaxonomyInit => SaveInv
  <1> SUFFICES ASSUME TaxonomyInit PROVE SaveInv
    OBVIOUS
  <1>1. \A r \in Requests : work[r].at = "idle"
    BY StagesApart DEF TaxonomyInit
  <1>2. joined = saved
    BY DEF TaxonomyInit
  <1> QED
    BY <1>1, <1>2, StagesApart DEF SaveInv, SavesMeet, SavesAreTorn, SavedSoFar,
                                   TermsAreWhatWasSaved, Saving

\* A step of one handler that leaves the terms of the posts alone: it ends, is at work
\* on a term, begins with a post, or has made sure of a term.
LEMMA SavesStay ==
    ASSUME TaxonomyTypeOK, SaveInv, NEW r \in Requests, NEW w,
           work' = [work EXCEPT ![r] = w], joined' = joined, saved' = saved,
           torn \subseteq torn', met \ {r} \subseteq met',
           \/ w.at \notin PostStages
           \/ /\ w.at = "clear" /\ work[r].at \notin PostStages
              /\ <<w.kind, w.post>> \in torn'
              /\ \A q \in Requests \ {r} :
                   Saving(work[q], w.kind, w.post) => q \in met' /\ r \in met'
           \/ /\ w.at = "join" /\ work[r].at = "term" /\ met \subseteq met'
              /\ w.kind = work[r].kind /\ w.post = work[r].post
              /\ w.all = work[r].all /\ w.todo = work[r].todo
    PROVE  SaveInv'
  <1>1. \A q \in Requests : work'[q] = IF q = r THEN w ELSE work[q]
    BY DEF TaxonomyTypeOK
  <1>2. {"clear", "term", "join"} = PostStages
    BY DEF PostStages
  <1>3. SavesMeet'
    BY <1>1, <1>2 DEF SaveInv, SavesMeet, Saving
  <1>4. SavesAreTorn'
    BY <1>1, <1>2 DEF SaveInv, SavesAreTorn, Saving
  <1>5. SavedSoFar'
    BY <1>1, <1>2 DEF SaveInv, SavedSoFar
  <1>6. TermsAreWhatWasSaved'
    BY DEF SaveInv, TermsAreWhatWasSaved
  <1> QED
    BY <1>3, <1>4, <1>5, <1>6 DEF SaveInv

\* A save that stores terms of its post and takes the next one, or ends.
LEMMA SaveAdvances ==
    ASSUME TaxonomyTypeOK, SaveInv, NEW r \in Requests, work[r].at \in PostStages,
           NEW todo \in Todos, NextTerm(r, todo),
           NEW T \in SUBSET TermNames,
           joined' = [joined EXCEPT ![work[r].kind][work[r].post] = T],
           r \notin met => Range(work[r].all) = T \cup Range(todo)
    PROVE  SaveInv'
  <1> DEFINE w == work[r]
             k == w.kind
             p == w.post
  <1>0. w \in Work /\ k \in Kinds /\ p \in Tagged /\ Saving(w, k, p) /\ Range(w.all) \subseteq TermNames
    <2>1. w \in Work
      BY DEF TaxonomyTypeOK
    <2>2. w.all \in Seq(TermNames)
      BY <2>1, WorkFields, SavesAreSequences
    <2>3. Range(w.all) \subseteq TermNames
      BY <2>2 DEF Range
    <2> QED
      BY <2>1, <2>3, WorkFields DEF Saving
  <1>1. \A j \in Kinds, q \in Tagged : joined'[j][q] = IF j = k /\ q = p THEN T ELSE joined[j][q]
    BY <1>0, TermsOf DEF TaxonomyTypeOK
  <1>2. {"clear", "term", "join"} = PostStages
    BY DEF PostStages
  <1>3. \A q \in Requests \ {r} : Saving(work[q], k, p) => q \in met /\ r \in met
    BY <1>0 DEF SaveInv, SavesMeet
  <1>4. ASSUME NEW v, \A q \in Requests : work'[q] = IF q = r THEN v ELSE work[q],
               met \ {r} \subseteq met', v.at \in PostStages => r \in met' <=> r \in met,
               v.at \notin PostStages \/ /\ v.at = "term" /\ v.kind = k /\ v.post = p
                                         /\ v.all = w.all /\ v.todo = todo
        PROVE  SavesMeet' /\ SavedSoFar'
    <2>1. SavesMeet'
      BY <1>0, <1>2, <1>4 DEF SaveInv, SavesMeet, Saving
    <2>2. ASSUME NEW q \in Requests \ met', work'[q].at \in {"term", "join"}
          PROVE  Range(work'[q].all) = joined'[work'[q].kind][work'[q].post] \cup Range(work'[q].todo)
      <3>1. CASE q = r
        BY <1>0, <1>1, <1>2, <1>4, <2>2, <3>1
      <3>2. CASE q # r
        <4>1. work'[q] = work[q] /\ q \notin met
          BY <1>4, <2>2, <3>2
        <4>2. work[q].kind \in Kinds /\ work[q].post \in Tagged
          BY <1>2, <2>2, <4>1, WorkFields DEF TaxonomyTypeOK
        <4>3. ~(work[q].kind = k /\ work[q].post = p)
          BY <1>2, <1>3, <2>2, <3>2, <4>1 DEF Saving
        <4> QED
          BY <1>1, <2>2, <4>1, <4>2, <4>3 DEF SaveInv, SavedSoFar
      <3> QED
        BY <3>1, <3>2
    <2> QED
      BY <2>1, <2>2 DEF SavedSoFar
  <1>5. CASE todo = <<>>
    <2>1. /\ work' = [work EXCEPT ![r] = NoWork] /\ met' = met \ {r}
          /\ torn' = IF r \in met THEN torn ELSE torn \ {<<k, p>>}
          /\ saved' = [saved EXCEPT ![k][p] = Range(w.all)]
      BY <1>5 DEF NextTerm
    <2>2. \A q \in Requests : work'[q] = IF q = r THEN NoWork ELSE work[q]
      BY <2>1 DEF TaxonomyTypeOK
    <2>3. SavesMeet' /\ SavedSoFar'
      BY <1>4, <2>1, <2>2, StagesApart
    <2>4. SavesAreTorn'
      BY <1>3, <2>1, <2>2, StagesApart DEF SaveInv, SavesAreTorn, Saving
    <2>5. \A j \in Kinds, q \in Tagged :
            saved'[j][q] = IF j = k /\ q = p THEN Range(w.all) ELSE saved[j][q]
      BY <1>0, <2>1, TermsOf DEF TaxonomyTypeOK
    <2>6. r \notin met => Range(w.all) = T
      BY <1>5 DEF Range
    <2>7. <<k, p>> \in torn
      BY <1>0 DEF SaveInv, SavesAreTorn
    <2>8. TermsAreWhatWasSaved'
      BY <1>1, <2>1, <2>5, <2>6, <2>7 DEF SaveInv, TermsAreWhatWasSaved
    <2> QED
      BY <2>3, <2>4, <2>8 DEF SaveInv
  <1>6. CASE todo # <<>>
    <2>1. /\ work' = [work EXCEPT ![r] = WithLeft(work[r], todo)]
          /\ UNCHANGED <<met, torn, saved>>
      BY <1>6 DEF NextTerm, WithLeft
    <2>2. PICK v : /\ work' = [work EXCEPT ![r] = v]
                   /\ v.at = "term" /\ v.kind = k /\ v.post = p /\ v.all = w.all /\ v.todo = todo
      BY ZenonT(30), <1>0, <1>6, <2>1, SaveGoesOn
    <2>3. \A q \in Requests : work'[q] = IF q = r THEN v ELSE work[q]
      BY <2>2 DEF TaxonomyTypeOK
    <2>4. SavesMeet' /\ SavedSoFar'
      BY <1>4, <2>1, <2>2, <2>3
    <2>5. SavesAreTorn'
      BY <1>0, <1>2, <2>1, <2>2, <2>3 DEF SaveInv, SavesAreTorn, Saving
    <2>6. <<k, p>> \in torn
      BY <1>0 DEF SaveInv, SavesAreTorn
    <2>7. TermsAreWhatWasSaved'
      BY <1>1, <2>1, <2>6 DEF SaveInv, TermsAreWhatWasSaved
    <2> QED
      BY <2>4, <2>5, <2>7 DEF SaveInv
  <1> QED
    BY <1>5, <1>6

\* A term that is deleted is taken from all posts, and disturbs the saves that name it.
LEMMA TermDeleted ==
    ASSUME TaxonomyTypeOK, SaveInv, NEW r \in Requests, NEW k \in Kinds, DeleteRow(r, k)
    PROVE  SaveInv'
  <1>1. PICK n \in TermNames :
          /\ work' = [work EXCEPT ![r] = OnTerm("remove", k, n, None)]
          /\ met \cup SavesWith(k, n) \subseteq met'
          /\ joined' = [joined EXCEPT ![k] = [p \in Tagged |-> joined[k][p] \ {n}]]
          /\ saved' = [saved EXCEPT ![k] = [p \in Tagged |-> saved[k][p] \ {n}]]
          /\ torn' = torn
    BY DEF DeleteRow
  <1>2. /\ \A q \in Requests : work'[q] = IF q = r THEN OnTerm("remove", k, n, None) ELSE work[q]
        /\ OnTerm("remove", k, n, None).at = "remove"
    BY <1>1, TermWork DEF TaxonomyTypeOK
  <1>3. \A j \in Kinds, p \in Tagged :
          /\ joined'[j][p] = IF j = k THEN joined[j][p] \ {n} ELSE joined[j][p]
          /\ saved'[j][p] = IF j = k THEN saved[j][p] \ {n} ELSE saved[j][p]
    BY <1>1 DEF TaxonomyTypeOK
  <1>4. {"clear", "term", "join"} = PostStages
    BY DEF PostStages
  <1>5. SavesMeet' /\ SavesAreTorn'
    BY <1>1, <1>2, <1>4 DEF SaveInv, SavesMeet, SavesAreTorn, Saving
  <1>6. ASSUME NEW q \in Requests \ met', work'[q].at \in {"term", "join"}
        PROVE  Range(work'[q].all) = joined'[work'[q].kind][work'[q].post] \cup Range(work'[q].todo)
    <2>1. work'[q] = work[q] /\ q \notin met /\ q \notin SavesWith(k, n)
      BY <1>1, <1>2, <1>6
    <2>2. work[q].kind \in Kinds /\ work[q].post \in Tagged
      BY <1>4, <1>6, <2>1, WorkFields DEF TaxonomyTypeOK
    <2>3. Range(work[q].all) = joined[work[q].kind][work[q].post] \cup Range(work[q].todo)
      BY <1>6, <2>1 DEF SaveInv, SavedSoFar
    <2>4. work[q].kind = k => n \notin Range(work[q].all)
      BY <1>4, <1>6, <2>1 DEF SavesWith
    <2>5. CASE work[q].kind = k
      <3>1. joined'[work[q].kind][work[q].post] = joined[work[q].kind][work[q].post] \ {n}
        BY <1>3, <2>2, <2>5
      <3>2. n \notin joined[work[q].kind][work[q].post]
        BY <2>3, <2>4, <2>5
      <3> QED
        BY <2>1, <2>3, <3>1, <3>2
    <2>6. CASE work[q].kind # k
      <3>1. joined'[work[q].kind][work[q].post] = joined[work[q].kind][work[q].post]
        BY <1>3, <2>2, <2>6
      <3> QED
        BY <2>1, <2>3, <3>1
    <2> QED
      BY <2>5, <2>6
  <1>7. TermsAreWhatWasSaved'
    <2> SUFFICES ASSUME NEW j \in Kinds, NEW p \in Tagged, <<j, p>> \notin torn'
                 PROVE  joined'[j][p] = saved'[j][p]
      BY DEF TermsAreWhatWasSaved
    <2>1. joined[j][p] = saved[j][p]
      BY <1>1 DEF SaveInv, TermsAreWhatWasSaved
    <2> QED
      BY <1>3, <2>1
  <1> QED
    BY <1>5, <1>6, <1>7 DEF SaveInv, SavedSoFar

LEMMA SavesStep == TaxonomyTypeOK /\ SaveInv /\ [TaxonomyNext]_taxonomyVars => SaveInv'
  <1> SUFFICES ASSUME TaxonomyTypeOK, SaveInv, [TaxonomyNext]_taxonomyVars PROVE SaveInv'
    OBVIOUS
  <1>a. Tag \in Kinds /\ Category \in Kinds
    BY DEF Kinds
  <1>b. /\ {"insert", "update", "read", "index", "remove"} = TermStages
        /\ {"clear", "term", "join"} = PostStages
    BY DEF TermStages, PostStages
  <1>c. \A r \in Requests : work[r] \in Work
    BY DEF TaxonomyTypeOK
  <1>1. ASSUME NEW r \in Requests, NEW k \in Kinds,
               \/ CreateFind(r, k) \/ CreateInsert(r, k) \/ UpdateGet(r, k)
               \/ UpdateRow(r, k) \/ ReadBack(r, k) \/ IndexTerm(r, k) \/ RemoveEntry(r, k)
        PROVE  SaveInv'
    <2>1. \E w : /\ work' = [work EXCEPT ![r] = w] /\ w.at \notin PostStages
                 /\ met \ {r} \subseteq met'
      <3>1. CASE CreateFind(r, k) \/ UpdateGet(r, k)
        <4>1. PICK at \in TermStages, n \in TermNames, s \in TermSlugs :
                Start(r, OnTerm(at, k, n, s), OthersOn(r, k, n))
          BY <1>b, <3>1 DEF CreateFind, UpdateGet
        <4>2. OnTerm(at, k, n, s).at \notin PostStages
          BY <4>1, TermWork, StagesApart
        <4> QED
          BY <4>1, <4>2 DEF Start
      <3>2. CASE CreateInsert(r, k) \/ UpdateRow(r, k) \/ ReadBack(r, k)
        <4>1. \/ \E b : Finish(r, b)
              \/ \E at, n, s : at \in TermStages /\ GoOn(r, OnTerm(at, k, n, s))
          BY <1>b, <3>2 DEF CreateInsert, UpdateRow, ReadBack
        <4>2. CASE \E b : Finish(r, b)
          BY <4>2, StagesApart DEF Finish
        <4>3. CASE \E at, n, s : at \in TermStages /\ GoOn(r, OnTerm(at, k, n, s))
          <5>1. PICK at, n, s : at \in TermStages /\ GoOn(r, OnTerm(at, k, n, s))
            BY <4>3
          <5>2. OnTerm(at, k, n, s).at \notin PostStages
            BY <5>1, TermWork, StagesApart
          <5> QED
            BY <5>1, <5>2 DEF GoOn
        <4> QED
          BY <4>1, <4>2, <4>3
      <3>3. CASE IndexTerm(r, k) \/ RemoveEntry(r, k)
        BY <3>3, StagesApart DEF IndexTerm, RemoveEntry
      <3> QED
        BY <1>1, <3>1, <3>2, <3>3
    <2>2. joined' = joined /\ saved' = saved /\ torn' = torn
      BY <1>1 DEF CreateFind, CreateInsert, UpdateGet, UpdateRow, ReadBack, IndexTerm, RemoveEntry
    <2> QED
      BY <2>1, <2>2, SavesStay
  <1>2. ASSUME NEW r \in Requests, NEW k \in Kinds, DeleteRow(r, k) PROVE SaveInv'
    BY <1>2, TermDeleted
  <1>3. ASSUME NEW r \in Requests, NEW k \in Kinds, SaveTerms(r, k) PROVE SaveInv'
    <2>1. PICK p \in Tagged, values \in Saves :
            /\ Start(r, OnPost("clear", k, p, values, values),
                     {q \in Requests \ {r} : Saving(work[q], k, p)})
            /\ torn' = torn \cup {<<k, p>>}
            /\ UNCHANGED <<table, entries, joined, astray, saved>>
      BY <1>3 DEF SaveTerms
    <2>2. PICK w : /\ w = OnPost("clear", k, p, values, values)
                   /\ w.at = "clear" /\ w.kind = k /\ w.post = p
      BY PostWork
    <2>3. work' = [work EXCEPT ![r] = w] /\ work[r].at \notin PostStages
      BY <2>1, <2>2, StagesApart DEF Start
    <2>4. \A q \in Requests \ {r} : Saving(work[q], k, p) => q \in met' /\ r \in met'
      BY <2>1 DEF Start
    <2>5. met \subseteq met' /\ joined' = joined /\ saved' = saved
          /\ torn \subseteq torn' /\ <<k, p>> \in torn'
      BY <2>1 DEF Start
    <2> QED
      BY <2>2, <2>3, <2>4, <2>5, SavesStay
  <1>4. ASSUME NEW r \in Requests, NEW k \in Kinds, ClearTerms(r, k) PROVE SaveInv'
    <2>1. /\ work[r].at = "clear" /\ work[r].kind = k
          /\ joined' = [joined EXCEPT ![k][work[r].post] = {}]
          /\ NextTerm(r, work[r].todo)
      BY <1>4 DEF ClearTerms
    <2>2. work[r].todo = work[r].all /\ work[r].all \in Saves
      BY <1>b, <1>c, <2>1, WorkFields
    <2>3. work[r].todo \in Todos /\ work[r].at \in PostStages
      BY <1>b, <2>1, <2>2, SavesAreSequences
    <2>4. {} \in SUBSET TermNames /\ Range(work[r].all) = {} \cup Range(work[r].todo)
      BY <2>2
    <2> QED
      BY <2>1, <2>3, <2>4, SaveAdvances
  <1>5. ASSUME NEW r \in Requests, NEW k \in Kinds, CreateImplicitly(r, k) PROVE SaveInv'
    <2>1. /\ work[r].at = "term" /\ work' = [work EXCEPT ![r] = [work[r] EXCEPT !.at = "join"]]
          /\ met \subseteq met' /\ UNCHANGED <<entries, joined, torn, saved>>
      BY <1>5 DEF CreateImplicitly
    <2>2. PICK w : /\ w = [work[r] EXCEPT !.at = "join"]
                   /\ w.at = "join" /\ w.kind = work[r].kind /\ w.post = work[r].post
                   /\ w.all = work[r].all /\ w.todo = work[r].todo
      BY <1>c, <2>1, SaveJoins
    <2> QED
      BY <2>1, <2>2, SavesStay
  <1>6. ASSUME NEW r \in Requests, NEW k \in Kinds, JoinTerm(r, k) PROVE SaveInv'
    <2>1. /\ work[r].at = "join" /\ work[r].kind = k
          /\ joined' = [joined EXCEPT ![k][work[r].post] =
                          joined[k][work[r].post] \cup {work[r].todo[1]}]
          /\ NextTerm(r, Tail(work[r].todo))
      BY <1>6 DEF JoinTerm
    <2>2. /\ work[r].at \in PostStages /\ work[r].todo \in Todos /\ work[r].todo # <<>>
          /\ work[r].kind \in Kinds /\ work[r].post \in Tagged
      BY <1>b, <1>c, <2>1, WorkFields
    <2>3. /\ work[r].todo[1] \in TermNames /\ Tail(work[r].todo) \in Todos
          /\ Range(work[r].todo) = {work[r].todo[1]} \cup Range(Tail(work[r].todo))
      BY <2>2, LeftOfTerms
    <2>4. joined[k][work[r].post] \cup {work[r].todo[1]} \in SUBSET TermNames
      BY <2>1, <2>2, <2>3 DEF TaxonomyTypeOK
    <2>5. r \notin met => Range(work[r].all) =
                            (joined[k][work[r].post] \cup {work[r].todo[1]}) \cup Range(Tail(work[r].todo))
      <3>1. r \notin met => Range(work[r].all) = joined[k][work[r].post] \cup Range(work[r].todo)
        BY <2>1 DEF SaveInv, SavedSoFar
      <3> QED
        BY <2>3, <3>1
    <2> QED
      BY <2>1, <2>2, <2>3, <2>4, <2>5, SaveAdvances
  <1>7. ASSUME NEW r \in Requests, NEW k \in Kinds, JoinRefused(r, k) PROVE SaveInv'
    BY <1>7, StagesApart, SavesStay DEF JoinRefused
  <1>8. ASSUME NEW r \in Requests, AbandonTerm(r) PROVE SaveInv'
    BY <1>8, StagesApart, SavesStay DEF AbandonTerm
  <1>9. CASE TaxonomyRestart
    BY <1>9, StagesApart DEF TaxonomyRestart, SaveInv, SavesMeet, SavesAreTorn, SavedSoFar,
                             TermsAreWhatWasSaved, Saving
  <1>10. CASE UNCHANGED taxonomyVars
    BY <1>10 DEF taxonomyVars, SaveInv, SavesMeet, SavesAreTorn, SavedSoFar,
                 TermsAreWhatWasSaved
  <1> QED
    BY <1>a, <1>1, <1>2, <1>3, <1>4, <1>5, <1>6, <1>7, <1>8, <1>9, <1>10
       DEF TaxonomyNext, TagStep, CategoryStep, SaveStep
-----------------------------------------------------------------------------
TaxonomyInv == TaxonomyTypeOK /\ TermInv /\ SaveInv

LEMMA TaxonomyInvariant == TaxonomySpec => []TaxonomyInv
  <1>1. TaxonomyInit => TaxonomyInv
    BY TaxonomyStart, TermsStart, SavesStart DEF TaxonomyInv
  <1>2. TaxonomyInv /\ [TaxonomyNext]_taxonomyVars => TaxonomyInv'
    BY TaxonomyTypesStep, TermsStep, SavesStep DEF TaxonomyInv
  <1> QED
    BY <1>1, <1>2, PTL DEF TaxonomySpec

\* Every reachable state of terms, their index and the handlers is well typed.
THEOREM TaxonomyTypesHold == TaxonomySpec => []TaxonomyTypeOK
  <1>1. TaxonomyInv => TaxonomyTypeOK
    BY DEF TaxonomyInv
  <1> QED
    BY <1>1, TaxonomyInvariant, PTL

\* The slug of a term leads to it once no handler is between the row and the index,
\* unless handlers overlapped on the term or one stopped half way.
THEOREM SlugsAlwaysLeadToTheirTerms == TaxonomySpec => []SlugLeadsToItsTerm
  <1>1. TaxonomyInv => SlugLeadsToItsTerm
    <2> SUFFICES ASSUME TaxonomyInv, NEW k \in Kinds, NEW s \in TermSlugs, NEW n \in TermNames,
                        Untouched(k, n), <<k, n>> \notin astray
                 PROVE  n \in Resolve(k, s) <=> table[k][n] = s
      BY DEF SlugLeadsToItsTerm
    <2>1. entries[k][n] = table[k][n]
      BY DEF TaxonomyInv, TermInv, IndexFollows, Untouched
    <2> QED
      BY <2>1 DEF Resolve
  <1> QED
    BY <1>1, TaxonomyInvariant, PTL

\* A post has the terms of the last save of it, less those deleted since, unless
\* saves overlapped on it, or one stopped half way or was refused for a slug.
THEOREM TermsAlwaysAreWhatWasSaved == TaxonomySpec => []TermsAreWhatWasSaved
  <1>1. TaxonomyInv => TermsAreWhatWasSaved
    BY DEF TaxonomyInv, SaveInv
  <1> QED
    BY <1>1, TaxonomyInvariant, PTL
=============================================================================
