------------------------------- MODULE ViewProofs ------------------------------
(***************************************************************************)
(* Six parts of the window, proved for all constants, and the composition  *)
(* in which they are model-checked:                                        *)
(*                                                                         *)
(* - OutlineWindow.  A read of the outline that learns of no edit and no   *)
(*   toggle brings what there is, so that it may replace what is shown.    *)
(* - FileExchange.  An operation carries what its notice will say; nothing *)
(*   that was saved, wiped or imported is undone, so it stays true.        *)
(* - Selection.  Whoever changes the selection changes the form and the    *)
(*   active pane with it; a form with unsaved input, or with a save under  *)
(*   way, is changed for another only by who was allowed to.               *)
(* - LongForm.  Only one call of save writes, the one that the others wait *)
(*   for, and as long as it does the manuscript counts as unsaved.         *)
(* - PanelReads.  Whatever makes a panel want another answer asks for it   *)
(*   or schedules what will, and makes the answers under way unwanted.     *)
(* - OutlineViewport.  The anchor of the scroll position is the place that *)
(*   is read, and stays the pending one until a frame has gone there; the  *)
(*   row with the focus is pinned, and the window reaches over the view.   *)
(***************************************************************************)
EXTENDS MCViews, Sequences, FiniteSetTheorems, WellFoundedInduction, TLAPS

-----------------------------------------------------------------------------
(* A row of the outline.                                                   *)

\* What the variables are; of a call under way, also where it is.
RowRecord == [text : Nat, collapsed : BOOLEAN]
RowRead ==
  [at : {"sent", "served"}, by : {"reload", "navigation"}, draft : Nat \cup {None},
   edited : BOOLEAN, collapsed : BOOLEAN \cup {None}, row : RowRecord \cup {None}]

RowTypeOK ==
  /\ stored \in RowRecord /\ shown \in RowRecord /\ typed \in Nat /\ saved \in Nat
  /\ saving \in [at : {"sent", "served"}, version : Nat] \cup {NoCall}
  /\ toggle \in [at : {"sent", "served"}, collapsed : BOOLEAN] \cup {NoCall}
  /\ read \in RowRead \cup {NoCall}
  /\ nav \in [at : {"flush", "read"}, version : Nat] \cup {NoCall}

\* The store has the text that was saved last, or the one that is being saved.
SavesAreRight ==
  /\ saved <= typed
  /\ saving # NoCall => saved < saving.version /\ saving.version <= typed
  /\ stored.text = IF saving.at = "served" THEN saving.version ELSE saved

\* A collapse is stored when its call is served, and shown when that is answered.
TogglesAreRight ==
  IF toggle.at = "served" THEN stored.collapsed = toggle.collapsed
                          ELSE stored.collapsed = shown.collapsed

\* A read that learns of no edit brings the text typed last, as a draft or as it is stored;
\* one that is not overtaken by a toggle brings the collapse.
ReadIsRight ==
  read # NoCall =>
    /\ read.at = "served" => read.row \in RowRecord
    /\ ~read.edited =>
         IF read.draft # None THEN read.draft = typed
         ELSE saved = typed /\ (read.at = "served" => read.row.text = typed)
    /\ toggle.at # "served" =>
         /\ read.collapsed # None => read.collapsed = stored.collapsed
         /\ read.at = "served" /\ read.collapsed = None =>
              read.row.collapsed = stored.collapsed

\* A navigation that reads has had everything saved that was typed by then.
NavIsFlushed ==
  nav # NoCall => /\ nav.version <= typed
                  /\ nav.at = "read" /\ nav.version = typed => saved = typed

RInv ==
  /\ RowTypeOK /\ SavesAreRight /\ TogglesAreRight /\ ReadIsRight /\ NavIsFlushed
  /\ TypedTextStays /\ NavigationLeavesNothingUnsaved

\* No call at all is not one of the calls.
LEMMA NoCallFields ==
  /\ NoCall.at = "none" /\ NoCall.by = "none" /\ NoCall \notin RowRead
  /\ NoCall \notin [at : {"sent", "served"}, version : Nat]
  /\ NoCall \notin [at : {"sent", "served"}, collapsed : BOOLEAN]
  /\ NoCall \notin [at : {"flush", "read"}, version : Nat]
<1>1. NoCall.at = "none" /\ NoCall.by = "none" BY DEF NoCall
<1>2. /\ \A r \in RowRead : r.at # "none"
      /\ \A r \in [at : {"sent", "served"}, version : Nat] : r.at # "none"
      /\ \A r \in [at : {"sent", "served"}, collapsed : BOOLEAN] : r.at # "none"
      /\ \A r \in [at : {"flush", "read"}, version : Nat] : r.at # "none"
  BY DEF RowRead
<1> QED BY <1>1, <1>2

\* The row begins as it is stored.
LEMMA RowInitial == ASSUME Init PROVE RInv
<1> USE NoneAssumption, NoCallFields
<1>1. RowTypeOK BY DEF Init, RowTypeOK, RowRecord
<1>2. SavesAreRight /\ TogglesAreRight BY DEF Init, SavesAreRight, TogglesAreRight
<1> QED
  BY <1>1, <1>2
  DEF Init, RInv, ReadIsRight, NavIsFlushed, TypedTextStays, NavigationLeavesNothingUnsaved

\* Typing: the text is on screen, and reads under way learn of it.
LEMMA RowType == ASSUME RInv, Type PROVE RInv'
<1> USE NoneAssumption, NoCallFields
<1>0. RowTypeOK BY DEF RInv
<1>1. /\ typed' = typed + 1 /\ shown' = [shown EXCEPT !.text = typed + 1]
      /\ read' = IF read = NoCall THEN read ELSE [read EXCEPT !.edited = TRUE]
      /\ UNCHANGED <<stored, saved, saving, toggle, nav, left>>
  BY DEF Type
<1>2. shown' \in RowRecord /\ shown'.text = typed' /\ shown'.collapsed = shown.collapsed
      /\ typed' \in Nat
  BY <1>0, <1>1 DEF RowTypeOK, RowRecord
<1>3. /\ read' \in RowRead \cup {NoCall} /\ (read' = NoCall <=> read = NoCall)
      /\ read # NoCall => /\ read'.edited /\ read'.at = read.at /\ read'.row = read.row
                          /\ read'.collapsed = read.collapsed
  BY <1>0, <1>1 DEF RowTypeOK, RowRead
<1>4. RowTypeOK' BY <1>0, <1>1, <1>2, <1>3 DEF RowTypeOK
<1>5. SavesAreRight'
  BY <1>0, <1>1 DEF RInv, SavesAreRight, RowTypeOK
<1>6. TogglesAreRight' BY <1>1, <1>2 DEF RInv, TogglesAreRight
<1>7. ReadIsRight' BY <1>1, <1>3 DEF RInv, ReadIsRight
<1>8. NavIsFlushed'
  <2> SUFFICES ASSUME nav # NoCall PROVE nav.version < typed'
    BY <1>0, <1>1 DEF NavIsFlushed, RowTypeOK
  <2> QED BY <1>0, <1>1 DEF RInv, NavIsFlushed, RowTypeOK
<1>9. TypedTextStays' /\ NavigationLeavesNothingUnsaved'
  BY <1>1, <1>2 DEF RInv, TypedTextStays, NavigationLeavesNothingUnsaved
<1> QED BY <1>4, <1>5, <1>6, <1>7, <1>8, <1>9 DEF RInv

\* The autosave.
LEMMA RowSaves ==
  ASSUME RInv, SaveStarts \/ SaveServed \/ SaveAnswered \/ SaveFails PROVE RInv'
<1> USE NoneAssumption, NoCallFields
<1>0. RowTypeOK BY DEF RInv
<1>1. UNCHANGED <<shown, typed, toggle, read, left>>
  BY DEF SaveStarts, SaveServed, SaveAnswered, SaveFails
<1>2. /\ saving' \in [at : {"sent", "served"}, version : Nat] \cup {NoCall}
      /\ SavesAreRight' /\ saved' \in Nat /\ stored' \in RowRecord
      /\ stored'.collapsed = stored.collapsed
      /\ saved = typed => saved' = typed
  <2>1. CASE SaveStarts
    <3>1. /\ saved < typed /\ saving = NoCall /\ saving' = [at |-> "sent", version |-> typed]
          /\ UNCHANGED <<stored, saved, typed>>
      BY <2>1 DEF SaveStarts, Unsaved
    <3>2. saving'.at = "sent" /\ saving'.version = typed BY <3>1
    <3> QED BY <1>0, <3>1, <3>2 DEF RInv, SavesAreRight, RowTypeOK
  <2>2. CASE SaveServed
    <3>1. /\ saving.at = "sent" /\ stored' = [stored EXCEPT !.text = saving.version]
          /\ saving' = [saving EXCEPT !.at = "served"] /\ UNCHANGED <<saved, typed>>
      BY <2>2 DEF SaveServed
    <3>2. saving \in [at : {"sent", "served"}, version : Nat] BY <1>0, <3>1 DEF RowTypeOK
    <3>3. /\ saving' \in [at : {"sent", "served"}, version : Nat]
          /\ saving'.at = "served" /\ saving'.version = saving.version
      BY <3>1, <3>2
    <3>4. /\ stored' \in RowRecord /\ stored'.text = saving.version
          /\ stored'.collapsed = stored.collapsed
      BY <1>0, <3>1, <3>2 DEF RowTypeOK, RowRecord
    <3> QED BY <1>0, <3>1, <3>2, <3>3, <3>4 DEF RInv, SavesAreRight, RowTypeOK
  <2>3. CASE SaveAnswered
    <3>1. /\ saving.at = "served" /\ saved' = saving.version /\ saving' = NoCall
          /\ UNCHANGED <<stored, typed>>
      BY <2>3 DEF SaveAnswered
    <3>2. saving \in [at : {"sent", "served"}, version : Nat] BY <1>0, <3>1 DEF RowTypeOK
    <3> QED BY <1>0, <3>1, <3>2 DEF RInv, SavesAreRight, RowTypeOK
  <2>4. CASE SaveFails
    <3>1. saving.at = "sent" /\ saving' = NoCall /\ UNCHANGED <<stored, saved, typed>>
      BY <2>4 DEF SaveFails
    <3> QED BY <1>0, <3>1 DEF RInv, SavesAreRight, RowTypeOK
  <2> QED BY <2>1, <2>2, <2>3, <2>4
<1>3. nav' = nav \/ nav' = NoCall BY DEF SaveStarts, SaveServed, SaveAnswered, SaveFails
<1>4. RowTypeOK' BY <1>0, <1>1, <1>2, <1>3 DEF RowTypeOK
<1>5. TogglesAreRight' BY <1>1, <1>2 DEF RInv, TogglesAreRight
<1>6. ReadIsRight' BY <1>1, <1>2 DEF RInv, ReadIsRight
<1>7. NavIsFlushed' BY <1>1, <1>2, <1>3 DEF RInv, NavIsFlushed
<1>8. TypedTextStays' /\ NavigationLeavesNothingUnsaved'
  BY <1>1 DEF RInv, TypedTextStays, NavigationLeavesNothingUnsaved
<1> QED BY <1>2, <1>4, <1>5, <1>6, <1>7, <1>8 DEF RInv

\* A toggle is asked for, served, answered or refused.
LEMMA RowToggles ==
  ASSUME RInv, Toggle \/ ToggleServed \/ ToggleAnswered \/ ToggleFails PROVE RInv'
<1> USE NoneAssumption, NoCallFields
<1>0. RowTypeOK BY DEF RInv
<1>1. UNCHANGED <<typed, saved, saving, nav, left>>
  BY DEF Toggle, ToggleServed, ToggleAnswered, ToggleFails
<1>2. /\ toggle' \in [at : {"sent", "served"}, collapsed : BOOLEAN] \cup {NoCall}
      /\ TogglesAreRight' /\ ReadIsRight'
      /\ stored' \in RowRecord /\ shown' \in RowRecord /\ read' \in RowRead \cup {NoCall}
      /\ stored'.text = stored.text /\ shown'.text = shown.text
  <2>1. CASE Toggle
    <3>1. /\ toggle = NoCall /\ toggle' = [at |-> "sent", collapsed |-> ~shown.collapsed]
          /\ UNCHANGED <<stored, shown, read>>
      BY <2>1 DEF Toggle
    <3>2. toggle'.at = "sent" BY <3>1
    <3> QED BY <1>0, <1>1, <3>1, <3>2 DEF RInv, TogglesAreRight, ReadIsRight, RowTypeOK
  <2>2. CASE ToggleServed
    <3>1. /\ toggle.at = "sent" /\ stored' = [stored EXCEPT !.collapsed = toggle.collapsed]
          /\ toggle' = [toggle EXCEPT !.at = "served"] /\ UNCHANGED <<shown, read>>
      BY <2>2 DEF ToggleServed
    <3>2. toggle \in [at : {"sent", "served"}, collapsed : BOOLEAN] BY <1>0, <3>1 DEF RowTypeOK
    <3>3. /\ toggle' \in [at : {"sent", "served"}, collapsed : BOOLEAN]
          /\ toggle'.at = "served" /\ toggle'.collapsed = toggle.collapsed
      BY <3>1, <3>2
    <3>4. /\ stored' \in RowRecord /\ stored'.text = stored.text
          /\ stored'.collapsed = toggle.collapsed
      BY <1>0, <3>1, <3>2 DEF RowTypeOK, RowRecord
    <3> QED BY <1>0, <1>1, <3>1, <3>3, <3>4 DEF RInv, TogglesAreRight, ReadIsRight, RowTypeOK
  <2>3. CASE ToggleAnswered
    <3>1. /\ toggle.at = "served" /\ toggle' = NoCall
          /\ shown' = [shown EXCEPT !.collapsed = toggle.collapsed]
          /\ read' = recordCollapsed(read, toggle.collapsed) /\ UNCHANGED stored
      BY <2>3 DEF ToggleAnswered
    <3>2. toggle \in [at : {"sent", "served"}, collapsed : BOOLEAN] BY <1>0, <3>1 DEF RowTypeOK
    <3>3. /\ shown' \in RowRecord /\ shown'.text = shown.text
          /\ shown'.collapsed = toggle.collapsed
      BY <1>0, <3>1, <3>2 DEF RowTypeOK, RowRecord
    <3>4. stored.collapsed = toggle.collapsed BY <3>1 DEF RInv, TogglesAreRight
    <3>5. CASE read = NoCall
      BY <1>0, <3>1, <3>3, <3>4, <3>5
      DEF recordCollapsed, TogglesAreRight, ReadIsRight, RowTypeOK
    <3>6. CASE read # NoCall
      <4>1. read' = [read EXCEPT !.collapsed = toggle.collapsed] /\ read \in RowRead
        BY <1>0, <3>1, <3>6 DEF recordCollapsed, RowTypeOK
      <4>2. /\ read' \in RowRead /\ read'.at = read.at /\ read'.row = read.row
            /\ read'.edited = read.edited /\ read'.draft = read.draft
            /\ read'.collapsed = toggle.collapsed
        BY <3>2, <4>1 DEF RowRead
      <4>3. read'.collapsed # None BY <3>2, <4>2
      <4>4. TogglesAreRight' BY <3>1, <3>3, <3>4 DEF TogglesAreRight
      <4>5. ReadIsRight'
        BY <1>1, <3>1, <3>4, <3>6, <4>2, <4>3 DEF RInv, ReadIsRight
      <4> QED BY <1>0, <3>1, <3>3, <4>2, <4>4, <4>5 DEF RowTypeOK
    <3> QED BY <3>5, <3>6
  <2>4. CASE ToggleFails
    <3>1. toggle.at = "sent" /\ toggle' = NoCall /\ UNCHANGED <<stored, shown, read>>
      BY <2>4 DEF ToggleFails
    <3> QED BY <1>0, <1>1, <3>1 DEF RInv, TogglesAreRight, ReadIsRight, RowTypeOK
  <2> QED BY <2>1, <2>2, <2>3, <2>4
<1>3. RowTypeOK' BY <1>0, <1>1, <1>2 DEF RowTypeOK
<1>4. SavesAreRight' BY <1>1, <1>2 DEF RInv, SavesAreRight
<1>5. NavIsFlushed' BY <1>1 DEF RInv, NavIsFlushed
<1>6. TypedTextStays' /\ NavigationLeavesNothingUnsaved'
  BY <1>1, <1>2 DEF RInv, TypedTextStays, NavigationLeavesNothingUnsaved
<1> QED BY <1>2, <1>3, <1>4, <1>5, <1>6 DEF RInv

\* A read takes the drafts that there are when it begins.
LEMMA BegunFields ==
  ASSUME RInv, NEW by \in {"reload", "navigation"}
  PROVE  /\ Begun(by) \in RowRead /\ Begun(by).at = "sent" /\ ~Begun(by).edited
         /\ Begun(by).collapsed = None
         /\ IF Begun(by).draft # None THEN Begun(by).draft = typed ELSE saved = typed
<1> USE NoneAssumption
<1>1. PICK draft : draft = IF Unsaved THEN typed ELSE None OBVIOUS
<1>2. /\ draft \in Nat \cup {None}
      /\ IF draft # None THEN draft = typed ELSE saved = typed
  BY <1>1 DEF RInv, RowTypeOK, SavesAreRight, Unsaved
<1>3. Begun(by) = [at |-> "sent", by |-> by, draft |-> draft, edited |-> FALSE,
                   collapsed |-> None, row |-> None]
  BY <1>1 DEF Begun
<1> QED BY <1>2, <1>3 DEF RowRead

\* A read begins, is served or fails; a navigation flushes, reads or is revoked.
LEMMA RowReads ==
  ASSUME RInv, Reload \/ ReadServed \/ ReadFails \/ Navigate \/ Flushed \/ NavigationRevoked
  PROVE  RInv'
<1> USE NoneAssumption, NoCallFields
<1>0. RowTypeOK BY DEF RInv
<1>1. UNCHANGED <<stored, shown, typed, saved, saving, toggle, left>>
  BY DEF Reload, ReadServed, ReadFails, Navigate, Flushed, NavigationRevoked
<1>2. read' \in RowRead \cup {NoCall} /\ ReadIsRight'
  <2>1. CASE Reload \/ Flushed
    <3>1. PICK by \in {"reload", "navigation"} : read' = Begun(by)
      BY <2>1 DEF Reload, Flushed
    <3> QED BY <1>1, <3>1, BegunFields DEF ReadIsRight
  <2>2. CASE ReadServed
    <3>1. read.at = "sent" /\ read' = [read EXCEPT !.at = "served", !.row = stored]
      BY <2>2 DEF ReadServed
    <3>2. read \in RowRead BY <1>0, <3>1 DEF RowTypeOK
    <3>3. /\ read' \in RowRead /\ read'.at = "served" /\ read'.row = stored
          /\ read'.edited = read.edited /\ read'.draft = read.draft
          /\ read'.collapsed = read.collapsed
      BY <1>0, <3>1, <3>2 DEF RowTypeOK, RowRead
    <3>4. saved = typed => stored.text = typed
      BY <1>0 DEF RInv, SavesAreRight, RowTypeOK
    <3>5. read # NoCall BY <3>2
    <3>6. stored \in RowRecord BY <1>0 DEF RowTypeOK
    <3> QED BY <1>1, <3>3, <3>4, <3>5, <3>6 DEF RInv, ReadIsRight
  <2>3. CASE ReadFails \/ Navigate BY <2>3 DEF ReadFails, Navigate, ReadIsRight
  <2>4. CASE NavigationRevoked
    BY <1>0, <1>1, <2>4 DEF NavigationRevoked, RInv, ReadIsRight, RowTypeOK
  <2> QED BY <2>1, <2>2, <2>3, <2>4
<1>3. nav' \in [at : {"flush", "read"}, version : Nat] \cup {NoCall} /\ NavIsFlushed'
  <2>1. CASE nav' = nav \/ nav' = NoCall BY <1>0, <1>1, <2>1 DEF RowTypeOK, RInv, NavIsFlushed
  <2>2. CASE Navigate
    <3>1. nav' = [at |-> "flush", version |-> typed] BY <2>2 DEF Navigate
    <3>2. nav'.at = "flush" /\ nav'.version = typed BY <3>1
    <3> QED BY <1>0, <1>1, <3>1, <3>2 DEF RowTypeOK, NavIsFlushed
  <2>3. CASE Flushed
    <3>1. nav.at = "flush" /\ saved >= typed /\ nav' = [nav EXCEPT !.at = "read"]
      BY <1>0, <2>3 DEF Flushed, Unsaved, RowTypeOK
    <3>2. nav \in [at : {"flush", "read"}, version : Nat] BY <1>0, <3>1 DEF RowTypeOK
    <3>3. nav' \in [at : {"flush", "read"}, version : Nat] /\ nav'.version = nav.version
      BY <3>1, <3>2
    <3>4. saved = typed BY <1>0, <3>1 DEF RInv, SavesAreRight, RowTypeOK
    <3> QED BY <1>1, <3>2, <3>3, <3>4 DEF RInv, NavIsFlushed
  <2> QED BY <2>1, <2>2, <2>3 DEF Reload, ReadServed, ReadFails, NavigationRevoked
<1>4. RowTypeOK' BY <1>0, <1>1, <1>2, <1>3 DEF RowTypeOK
<1>5. SavesAreRight' /\ TogglesAreRight' BY <1>1 DEF RInv, SavesAreRight, TogglesAreRight
<1>6. TypedTextStays' /\ NavigationLeavesNothingUnsaved'
  BY <1>1 DEF RInv, TypedTextStays, NavigationLeavesNothingUnsaved
<1> QED BY <1>2, <1>3, <1>4, <1>5, <1>6 DEF RInv

\* What a read publishes is the text typed last and the collapse as it is shown or stored.
LEMMA PublishedIsRight ==
  ASSUME RInv, read.at = "served"
  PROVE  /\ Published(read) \in RowRecord /\ Published(read).text = typed
         /\ toggle.at # "served" => Published(read).collapsed = stored.collapsed
<1> USE NoneAssumption, NoCallFields
<1>0. RowTypeOK BY DEF RInv
<1>1. read \in RowRead /\ read # NoCall BY <1>0 DEF RowTypeOK
<1>2. read.row \in RowRecord BY <1>1 DEF RInv, ReadIsRight
<1>3. publishedText(read) = typed
  <2>1. CASE read.edited BY <2>1 DEF publishedText, RInv, TypedTextStays
  <2>2. CASE ~read.edited BY <1>1, <2>2 DEF publishedText, RInv, ReadIsRight
  <2> QED BY <2>1, <2>2
<1>4. PICK collapsed : collapsed = IF read.collapsed # None THEN read.collapsed
             ELSE read.row.collapsed
  OBVIOUS
<1>5. collapsed \in BOOLEAN /\ (toggle.at # "served" => collapsed = stored.collapsed)
  <2>1. collapsed \in BOOLEAN BY <1>1, <1>2, <1>4 DEF RowRead, RowRecord
  <2>2. toggle.at # "served" => collapsed = stored.collapsed
    BY <1>1, <1>4 DEF RInv, ReadIsRight
  <2> QED BY <2>1, <2>2
<1>6. Published(read) = [text |-> typed, collapsed |-> collapsed] BY <1>3, <1>4 DEF Published
<1> QED BY <1>0, <1>5, <1>6 DEF RowRecord, RowTypeOK

\* A read that is published, alone or by a navigation that commits.
LEMMA RowPublishes == ASSUME RInv, ReloadPublishes \/ Refreshed PROVE RInv'
<1> USE NoneAssumption, NoCallFields
<1>0. RowTypeOK BY DEF RInv
<1>1. read.at = "served" /\ UNCHANGED <<stored, typed, saved, saving, toggle>>
  BY DEF ReloadPublishes, Refreshed
<1>2. SavesAreRight' BY <1>1 DEF RInv, SavesAreRight
<1>3. CASE shown' = Published(read) /\ read' = NoCall /\ (nav' = nav \/ nav' = NoCall)
           /\ left' = left
  <2>1. PICK row : row = Published(read) OBVIOUS
  <2>2. /\ row \in RowRecord /\ row.text = typed
        /\ toggle.at # "served" => row.collapsed = stored.collapsed
    BY <1>1, <2>1, PublishedIsRight
  <2>3. shown' = row BY <1>3, <2>1
  <2>4. RowTypeOK' BY <1>0, <1>1, <1>3, <2>2, <2>3 DEF RowTypeOK
  <2>5. TogglesAreRight' BY <1>1, <2>2, <2>3 DEF RInv, TogglesAreRight
  <2>6. ReadIsRight' BY <1>3 DEF ReadIsRight
  <2>7. NavIsFlushed' BY <1>1, <1>3 DEF RInv, NavIsFlushed
  <2>8. TypedTextStays' /\ NavigationLeavesNothingUnsaved'
    BY <1>1, <1>3, <2>2, <2>3 DEF RInv, TypedTextStays, NavigationLeavesNothingUnsaved
  <2> QED BY <1>2, <2>4, <2>5, <2>6, <2>7, <2>8 DEF RInv
<1>4. CASE nav' = [at |-> "flush", version |-> typed] /\ UNCHANGED <<shown, read, left>>
  <2>1. nav'.at = "flush" /\ nav'.version = typed BY <1>4
  <2>2. nav' \in [at : {"flush", "read"}, version : Nat] BY <1>0, <1>4 DEF RowTypeOK
  <2>3. RowTypeOK' BY <1>0, <1>1, <1>4, <2>2 DEF RowTypeOK
  <2>4. NavIsFlushed' BY <1>0, <1>1, <2>1 DEF NavIsFlushed, RowTypeOK
  <2>5. TogglesAreRight' /\ ReadIsRight' BY <1>1, <1>4 DEF RInv, TogglesAreRight, ReadIsRight
  <2>6. TypedTextStays' /\ NavigationLeavesNothingUnsaved'
    BY <1>1, <1>4 DEF RInv, TypedTextStays, NavigationLeavesNothingUnsaved
  <2> QED BY <1>2, <2>3, <2>4, <2>5, <2>6 DEF RInv
<1>5. CASE ReloadPublishes BY <1>3, <1>5 DEF ReloadPublishes
<1>6. CASE Refreshed
  <2>1. nav.at = "read" /\ nav.version = typed => ~Unsaved
    <3>1. nav.at = "read" => nav # NoCall OBVIOUS
    <3> QED BY <1>0, <3>1 DEF RInv, NavIsFlushed, Unsaved, RowTypeOK
  <2> QED BY <1>3, <1>4, <1>6, <2>1 DEF Refreshed, sameVersion
<1> QED BY <1>5, <1>6

\* Every step of the row keeps the invariant.
LEMMA RowStep == ASSUME RInv, [Next]_vars PROVE RInv'
<1>1. CASE Next BY <1>1, RowType, RowSaves, RowToggles, RowReads, RowPublishes DEF Next
<1>2. CASE UNCHANGED vars
  BY <1>2
  DEF vars, RInv, RowTypeOK, SavesAreRight, TogglesAreRight, ReadIsRight, NavIsFlushed,
      TypedTextStays, NavigationLeavesNothingUnsaved
<1> QED BY <1>1, <1>2

\* The invariant says that the row is up to date.
LEMMA RowIsRight ==
  ASSUME RInv
  PROVE  TypedTextStays /\ CollapseShownIsStored /\ NavigationLeavesNothingUnsaved
BY NoCallFields DEF RInv, TogglesAreRight, CollapseShownIsStored

-----------------------------------------------------------------------------
(* Files.                                                                  *)

\* What the variables are.
FileStore == [text : Nat, changes : Nat]
FileOp ==
  [id : Nat, of : Files!Controllers, kind : {"export", "import"},
   at : {"flush", "text", "call", "answered", "relations", "reload"}, since : Nat, got : Nat]
FileRead ==
  [at : {"sent", "served"}, by : Nat, since : Nat, draft : BOOLEAN,
   snapshot : FileStore \cup {None}]

FileTypeOK ==
  /\ typed \in Nat /\ saved \in Nat /\ wiped \in Nat /\ requested \in Nat
  /\ stored \in FileStore /\ shown \in FileStore /\ read \in FileRead \cup {Files!NoRead}
  /\ operations \subseteq FileOp /\ generation \in [Files!Controllers -> Nat]
  /\ notice \in [Files!Controllers -> FileOp \cup {None}]

\* The texts of the store and of the screen are the ones saved and typed last, unless a
\* restore has replaced those.
TextsAreRight ==
  /\ saved <= typed /\ wiped <= saved
  /\ stored.text = saved \/ saved <= wiped
  /\ shown.text = typed \/ typed <= wiped
  /\ shown.changes <= stored.changes

\* What a read brings is as new as what is shown.
FileReadIsRight ==
  read # Files!NoRead =>
    /\ read.since <= typed
    /\ ~read.draft /\ read.since = typed => saved = typed
    /\ read.at = "served" =>
         /\ read.snapshot \in FileStore
         /\ shown.changes <= read.snapshot.changes /\ read.snapshot.changes <= stored.changes
         /\ ~read.draft /\ read.since = typed => read.snapshot.text = typed \/ typed <= wiped

\* What an operation has to show for itself: the text it exports has what was typed
\* before it, unless a restore replaced that, and what it imported is in the store.
FileOpIsRight(o) ==
  /\ o.of = "markdown" => o.kind = "export"
  /\ o.at # "flush" => o.since <= saved
  /\ o.at = "answered" /\ o.kind = "export" => o.got >= o.since \/ o.since <= wiped
  /\ o.at \in {"answered", "relations", "reload"} /\ o.kind = "import" => o.got <= stored.changes
  /\ o.at \in {"relations", "reload"} => o.kind = "import"

\* The read of an import has what was imported.
ReadReaches(o) ==
  o.at = "reload" /\ read.at = "served" /\ read.by = o.id => o.got <= read.snapshot.changes

FInv ==
  /\ FileTypeOK /\ TextsAreRight /\ FileReadIsRight /\ Files!NoticesAreTrue
  /\ \A o \in operations : FileOpIsRight(o) /\ ReadReaches(o)

\* No read at all is not one of the reads.
LEMMA NoReadFields == Files!NoRead.at = "none" /\ Files!NoRead.by = 0
/\ Files!NoRead \notin FileRead
<1>1. Files!NoRead.at = "none" /\ Files!NoRead.by = 0 BY DEF Files!NoRead
<1>2. \A r \in FileRead : r.at # "none" BY DEF FileRead
<1> QED BY <1>1, <1>2

\* There is nothing to announce at first.
LEMMA FilesInitial == ASSUME Files!Init PROVE FInv
<1>1. stored = [text |-> 0, changes |-> 0] /\ shown = stored BY DEF Files!Init
<1>2. stored \in FileStore /\ stored.text = 0 /\ stored.changes = 0 BY <1>1 DEF FileStore
<1>3. FileTypeOK BY <1>1, <1>2 DEF Files!Init, FileTypeOK
<1>4. TextsAreRight BY <1>1, <1>2 DEF Files!Init, TextsAreRight
<1>5. Files!NoticesAreTrue BY DEF Files!Init, Files!NoticesAreTrue
<1> QED BY <1>3, <1>4, <1>5 DEF Files!Init, FInv, FileReadIsRight

\* What is so of an operation stays so: nothing that was saved, wiped or imported is undone.
LEMMA OpStaysRight ==
  ASSUME FileTypeOK, FileTypeOK', NEW o \in FileOp, FileOpIsRight(o),
         saved <= saved', wiped <= wiped', stored.changes <= stored'.changes
  PROVE  FileOpIsRight(o)'
<1>1. o.since \in Nat /\ o.got \in Nat BY DEF FileOp
<1>2. saved \in Nat /\ saved' \in Nat /\ wiped \in Nat /\ wiped' \in Nat
      /\ stored.changes \in Nat /\ stored'.changes \in Nat
  BY DEF FileTypeOK, FileStore
<1> QED BY <1>1, <1>2 DEF FileOpIsRight

\* A notice stays true as long as it is the newest of its controller.
LEMMA NoticesStay ==
  ASSUME FInv, FileTypeOK', notice' = notice, generation' = generation,
         wiped <= wiped', shown.changes <= shown'.changes
  PROVE  Files!NoticesAreTrue'
<1> SUFFICES ASSUME NEW c \in Files!Controllers, notice[c] # None
             PROVE  LET o == notice[c] IN
                      /\ o.id = generation[c]
                      /\ o.kind = "import" => shown'.changes >= o.got
                      /\ o.kind = "export" => o.got >= o.since \/ o.since <= wiped'
  BY DEF Files!NoticesAreTrue
<1>1. PICK o : o = notice[c] OBVIOUS
<1>2. o \in FileOp BY <1>1 DEF FInv, FileTypeOK
<1>3. o.since \in Nat /\ o.got \in Nat BY <1>2 DEF FileOp
<1>4. /\ o.id = generation[c]
      /\ o.kind = "import" => shown.changes >= o.got
      /\ o.kind = "export" => o.got >= o.since \/ o.since <= wiped
  BY <1>1 DEF FInv, Files!NoticesAreTrue
<1>5. wiped \in Nat /\ wiped' \in Nat /\ shown.changes \in Nat /\ shown'.changes \in Nat
  BY DEF FInv, FileTypeOK, FileStore
<1> QED BY <1>1, <1>3, <1>4, <1>5

\* Typing and saving.
LEMMA FilesType == ASSUME FInv, Files!Type PROVE FInv'
<1> USE NoReadFields
<1>0. FileTypeOK BY DEF FInv
<1>1. /\ typed' = typed + 1 /\ shown' = [shown EXCEPT !.text = typed + 1]
      /\ UNCHANGED <<saved, stored, read, operations, generation, notice, requested, wiped>>
  BY DEF Files!Type
<1>2. shown' \in FileStore /\ shown'.text = typed' /\ shown'.changes = shown.changes
      /\ typed' \in Nat
  BY <1>0, <1>1 DEF FileTypeOK, FileStore
<1>3. FileTypeOK' BY <1>0, <1>1, <1>2 DEF FileTypeOK
<1>4. shown.changes \in Nat BY <1>0 DEF FileTypeOK, FileStore
<1>5. TextsAreRight' BY <1>0, <1>1, <1>2 DEF FInv, TextsAreRight, FileTypeOK
<1>6. FileReadIsRight'
  <2> SUFFICES ASSUME read # Files!NoRead PROVE FileReadIsRight' BY <1>1 DEF FileReadIsRight
  <2>1. read.since \in Nat /\ read.since <= typed
    BY <1>0 DEF FInv, FileReadIsRight, FileTypeOK, FileRead
  <2>2. read.since <= typed' /\ read.since # typed' BY <1>0, <1>1, <2>1 DEF FileTypeOK
  <2> QED BY <1>1, <1>2, <2>2 DEF FInv, FileReadIsRight
<1>7. Files!NoticesAreTrue' BY <1>0, <1>1, <1>2, <1>3, <1>4, NoticesStay DEF FileTypeOK
<1>8. ASSUME NEW o \in operations' PROVE FileOpIsRight(o)' /\ ReadReaches(o)'
  BY <1>1 DEF FInv, FileOpIsRight, ReadReaches
<1> QED BY <1>3, <1>5, <1>6, <1>7, <1>8 DEF FInv

LEMMA FilesSave == ASSUME FInv, Files!Save PROVE FInv'
<1> USE NoReadFields
<1>0. FileTypeOK BY DEF FInv
<1>1. /\ saved < typed /\ saved' = typed /\ stored' = [stored EXCEPT !.text = typed]
      /\ UNCHANGED <<typed, shown, read, operations, generation, notice, requested, wiped>>
  BY DEF Files!Save
<1>2. stored' \in FileStore /\ stored'.text = typed /\ stored'.changes = stored.changes
  BY <1>0, <1>1 DEF FileTypeOK, FileStore
<1>3. FileTypeOK' BY <1>0, <1>1, <1>2 DEF FileTypeOK
<1>4. shown.changes \in Nat /\ stored.changes \in Nat BY <1>0 DEF FileTypeOK, FileStore
<1>5. TextsAreRight' BY <1>0, <1>1, <1>2 DEF FInv, TextsAreRight, FileTypeOK
<1>6. FileReadIsRight' BY <1>1, <1>2 DEF FInv, FileReadIsRight
<1>7. Files!NoticesAreTrue' BY <1>0, <1>1, <1>3, <1>4, NoticesStay DEF FileTypeOK
<1>8. saved <= saved' /\ wiped <= wiped' /\ stored.changes <= stored'.changes
  BY <1>0, <1>1, <1>2, <1>4 DEF FileTypeOK
<1>9. ASSUME NEW o \in operations' PROVE FileOpIsRight(o)' /\ ReadReaches(o)'
  <2>1. o \in operations /\ o \in FileOp /\ FileOpIsRight(o) /\ ReadReaches(o)
    BY <1>0, <1>1 DEF FInv, FileTypeOK
  <2> QED BY <1>0, <1>1, <1>3, <1>8, <2>1, OpStaysRight DEF ReadReaches
<1> QED BY <1>3, <1>5, <1>6, <1>7, <1>9 DEF FInv

\* An operation is asked for; the notice of the last one of its controller goes.
LEMMA FilesRequest ==
  ASSUME FInv, NEW c \in Files!Controllers,
         NEW kind \in {"export", "import"}, Files!Request(c, kind),
         c = "markdown" => kind = "export"
  PROVE  FInv'
<1>0. FileTypeOK BY DEF FInv
<1>1. PICK o : o = [id |-> requested + 1, of |-> c, kind |-> kind, at |-> "flush",
                    since |-> typed, got |-> 0]
  OBVIOUS
<1>2. /\ requested' = requested + 1
      /\ generation' = [generation EXCEPT ![c] = requested + 1]
      /\ notice' = [notice EXCEPT ![c] = None] /\ operations' = operations \cup {o}
      /\ UNCHANGED <<typed, saved, stored, shown, read, wiped>>
  BY <1>1 DEF Files!Request
<1>3. o \in FileOp /\ o.of = c /\ o.kind = kind /\ o.at = "flush"
  BY <1>0, <1>1 DEF FileOp, FileTypeOK
<1>4. FileTypeOK'
  <2>1. requested' \in Nat BY <1>0, <1>2 DEF FileTypeOK
  <2>2. generation' \in [Files!Controllers -> Nat] BY <1>0, <1>2 DEF FileTypeOK
  <2>3. notice' \in [Files!Controllers -> FileOp \cup {None}] BY <1>0, <1>2 DEF FileTypeOK
  <2> QED BY <1>0, <1>2, <1>3, <2>1, <2>2, <2>3 DEF FileTypeOK
<1>5. TextsAreRight' /\ FileReadIsRight' BY <1>2 DEF FInv, TextsAreRight, FileReadIsRight
<1>6. Files!NoticesAreTrue'
  <2> SUFFICES ASSUME NEW d \in Files!Controllers, notice'[d] # None
               PROVE  notice'[d] = notice[d] /\ generation'[d] = generation[d]
    BY <1>2 DEF FInv, Files!NoticesAreTrue
  <2> QED BY <1>0, <1>2 DEF FileTypeOK
<1>7. FileOpIsRight(o)' /\ ReadReaches(o)' BY <1>3 DEF FileOpIsRight, ReadReaches
<1>8. ASSUME NEW p \in operations PROVE FileOpIsRight(p)' /\ ReadReaches(p)'
  BY <1>2 DEF FInv, FileOpIsRight, ReadReaches
<1> QED BY <1>2, <1>4, <1>5, <1>6, <1>7, <1>8 DEF FInv

\* A read that begins.
LEMMA BegunRight ==
  ASSUME FInv, NEW id \in Nat
  PROVE  /\ Files!Begun(id) \in FileRead /\ Files!Begun(id).at = "sent"
         /\ Files!Begun(id).since = typed
         /\ ~Files!Begun(id).draft => saved = typed
<1>1. saved <= typed /\ saved \in Nat /\ typed \in Nat BY DEF FInv, TextsAreRight, FileTypeOK
<1>2. PICK draft \in BOOLEAN : draft <=> saved < typed OBVIOUS
<1>3. Files!Begun(id) = [at |-> "sent", by |-> id, since |-> typed, draft |-> draft,
        snapshot |-> None]
  <2>1. (saved < typed) \in BOOLEAN BY <1>1
  <2>2. draft = (saved < typed) BY <1>2, <2>1
  <2> QED BY <2>2 DEF Files!Begun
<1> QED BY <1>1, <1>2, <1>3 DEF FileRead

\* Operations that go on, and reads that begin or are dropped.
LEMMA FilesGoOn ==
  ASSUME FInv, UNCHANGED <<typed, saved, stored, shown, generation, notice, requested, wiped>>,
         \/ read' = read \/ read' = Files!NoRead
         \/ \E id \in Nat : read' = Files!Begun(id),
         \A p \in operations' \ operations :
           p \in FileOp /\ FileOpIsRight(p) /\ (p.at = "reload" => read'.at # "served")
  PROVE  FInv'
<1> USE NoReadFields
<1>0. FileTypeOK BY DEF FInv
<1>1. /\ read' = read \/ (read' \in FileRead \cup {Files!NoRead} /\ read'.at # "served")
      /\ FileReadIsRight'
  <2>1. CASE read' = read BY <2>1 DEF FInv, FileReadIsRight
  <2>2. CASE read' = Files!NoRead BY <2>2 DEF FileReadIsRight
  <2>3. CASE \E id \in Nat : read' = Files!Begun(id)
    <3>1. PICK id \in Nat : read' = Files!Begun(id) BY <2>3
    <3>2. /\ read' \in FileRead /\ read'.at = "sent" /\ read'.since = typed
          /\ ~read'.draft => saved = typed
      BY <3>1, BegunRight
    <3>3. typed <= typed BY <1>0 DEF FileTypeOK
    <3> QED BY <3>2, <3>3 DEF FileReadIsRight
  <2> QED BY <2>1, <2>2, <2>3
<1>2. operations' \subseteq FileOp BY <1>0 DEF FileTypeOK
<1>3. FileTypeOK' BY <1>0, <1>1, <1>2 DEF FileTypeOK
<1>4. TextsAreRight' /\ Files!NoticesAreTrue' BY DEF FInv, TextsAreRight, Files!NoticesAreTrue
<1>5. ASSUME NEW p \in operations' PROVE FileOpIsRight(p)' /\ ReadReaches(p)'
  <2>1. FileOpIsRight(p)' <=> FileOpIsRight(p) BY DEF FileOpIsRight
  <2>2. CASE p \in operations BY <1>1, <2>1, <2>2 DEF FInv, ReadReaches
  <2>3. CASE p \notin operations BY <1>1, <2>1, <2>3 DEF ReadReaches
  <2> QED BY <2>2, <2>3
<1> QED BY <1>1, <1>3, <1>4, <1>5 DEF FInv

\* The operations, from the flush to the answer.
LEMMA FilesFlushEnds == ASSUME FInv, NEW o \in operations, Files!FlushEnds(o) PROVE FInv'
<1>0. FileTypeOK /\ o \in FileOp /\ FileOpIsRight(o) BY DEF FInv, FileTypeOK
<1>1. /\ saved >= o.since /\ Files!AfterFlush(o)
      /\ UNCHANGED <<typed, saved, stored, shown, read, generation, notice, requested, wiped>>
  BY DEF Files!FlushEnds, Files!flushed
<1>2. CASE Files!Ends(o) BY <1>1, <1>2, FilesGoOn DEF Files!Ends
<1>3. CASE o.of = "markdown" /\ Files!Moves(o, [o EXCEPT !.at = "answered", !.got = shown.text])
  <2>1. PICK p : p = [o EXCEPT !.at = "answered", !.got = shown.text] OBVIOUS
  <2>2. shown.text \in Nat BY <1>0 DEF FileTypeOK, FileStore
  <2>3. /\ p \in FileOp /\ p.at = "answered" /\ p.got = shown.text /\ p.kind = "export"
        /\ p.since = o.since /\ o.since \in Nat
    BY <1>0, <1>3, <2>1, <2>2 DEF FileOp, FileOpIsRight
  <2>4. p.got >= p.since \/ p.since <= wiped
    BY <1>0, <1>1, <2>2, <2>3 DEF FInv, TextsAreRight, FileTypeOK
  <2>5. FileOpIsRight(p) BY <1>0, <1>1, <2>3, <2>4 DEF FileOpIsRight, FileTypeOK
  <2>6. operations' = (operations \ {o}) \cup {p} BY <1>3, <2>1 DEF Files!Moves
  <2> QED BY <1>1, <2>3, <2>5, <2>6, FilesGoOn
<1>4. CASE Files!Moves(o, [o EXCEPT !.at = IF o.kind = "export" THEN "call" ELSE "text"])
  <2>1. PICK at \in {"call", "text"} : at = IF o.kind = "export" THEN "call" ELSE "text" OBVIOUS
  <2>2. PICK p : p = [o EXCEPT !.at = at] OBVIOUS
  <2>3. /\ p \in FileOp /\ p.at = at /\ p.kind = o.kind /\ p.of = o.of /\ p.since = o.since
        /\ o.since \in Nat
    BY <1>0, <2>2 DEF FileOp
  <2>4. FileOpIsRight(p) BY <1>0, <1>1, <2>3 DEF FileOpIsRight, FileTypeOK
  <2>5. operations' = (operations \ {o}) \cup {p} BY <1>4, <2>1, <2>2 DEF Files!Moves
  <2> QED BY <1>1, <2>3, <2>4, <2>5, FilesGoOn
<1> QED BY <1>1, <1>2, <1>3, <1>4 DEF Files!AfterFlush

LEMMA FilesFileIsRead == ASSUME FInv, NEW o \in operations, Files!FileIsRead(o) PROVE FInv'
<1>0. FileTypeOK /\ o \in FileOp /\ FileOpIsRight(o) BY DEF FInv, FileTypeOK
<1>1. /\ o.at = "text" /\ (Files!Ends(o) \/ Files!Moves(o, [o EXCEPT !.at = "call"]))
      /\ UNCHANGED <<typed, saved, stored, shown, read, generation, notice, requested, wiped>>
  BY DEF Files!FileIsRead
<1>2. CASE Files!Ends(o) BY <1>1, <1>2, FilesGoOn DEF Files!Ends
<1>3. CASE Files!Moves(o, [o EXCEPT !.at = "call"])
  <2>1. PICK p : p = [o EXCEPT !.at = "call"] OBVIOUS
  <2>2. p \in FileOp /\ p.at = "call" /\ p.kind = o.kind /\ p.of = o.of /\ p.since = o.since
    BY <1>0, <2>1 DEF FileOp
  <2>3. FileOpIsRight(p) BY <1>0, <1>1, <2>2 DEF FileOpIsRight
  <2>4. operations' = (operations \ {o}) \cup {p} BY <1>3, <2>1 DEF Files!Moves
  <2> QED BY <1>1, <2>2, <2>3, <2>4, FilesGoOn
<1> QED BY <1>1, <1>2, <1>3

LEMMA FilesExportServed == ASSUME FInv, NEW o \in operations, Files!ExportServed(o) PROVE FInv'
<1>0. FileTypeOK /\ o \in FileOp /\ FileOpIsRight(o) BY DEF FInv, FileTypeOK
<1>1. PICK p : p = [o EXCEPT !.at = "answered", !.got = stored.text] OBVIOUS
<1>2. /\ o.at = "call" /\ o.kind = "export" /\ operations' = (operations \ {o}) \cup {p}
      /\ UNCHANGED <<typed, saved, stored, shown, read, generation, notice, requested, wiped>>
  BY <1>1 DEF Files!ExportServed, Files!Moves
<1>3. stored.text \in Nat BY <1>0 DEF FileTypeOK, FileStore
<1>4. /\ p \in FileOp /\ p.at = "answered" /\ p.got = stored.text /\ p.kind = "export"
      /\ p.since = o.since /\ o.since \in Nat
  BY <1>0, <1>1, <1>2, <1>3 DEF FileOp
<1>5. o.since <= saved BY <1>0, <1>2 DEF FileOpIsRight
<1>6. p.got >= p.since \/ p.since <= wiped
  BY <1>0, <1>3, <1>4, <1>5 DEF FInv, TextsAreRight, FileTypeOK
<1>7. FileOpIsRight(p) BY <1>4, <1>5, <1>6 DEF FileOpIsRight
<1> QED BY <1>2, <1>4, <1>7, FilesGoOn

LEMMA FilesFails == ASSUME FInv,
                           NEW o \in operations, Files!OperationFails(o) \/ Files!ReloadLost(o)
                           PROVE  FInv'
BY FilesGoOn DEF Files!OperationFails, Files!ReloadLost, Files!announced, Files!Ends

LEMMA FilesImportServed == ASSUME FInv, NEW o \in operations, Files!ImportServed(o) PROVE FInv'
<1> USE NoReadFields
<1>0. FileTypeOK /\ o \in FileOp /\ FileOpIsRight(o) BY DEF FInv, FileTypeOK
<1>1. PICK p, text, count : /\ p = [o EXCEPT !.at = "answered", !.got = stored.changes + 1]
                              /\ text = (IF o.of = "json" THEN 0 ELSE stored.text)
                              /\ count = stored.changes + 1
  OBVIOUS
<1>2. /\ o.at = "call" /\ o.kind = "import" /\ operations' = (operations \ {o}) \cup {p}
      /\ stored' = [text |-> text, changes |-> count]
      /\ wiped' = IF o.of = "json" THEN saved ELSE wiped
      /\ UNCHANGED <<typed, saved, shown, read, generation, notice, requested>>
  BY <1>1 DEF Files!ImportServed, Files!Moves
<1>3. stored.text \in Nat /\ stored.changes \in Nat /\ shown.changes \in Nat
  BY <1>0 DEF FileTypeOK, FileStore
<1>4. /\ stored' \in FileStore /\ stored'.text = text
      /\ stored'.changes = count /\ count \in Nat /\ stored.changes < count
  BY <1>1, <1>2, <1>3 DEF FileStore
<1>5. /\ p \in FileOp /\ p.at = "answered" /\ p.got = count /\ p.kind = "import"
      /\ p.since = o.since /\ p.of = o.of
  BY <1>0, <1>1, <1>2, <1>4 DEF FileOp
<1>6. saved <= saved' /\ wiped <= wiped' /\ wiped' \in Nat /\ stored.changes <= stored'.changes
  BY <1>0, <1>2, <1>3, <1>4 DEF FInv, TextsAreRight, FileTypeOK
<1>7. FileTypeOK' BY <1>0, <1>2, <1>4, <1>5, <1>6 DEF FileTypeOK
<1>8. TextsAreRight'
  <2>1. wiped' <= saved BY <1>0, <1>2 DEF FInv, TextsAreRight, FileTypeOK
  <2>2. stored'.text = saved \/ saved <= wiped'
    BY <1>0, <1>1, <1>2, <1>4 DEF FInv, TextsAreRight, FileTypeOK
  <2>3. shown.text = typed \/ typed <= wiped'
    BY <1>0, <1>6 DEF FInv, TextsAreRight, FileTypeOK
  <2>4. shown.changes <= stored'.changes BY <1>3, <1>4 DEF FInv, TextsAreRight
  <2> QED BY <1>2, <2>1, <2>2, <2>3, <2>4 DEF FInv, TextsAreRight
<1>9. FileReadIsRight'
  <2> SUFFICES ASSUME read # Files!NoRead, read.at = "served"
               PROVE  /\ read.snapshot.changes <= stored'.changes
                      /\ read.snapshot.text = typed \/ typed <= wiped =>
                           read.snapshot.text = typed \/ typed <= wiped'
    BY <1>2 DEF FInv, FileReadIsRight
  <2>1. read.snapshot \in FileStore /\ read.snapshot.changes <= stored.changes
    BY DEF FInv, FileReadIsRight
  <2>2. read.snapshot.changes \in Nat BY <2>1 DEF FileStore
  <2> QED BY <1>0, <1>3, <1>4, <1>6, <2>1, <2>2 DEF FileTypeOK
<1>10. Files!NoticesAreTrue'
  <2>1. shown.changes <= shown'.changes BY <1>2, <1>3
  <2> QED BY <1>2, <1>6, <1>7, <2>1, NoticesStay
<1>11. FileOpIsRight(p)' /\ ReadReaches(p)'
  <2>1. p.since <= saved' BY <1>0, <1>2, <1>5 DEF FileOpIsRight
  <2>2. p.got <= stored'.changes BY <1>4, <1>5
  <2>3. p.of # "markdown" BY <1>0, <1>2, <1>5 DEF FileOpIsRight
  <2> QED BY <1>5, <2>1, <2>2, <2>3 DEF FileOpIsRight, ReadReaches
<1>12. ASSUME NEW q \in operations PROVE FileOpIsRight(q)' /\ ReadReaches(q)'
  <2>1. q \in FileOp /\ FileOpIsRight(q) /\ ReadReaches(q) BY <1>0 DEF FInv, FileTypeOK
  <2> QED BY <1>0, <1>2, <1>6, <1>7, <2>1, OpStaysRight DEF ReadReaches
<1> QED BY <1>2, <1>7, <1>8, <1>9, <1>10, <1>11, <1>12 DEF FInv

\* The answer of an import; then the outline is read, or the relations first.
LEMMA FilesImportAnswered ==
  ASSUME FInv, NEW o \in operations, Files!ImportAnswered(o) \/ Files!RelationsLoaded(o)
  PROVE  FInv'
<1>0. FileTypeOK /\ o \in FileOp /\ FileOpIsRight(o) BY DEF FInv, FileTypeOK
<1>1. /\ o.at \in {"answered", "relations"} /\ o.kind = "import"
      /\ UNCHANGED <<typed, saved, stored, shown, generation, notice, requested, wiped>>
      /\ \/ Files!Ends(o) /\ read' = read
         \/ Files!Moves(o, [o EXCEPT !.at = "relations"]) /\ read' = read
         \/ Files!Moves(o, [o EXCEPT !.at = "reload"]) /\ read' = Files!Begun(o.id)
  BY <1>0 DEF Files!ImportAnswered, Files!RelationsLoaded, FileOpIsRight
<1>2. CASE Files!Ends(o) /\ read' = read BY <1>1, <1>2, FilesGoOn DEF Files!Ends
<1>3. ASSUME NEW at \in {"relations", "reload"}, Files!Moves(o, [o EXCEPT !.at = at]),
             at = "relations" => read' = read, at = "reload" => read' = Files!Begun(o.id)
      PROVE  FInv'
  <2>1. PICK p : p = [o EXCEPT !.at = at] OBVIOUS
  <2>2. /\ p \in FileOp /\ p.at = at /\ p.kind = "import" /\ p.of = o.of /\ p.since = o.since
        /\ p.got = o.got /\ o.id \in Nat
    BY <1>0, <1>1, <2>1 DEF FileOp
  <2>3. FileOpIsRight(p) BY <1>0, <1>1, <2>2 DEF FileOpIsRight
  <2>4. operations' = (operations \ {o}) \cup {p} BY <1>3, <2>1 DEF Files!Moves
  <2>5. CASE at = "relations" BY <1>1, <1>3, <2>2, <2>3, <2>4, <2>5, FilesGoOn
  <2>6. CASE at = "reload"
    <3>1. read'.at = "sent" /\ \E id \in Nat : read' = Files!Begun(id)
      BY <1>3, <2>2, <2>6, BegunRight
    <3> QED BY <1>1, <2>2, <2>3, <2>4, <3>1, FilesGoOn
  <2> QED BY <2>5, <2>6
<1> QED BY <1>1, <1>2, <1>3

\* Reloads of the outline by others.
LEMMA FilesOtherReload == ASSUME FInv, Files!OtherReload PROVE FInv'
<1>1. \E id \in Nat : read' = Files!Begun(id) BY DEF Files!OtherReload
<1> QED BY <1>1, FilesGoOn DEF Files!OtherReload

LEMMA FilesReadServed == ASSUME FInv, Files!ReadServed PROVE FInv'
<1> USE NoReadFields
<1>0. FileTypeOK BY DEF FInv
<1>1. /\ read.at = "sent" /\ read' = [read EXCEPT !.at = "served", !.snapshot = stored]
      /\ UNCHANGED <<typed, saved, stored, shown, operations, generation, notice, requested,
          wiped>>
  BY DEF Files!ReadServed
<1>2. read \in FileRead /\ read # Files!NoRead BY <1>0, <1>1 DEF FileTypeOK
<1>3. /\ read' \in FileRead /\ read'.at = "served" /\ read'.snapshot = stored
      /\ read'.by = read.by /\ read'.since = read.since /\ read'.draft = read.draft
  BY <1>0, <1>1, <1>2 DEF FileRead, FileTypeOK
<1>4. FileTypeOK' BY <1>0, <1>1, <1>3 DEF FileTypeOK
<1>5. TextsAreRight' /\ Files!NoticesAreTrue'
  BY <1>1 DEF FInv, TextsAreRight, Files!NoticesAreTrue
<1>6. FileReadIsRight'
  <2>1. stored \in FileStore /\ stored.changes <= stored.changes BY <1>0 DEF FileTypeOK, FileStore
  <2>2. shown.changes <= stored.changes BY DEF FInv, TextsAreRight
  <2>3. saved = typed => stored.text = typed \/ typed <= wiped BY DEF FInv, TextsAreRight
  <2>4. read.since <= typed /\ (~read.draft /\ read.since = typed => saved = typed)
    BY <1>2 DEF FInv, FileReadIsRight
  <2> QED BY <1>1, <1>3, <2>1, <2>2, <2>3, <2>4 DEF FileReadIsRight
<1>7. ASSUME NEW o \in operations PROVE FileOpIsRight(o)' /\ ReadReaches(o)'
  <2>1. FileOpIsRight(o) BY DEF FInv
  <2>2. FileOpIsRight(o)' BY <1>1, <2>1 DEF FileOpIsRight
  <2>3. o.at = "reload" => o.got <= stored.changes BY <2>1 DEF FileOpIsRight
  <2>4. ReadReaches(o)' BY <1>1, <1>3, <2>3 DEF ReadReaches
  <2> QED BY <2>2, <2>4
<1> QED BY <1>1, <1>4, <1>5, <1>6, <1>7 DEF FInv

\* What a read publishes.
LEMMA FilePublished ==
  ASSUME FInv, read.at = "served"
  PROVE  /\ Files!Published \in FileStore /\ Files!Published.changes = read.snapshot.changes
         /\ shown.changes <= Files!Published.changes /\ Files!Published.changes <= stored.changes
         /\ Files!Published.text = typed \/ typed <= wiped
<1> USE NoReadFields
<1>0. FileTypeOK /\ read # Files!NoRead BY DEF FInv
<1>1. /\ read.snapshot \in FileStore /\ shown.changes <= read.snapshot.changes
      /\ read.snapshot.changes <= stored.changes
      /\ ~read.draft /\ read.since = typed => read.snapshot.text = typed \/ typed <= wiped
  BY <1>0 DEF FInv, FileReadIsRight
<1>2. PICK text : text = IF read.draft \/ typed # read.since THEN typed ELSE read.snapshot.text
  OBVIOUS
<1>3. text \in Nat /\ (text = typed \/ typed <= wiped)
  BY <1>0, <1>1, <1>2 DEF FileTypeOK, FileStore
<1>4. Files!Published = [read.snapshot EXCEPT !.text = text] BY <1>2 DEF Files!Published
<1>5. Files!Published \in FileStore /\ Files!Published.text = text
      /\ Files!Published.changes = read.snapshot.changes
  BY <1>1, <1>3, <1>4 DEF FileStore
<1> QED BY <1>1, <1>3, <1>5

\* A read ends, and what it brings is shown.
LEMMA FilesShown ==
  ASSUME FInv, read.at = "served", read' = Files!NoRead, shown' = Files!Published,
         operations' \subseteq operations,
         UNCHANGED <<typed, saved, stored, generation, requested, wiped>>,
         notice' \in [Files!Controllers -> FileOp \cup {None}],
         \A c \in Files!Controllers : notice'[c] # None =>
           \/ notice'[c] = notice[c]
           \/ /\ notice'[c].id = generation[c] /\ notice'[c].kind = "import"
              /\ notice'[c].got <= read.snapshot.changes
  PROVE  FInv'
<1> USE NoReadFields
<1>0. FileTypeOK BY DEF FInv
<1>1. PICK now : now = Files!Published OBVIOUS
<1>2. /\ now \in FileStore /\ now.changes = read.snapshot.changes
      /\ shown.changes <= now.changes /\ now.changes <= stored.changes
      /\ now.text = typed \/ typed <= wiped
  BY <1>1, FilePublished
<1>3. shown' = now BY <1>1
<1>4. FileTypeOK' BY <1>0, <1>2, <1>3 DEF FileTypeOK
<1>5. TextsAreRight' BY <1>2, <1>3 DEF FInv, TextsAreRight
<1>6. FileReadIsRight' BY DEF FileReadIsRight
<1>7. Files!NoticesAreTrue'
  <2> SUFFICES ASSUME NEW c \in Files!Controllers, notice'[c] # None
               PROVE  LET o == notice'[c] IN
                        /\ o.id = generation[c]
                        /\ o.kind = "import" => now.changes >= o.got
                        /\ o.kind = "export" => o.got >= o.since \/ o.since <= wiped
    BY <1>3 DEF Files!NoticesAreTrue
  <2>1. PICK o : o = notice'[c] OBVIOUS
  <2>2. o \in FileOp /\ o.got \in Nat BY <2>1 DEF FileOp
  <2>3. now.changes \in Nat /\ shown.changes \in Nat BY <1>0, <1>2 DEF FileTypeOK, FileStore
  <2>4. CASE o = notice[c]
    <3>1. /\ o.id = generation[c]
          /\ o.kind = "import" => shown.changes >= o.got
          /\ o.kind = "export" => o.got >= o.since \/ o.since <= wiped
      BY <2>1, <2>4 DEF FInv, Files!NoticesAreTrue
    <3> QED BY <1>2, <2>1, <2>2, <2>3, <3>1
  <2>5. CASE o.id = generation[c] /\ o.kind = "import" /\ o.got <= read.snapshot.changes
    BY <1>2, <2>1, <2>2, <2>3, <2>5
  <2> QED BY <2>1, <2>4, <2>5
<1>8. ASSUME NEW o \in operations' PROVE FileOpIsRight(o)' /\ ReadReaches(o)'
  BY DEF FInv, FileOpIsRight, ReadReaches
<1> QED BY <1>4, <1>5, <1>6, <1>7, <1>8 DEF FInv

\* Reads that publish: of others, or of an import, which then announces its success.
LEMMA FilesOtherPublishes == ASSUME FInv, Files!OtherReadPublishes PROVE FInv'
BY FilesShown DEF Files!OtherReadPublishes, FInv, FileTypeOK

LEMMA FilesReloadEnds == ASSUME FInv, NEW o \in operations, Files!ReloadEnds(o) PROVE FInv'
<1>0. FileTypeOK /\ o \in FileOp /\ FileOpIsRight(o) /\ ReadReaches(o) BY DEF FInv, FileTypeOK
<1>1. /\ o.at = "reload" /\ read.at = "served" /\ read.by = o.id /\ read' = Files!NoRead
      /\ operations' \subseteq operations
      /\ UNCHANGED <<typed, saved, stored, generation, requested, wiped>>
  BY DEF Files!ReloadEnds, Files!Ends
<1>2. CASE Files!Current(o)
  <2>1. shown' = Files!Published /\ notice' = [notice EXCEPT ![o.of] = o]
    BY <1>2 DEF Files!ReloadEnds, Files!Announce
  <2>2. o.id = generation[o.of] /\ o.kind = "import" /\ o.got <= read.snapshot.changes
    BY <1>0, <1>1, <1>2 DEF Files!Current, FileOpIsRight, ReadReaches
  <2>3. o.of \in Files!Controllers BY <1>0 DEF FileOp
  <2>4. notice' \in [Files!Controllers -> FileOp \cup {None}] BY <1>0, <2>1, <2>3 DEF FileTypeOK
  <2>5. \A c \in Files!Controllers : notice'[c] = notice[c] \/ (c = o.of /\ notice'[c] = o)
    BY <1>0, <2>1 DEF FileTypeOK
  <2> QED BY <1>1, <2>1, <2>2, <2>4, <2>5, FilesShown
<1>3. CASE ~Files!Current(o)
  <2>1. UNCHANGED <<shown, notice>> BY <1>3 DEF Files!ReloadEnds
  <2> QED BY <1>1, <2>1, FilesGoOn
<1> QED BY <1>2, <1>3

\* The answer of an export, which announces its success.
LEMMA FilesExportAnswered == ASSUME FInv, NEW o \in operations, Files!ExportAnswered(o)
PROVE  FInv'
<1>0. FileTypeOK /\ o \in FileOp /\ FileOpIsRight(o) BY DEF FInv, FileTypeOK
<1>1. /\ o.at = "answered" /\ o.kind = "export" /\ operations' \subseteq operations
      /\ UNCHANGED <<typed, saved, stored, shown, read, generation, requested, wiped>>
  BY DEF Files!ExportAnswered, Files!Ends
<1>2. CASE ~Files!Current(o)
  <2>1. notice' = notice BY <1>2 DEF Files!ExportAnswered
  <2> QED BY <1>1, <2>1, FilesGoOn
<1>3. CASE Files!Current(o)
  <2>1. notice' = [notice EXCEPT ![o.of] = o] BY <1>3 DEF Files!ExportAnswered, Files!Announce
  <2>2. /\ o.id = generation[o.of] /\ o.of \in Files!Controllers
        /\ o.got >= o.since \/ o.since <= wiped
    BY <1>0, <1>1, <1>3 DEF Files!Current, FileOp, FileOpIsRight
  <2>3. notice' \in [Files!Controllers -> FileOp \cup {None}] BY <1>0, <2>1, <2>2 DEF FileTypeOK
  <2>4. FileTypeOK' BY <1>0, <1>1, <2>3 DEF FileTypeOK
  <2>5. Files!NoticesAreTrue'
    <3> SUFFICES ASSUME NEW c \in Files!Controllers, notice'[c] # None
                 PROVE  LET p == notice'[c] IN
                          /\ p.id = generation[c]
                          /\ p.kind = "import" => shown.changes >= p.got
                          /\ p.kind = "export" => p.got >= p.since \/ p.since <= wiped
      BY <1>1 DEF Files!NoticesAreTrue
    <3>1. CASE c = o.of
      <4>1. notice'[c] = o BY <1>0, <2>1, <3>1 DEF FileTypeOK
      <4> QED BY <1>1, <2>2, <3>1, <4>1
    <3>2. CASE c # o.of
      <4>1. notice'[c] = notice[c] BY <1>0, <2>1, <3>2 DEF FileTypeOK
      <4> QED BY <4>1 DEF FInv, Files!NoticesAreTrue
    <3> QED BY <3>1, <3>2
  <2>6. TextsAreRight' /\ FileReadIsRight' BY <1>1 DEF FInv, TextsAreRight, FileReadIsRight
  <2>7. ASSUME NEW p \in operations' PROVE FileOpIsRight(p)' /\ ReadReaches(p)'
    BY <1>1 DEF FInv, FileOpIsRight, ReadReaches
  <2> QED BY <2>4, <2>5, <2>6, <2>7 DEF FInv
<1> QED BY <1>2, <1>3

\* Every step of the files keeps the invariant.
LEMMA FilesStep == ASSUME FInv, [Files!Next]_Files!vars PROVE FInv'
<1>1. CASE Files!Next
  <2>1. ASSUME NEW c \in Files!Controllers, Files!Request(c, "export") PROVE FInv'
    BY <2>1, FilesRequest
  <2>2. ASSUME NEW c \in {"json", "opml"}, Files!Request(c, "import") PROVE FInv'
    BY <2>2, FilesRequest DEF Files!Controllers
  <2>3. ASSUME NEW o \in operations,
               \/ Files!FlushEnds(o) \/ Files!FileIsRead(o) \/ Files!ExportServed(o)
                   \/ Files!ImportServed(o)
               \/ Files!OperationFails(o) \/ Files!ExportAnswered(o) \/ Files!ImportAnswered(o)
               \/ Files!RelationsLoaded(o) \/ Files!ReloadEnds(o) \/ Files!ReloadLost(o)
        PROVE  FInv'
    BY <2>3, FilesFlushEnds, FilesFileIsRead, FilesExportServed, FilesImportServed, FilesFails,
       FilesExportAnswered, FilesImportAnswered, FilesReloadEnds
  <2> QED
    BY <1>1, <2>1, <2>2, <2>3, FilesType, FilesSave, FilesOtherReload, FilesReadServed,
       FilesOtherPublishes
    DEF Files!Next
<1>2. CASE UNCHANGED Files!vars
  BY <1>2
  DEF Files!vars, FInv, FileTypeOK, TextsAreRight, FileReadIsRight, Files!NoticesAreTrue,
      FileOpIsRight,
      ReadReaches
<1> QED BY <1>1, <1>2

-----------------------------------------------------------------------------
(* The selection and its form.                                             *)

Ids == Selecting!Placements \cup {None}
\* The works a form may be for.
Subjects == {"x", "y", None}
Location == [selected : Ids, hoist : Ids]
SelForm == [id : Ids, work : Subjects, draft : Selecting!Versions, baseline : Selecting!Versions]
SelSaving ==
  [work : Subjects, draft : Selecting!Versions, at : {"sent", "served", "reload", "reloaded"},
   goesOn : BOOLEAN, value : Selecting!Versions]
SelNav == [outline : BOOLEAN, id : Ids, at : {"guard", "read"}, asking : BOOLEAN, revoked
  : BOOLEAN]

SelTypeOK ==
  /\ items \subseteq Selecting!Placements /\ stored \in [{"x", "y"} -> Selecting!Versions]
  /\ visible \in BOOLEAN
  /\ sel \in Ids /\ panes \in [Selecting!Panes -> Location] /\ active \in Selecting!Panes
  /\ form \in SelForm
  /\ saving \in SelSaving \cup {None} /\ nav \in SelNav \cup {None}

\* The form is of what is selected, also while a save of it is under way.
FormFits ==
  /\ sel # None => form.work = Selecting!WorkOf(sel)
  /\ Selecting!submitting => saving.work = form.work

SInv == SelTypeOK /\ Selecting!SelectionIsBrowsed /\ FormFits

\* The form keeps its work and what was typed.
DraftStays == form'.work = form.work /\ form'.draft = form.draft

\* The placements and panes are different things, and have the works they have.
LEMMA Names ==
  /\ Selecting!Placements = {"x1", "x2", "y"} /\ Selecting!Panes = {"p1", "p2"}
  /\ Selecting!Placements \cap Selecting!Panes = {}
  /\ None \notin Selecting!Placements /\ None \notin Selecting!Panes
  /\ Selecting!WorkOf(None) = None
  /\ \A id \in Selecting!Placements : Selecting!WorkOf(id) \in {"x", "y"}
  /\ \A id \in Ids : Selecting!WorkOf(id) \in Subjects
BY NoneAssumption DEF Selecting!Placements, Selecting!Panes, Selecting!WorkOf, Subjects, Ids

\* Nothing is selected at first.
LEMMA SelInitial == ASSUME Selecting!Init PROVE SInv
<1> USE NoneAssumption
<1>1. {Selecting!WorkOf(id) : id \in Selecting!Placements} = {"x", "y"}
  BY DEF Selecting!Placements, Selecting!WorkOf
<1>2. stored = [w \in {"x", "y"} |-> 0] BY <1>1 DEF Selecting!Init
<1>3. stored \in [{"x", "y"} -> Selecting!Versions] BY <1>2 DEF Selecting!Versions
<1>4. Selecting!Empty \in SelForm
  BY DEF Selecting!Empty, SelForm, Selecting!Versions, Ids, Subjects
<1>5. panes \in [Selecting!Panes -> Location] /\ active \in Selecting!Panes
      /\ panes[active].selected = None
  BY DEF Selecting!Init, Selecting!Panes, Location, Ids
<1>6. SelTypeOK BY <1>3, <1>4, <1>5 DEF Selecting!Init, SelTypeOK, Ids
<1>7. Selecting!SelectionIsBrowsed BY <1>5 DEF Selecting!Init, Selecting!SelectionIsBrowsed
<1>8. FormFits BY DEF Selecting!Init, FormFits, Selecting!submitting
<1> QED BY <1>6, <1>7, <1>8 DEF SInv

-----------------------------------------------------------------------------
\* The form for another placement.
LEMMA FormForRight ==
  ASSUME SelTypeOK, NEW id \in Ids
  PROVE  Selecting!FormFor(id) \in SelForm /\ Selecting!FormFor(id).work = Selecting!WorkOf(id)
<1> USE NoneAssumption
<1>1. CASE id = None
  BY <1>1, Names
  DEF Selecting!FormFor, Selecting!Empty, SelForm, Selecting!Versions, Ids, Subjects
<1>2. CASE id # None
  <2>1. Selecting!WorkOf(id) \in {"x", "y"} /\ Selecting!WorkOf(id) \in Subjects
    BY <1>2, Names DEF Ids
  <2>2. stored[Selecting!WorkOf(id)] \in Selecting!Versions BY <2>1 DEF SelTypeOK
  <2> QED BY <1>2, <2>1, <2>2 DEF Selecting!FormFor, SelForm
<1> QED BY <1>1, <1>2

\* What commitSelection and reconcileSelection make of the form.
LEMMA CommittedRight ==
  ASSUME SelTypeOK, NEW id \in Ids, Selecting!canSelectImmediately(id)
  PROVE  /\ Selecting!committed(id) \in SelForm
         /\ Selecting!committed(id).work = Selecting!WorkOf(id)
         /\ Selecting!submitting => Selecting!committed(id).work = form.work
         /\ Selecting!Dirty => /\ Selecting!committed(id).work = form.work
                               /\ Selecting!committed(id).draft = form.draft
<1>1. CASE Selecting!WorkOf(id) = form.work /\ (Selecting!Dirty \/ Selecting!submitting)
  <2>1. CASE id = None BY <1>1, <2>1 DEF Selecting!committed, SelTypeOK
  <2>2. CASE id # None
    <3>1. Selecting!committed(id) = [form EXCEPT !.id = id] BY <1>1, <2>2 DEF Selecting!committed
    <3> QED BY <1>1, <3>1 DEF SelTypeOK, SelForm
  <2> QED BY <2>1, <2>2
<1>2. CASE ~(Selecting!WorkOf(id) = form.work /\ (Selecting!Dirty \/ Selecting!submitting))
  <2>1. Selecting!committed(id) = Selecting!FormFor(id) /\ ~Selecting!Dirty
        /\ ~Selecting!submitting
    BY <1>2 DEF Selecting!committed, Selecting!canSelectImmediately
  <2> QED BY <2>1, FormForRight
<1> QED BY <1>1, <1>2

\* What a reload makes of the form.
LEMMA CorrectedRight ==
  ASSUME SelTypeOK, NEW id \in Ids, id # None => form.work = Selecting!WorkOf(id)
  PROVE  /\ Selecting!corrected(id) \in SelForm
         /\ id # None => Selecting!corrected(id).work = Selecting!WorkOf(id)
         /\ Selecting!submitting => Selecting!corrected(id).work = form.work
         /\ Selecting!Dirty => /\ Selecting!corrected(id).work = form.work
                               /\ Selecting!corrected(id).draft = form.draft
<1>1. CASE ~Selecting!Dirty /\ ~Selecting!submitting BY <1>1, FormForRight DEF Selecting!corrected
<1>2. CASE ~(~Selecting!Dirty /\ ~Selecting!submitting)
  <2>1. Selecting!corrected(id) = form \/ Selecting!corrected(id) = [form EXCEPT !.id = id]
    BY <1>2 DEF Selecting!corrected
  <2> QED BY <2>1 DEF SelTypeOK, SelForm
<1> QED BY <1>1, <1>2

\* What reloads and browsing make of the panes.
LEMMA KeptRight == ASSUME NEW id, NEW S PROVE Selecting!Kept(id, S) \in S \cup {None}
BY DEF Selecting!Kept

LEMMA ReconciledRight ==
  ASSUME NEW locations, NEW S \in SUBSET Selecting!Placements
  PROVE  /\ Selecting!Reconciled(locations, S) \in [Selecting!Panes -> Location]
         /\ \A p \in Selecting!Panes :
              Selecting!Reconciled(locations, S)[p].selected
                = Selecting!Kept(locations[p].selected, S)
<1>1. \A id : Selecting!Kept(id, S) \in Ids BY KeptRight DEF Ids
<1> QED BY <1>1 DEF Selecting!Reconciled, Location

LEMMA BrowsedRight ==
  ASSUME NEW location \in Location, NEW id \in Ids, NEW S
  PROVE  Selecting!Browsed(location, id, S) \in Location
         /\ Selecting!Browsed(location, id, S).selected = id
<1>1. location.hoist \in Ids /\ None \in Ids BY DEF Location, Ids
<1> QED BY <1>1 DEF Selecting!Browsed, Location

\* The selection to come.
IsSelection(next) ==
  /\ next.sel \in Ids /\ next.active \in Selecting!Panes
  /\ next.panes \in [Selecting!Panes -> Location]
  /\ visible => next.panes[next.active].selected = next.sel

\* What is prepared is a selection, in place in its pane.
LEMMA PreparedRight ==
  ASSUME SelTypeOK, NEW target \in items \cup Selecting!Panes \cup {None}
  PROVE  IsSelection(Selecting!Prepared(target))
<1>1. CASE target \in Selecting!Panes
  <2>1. PICK located : located = Selecting!Reconciled(panes, items) OBVIOUS
  <2>2. located \in [Selecting!Panes -> Location] BY <2>1, ReconciledRight DEF SelTypeOK
  <2>3. located[target].selected \in Ids BY <1>1, <2>2 DEF Location
  <2>4. Selecting!Prepared(target) = [sel |-> located[target].selected, active |-> target,
          panes |-> located]
    BY <1>1, <2>1 DEF Selecting!Prepared, Selecting!preparePane
  <2> QED BY <1>1, <2>2, <2>3, <2>4 DEF IsSelection
<1>2. CASE target \notin Selecting!Panes
  <2>0. target \in Ids BY <1>2 DEF SelTypeOK, Ids
  <2>1. PICK browsed : browsed = Selecting!Browsed(panes[active], target, items) OBVIOUS
  <2>2. browsed \in Location /\ browsed.selected = target
    BY <2>0, <2>1, BrowsedRight DEF SelTypeOK
  <2>3. PICK all : all = IF visible THEN [panes EXCEPT ![active] = browsed] ELSE panes OBVIOUS
  <2>4. all \in [Selecting!Panes -> Location] /\ (visible => all[active].selected = target)
    BY <2>2, <2>3 DEF SelTypeOK
  <2>5. Selecting!Prepared(target) = [sel |-> target, active |-> active, panes |-> all]
    BY <1>2, <2>1, <2>3 DEF Selecting!Prepared, Selecting!prepareOccurrence
  <2> QED BY <2>0, <2>4, <2>5 DEF IsSelection, SelTypeOK
<1> QED BY <1>1, <1>2

\* A save that goes on without what waited for it is a save still.
LEMMA CancelledRight ==
  ASSUME SelTypeOK
  PROVE  /\ Selecting!cancelled \in SelSaving \cup {None}
         /\ (~Selecting!submitting => Selecting!cancelled = None)
         /\ Selecting!submitting => Selecting!cancelled.work = saving.work
<1>1. CASE Selecting!submitting
  <2>1. saving \in SelSaving BY <1>1 DEF SelTypeOK, Selecting!submitting
  <2>2. Selecting!cancelled = [saving EXCEPT !.goesOn = FALSE] BY <1>1 DEF Selecting!cancelled
  <2>3. Selecting!cancelled \in SelSaving /\ Selecting!cancelled.work = saving.work
    BY <2>1, <2>2 DEF SelSaving
  <2> QED BY <1>1, <2>3
<1>2. CASE ~Selecting!submitting BY <1>2 DEF Selecting!cancelled, Selecting!submitting
<1> QED BY <1>1, <1>2

\* What a navigation prepares.
LEMMA NavRight ==
  ASSUME SelTypeOK, Selecting!SelectionIsBrowsed, nav # None
  PROVE  /\ Selecting!NavPanes \in [Selecting!Panes -> Location] /\ Selecting!NavTarget \in Ids
         /\ nav.outline => Selecting!NavPanes[active].selected = Selecting!NavTarget
<1>1. nav \in SelNav BY DEF SelTypeOK
<1>2. nav.id \in Ids /\ nav.outline \in BOOLEAN BY <1>1 DEF SelNav
<1>3. Selecting!Reconciled(panes, items) \in [Selecting!Panes -> Location]
  BY ReconciledRight DEF SelTypeOK
<1>4. PICK located : located = Selecting!Reconciled(panes, items) OBVIOUS
<1>5. \A id \in Ids : [located EXCEPT ![active] = Selecting!Browsed(@, id,
          items)] \in [Selecting!Panes -> Location]
  <2> SUFFICES ASSUME NEW id \in Ids
        PROVE [located EXCEPT ![active] = Selecting!Browsed(@, id,
                items)] \in [Selecting!Panes -> Location]
    OBVIOUS
  <2>1. Selecting!Browsed(located[active], id, items) \in Location
    BY <1>3, <1>4, BrowsedRight DEF SelTypeOK
  <2> QED BY <1>3, <1>4, <2>1
<1>6. Selecting!NavPanes = panes \/ Selecting!NavPanes = located
      \/ Selecting!NavPanes = [located EXCEPT ![active] = Selecting!Browsed(@, nav.id, items)]
  BY <1>4 DEF Selecting!NavPanes
<1>7. Selecting!NavPanes \in [Selecting!Panes -> Location]
  BY <1>2, <1>3, <1>4, <1>5, <1>6 DEF SelTypeOK
<1>8. Selecting!NavTarget \in Ids
  <2>1. Selecting!NavPanes[active].selected \in Ids BY <1>7 DEF SelTypeOK, Location
  <2> QED BY <1>2, <2>1 DEF Selecting!NavTarget, SelTypeOK
<1>9. nav.outline => Selecting!NavPanes[active].selected = Selecting!NavTarget
  BY DEF Selecting!NavTarget
<1> QED BY <1>7, <1>8, <1>9

-----------------------------------------------------------------------------
\* What the form may do in a step that is not the user's editing, discarding or saving.
FormStays == Selecting!Dirty => DraftStays

\* A selection that is accepted.
LEMMA AcceptedRight ==
  ASSUME SInv,
         NEW next, IsSelection(next), Selecting!canSelectImmediately(next.sel),
         Selecting!Accept(next),
         visible' = visible, saving' = Selecting!cancelled, stored' = stored, items' = items,
         nav' \in SelNav \cup {None}
  PROVE  SInv' /\ FormStays
<1> USE DEF SInv
<1>1. /\ next.sel \in Ids /\ next.active \in Selecting!Panes
      /\ next.panes \in [Selecting!Panes -> Location]
      /\ visible => next.panes[next.active].selected = next.sel
  BY DEF IsSelection
<1>2. sel' = next.sel /\ active' = next.active /\ panes' = next.panes
      /\ form' = Selecting!committed(next.sel)
  BY DEF Selecting!Accept
<1>3. /\ form' \in SelForm /\ form'.work = Selecting!WorkOf(next.sel)
      /\ Selecting!submitting => form'.work = form.work
      /\ Selecting!Dirty => form'.work = form.work /\ form'.draft = form.draft
  BY <1>1, <1>2, CommittedRight
<1>4. SelTypeOK' BY <1>1, <1>2, <1>3, CancelledRight DEF SelTypeOK
<1>5. Selecting!SelectionIsBrowsed' BY <1>1, <1>2 DEF Selecting!SelectionIsBrowsed
<1>6. FormFits'
  <2>1. saving' # None => Selecting!submitting BY CancelledRight
  <2>2. Selecting!submitting => saving'.work = form'.work BY <1>3, CancelledRight DEF FormFits
  <2> QED BY <1>2, <1>3, <2>1, <2>2 DEF FormFits, Selecting!submitting
<1> QED BY <1>3, <1>4, <1>5, <1>6 DEF FormStays, DraftStays

\* Selecting, hoisting and restoring.
LEMMA SelectKeeps ==
  ASSUME SInv,
         NEW target \in Selecting!Placements \cup Selecting!Panes \cup {None},
           Selecting!Select(target)
  PROVE  SInv' /\ FormStays
<1>1. target \in items \cup Selecting!Panes \cup {None} BY DEF Selecting!Select
<1>2. CASE Selecting!canSelectImmediately(Selecting!Prepared(target).sel)
  <2>1. IsSelection(Selecting!Prepared(target)) BY <1>1, PreparedRight DEF SInv
  <2>2. Selecting!Accept(Selecting!Prepared(target)) /\ nav' = None
        /\ saving' = Selecting!cancelled
        /\ visible' = visible /\ stored' = stored /\ items' = items
    BY <1>2 DEF Selecting!Select
  <2> QED BY <1>2, <2>1, <2>2, AcceptedRight
<1>3. CASE ~Selecting!canSelectImmediately(Selecting!Prepared(target).sel)
  <2>1. /\ nav' = None /\ saving' = Selecting!cancelled
        /\ UNCHANGED <<items, stored, visible, sel, panes, active, form>>
    BY <1>3 DEF Selecting!Select
  <2>2. SelTypeOK' BY <2>1, CancelledRight DEF SInv, SelTypeOK
  <2>3. Selecting!SelectionIsBrowsed' BY <2>1 DEF SInv, Selecting!SelectionIsBrowsed
  <2>4. FormFits' BY <2>1, CancelledRight DEF SInv, FormFits, Selecting!submitting
  <2> QED BY <2>1, <2>2, <2>3, <2>4 DEF SInv, FormStays, DraftStays
<1> QED BY <1>2, <1>3

LEMMA SetHoistKeeps ==
  ASSUME SInv, NEW id, Selecting!SetHoist(id)
  PROVE  SInv' /\ FormStays
<1>1. /\ id \in items \cup {None} /\ nav' = None /\ saving' = Selecting!cancelled
      /\ panes' = [panes EXCEPT ![active] = Selecting!hoisted(@, id)]
      /\ UNCHANGED <<items, stored, visible, sel, active, form>>
  BY DEF Selecting!SetHoist
<1>2. id \in Ids BY <1>1 DEF SInv, SelTypeOK, Ids
<1>3. panes[active] \in Location /\ active \in Selecting!Panes BY DEF SInv, SelTypeOK
<1>4. [panes[active] EXCEPT !.hoist = id] \in Location BY <1>2, <1>3 DEF Location
<1>5. Selecting!hoisted(panes[active], id) \in Location
      /\ Selecting!hoisted(panes[active], id).selected = sel
  BY <1>4, BrowsedRight DEF Selecting!hoisted, SInv, SelTypeOK
<1>6. panes' \in [Selecting!Panes -> Location] /\ panes'[active].selected = sel
  BY <1>1, <1>3, <1>5 DEF SInv, SelTypeOK
<1>7. SelTypeOK' BY <1>1, <1>6, CancelledRight DEF SInv, SelTypeOK
<1>8. Selecting!SelectionIsBrowsed' BY <1>1, <1>6 DEF Selecting!SelectionIsBrowsed
<1>9. FormFits' BY <1>1, CancelledRight DEF SInv, FormFits, Selecting!submitting
<1> QED BY <1>1, <1>7, <1>8, <1>9 DEF SInv, FormStays, DraftStays

LEMMA RestoreInitialKeeps ==
  ASSUME SInv, NEW id, Selecting!RestoreInitial(id)
  PROVE  SInv' /\ FormStays
<1>1. /\ id \in items /\ ~Selecting!Dirty /\ ~Selecting!submitting /\ sel' = id /\ active' = "p1"
      /\ panes' = [panes EXCEPT !["p1"] = [selected |-> id, hoist |-> None]]
      /\ form' = Selecting!committed(id)
      /\ UNCHANGED <<items, stored, visible, saving, nav>>
  BY DEF Selecting!RestoreInitial
<1>2. id \in Ids /\ "p1" \in Selecting!Panes BY <1>1, Names DEF SInv, SelTypeOK, Ids
<1>3. [selected |-> id, hoist |-> None] \in Location BY <1>2 DEF Location, Ids
<1>4. panes' \in [Selecting!Panes -> Location] /\ panes'["p1"].selected = id
  BY <1>1, <1>2, <1>3 DEF SInv, SelTypeOK
<1>5. Selecting!canSelectImmediately(id) BY <1>1 DEF Selecting!canSelectImmediately
<1>6. form' \in SelForm /\ form'.work = Selecting!WorkOf(id)
  BY <1>1, <1>2, <1>5, CommittedRight DEF SInv
<1>7. SelTypeOK' BY <1>1, <1>2, <1>4, <1>6 DEF SInv, SelTypeOK
<1>8. Selecting!SelectionIsBrowsed' BY <1>1, <1>4 DEF Selecting!SelectionIsBrowsed
<1>9. FormFits' BY <1>1, <1>6 DEF FormFits, Selecting!submitting
<1> QED BY <1>1, <1>7, <1>8, <1>9 DEF SInv, FormStays

-----------------------------------------------------------------------------
\* Navigating.
LEMMA NavigateKeeps ==
  ASSUME SInv, NEW outline \in BOOLEAN, NEW id \in Ids, Selecting!Navigate(outline, id)
  PROVE  SInv' /\ FormStays
<1>1. /\ saving' = Selecting!cancelled
      /\ nav' = [outline |-> outline, id |-> id, at |-> "guard", asking |-> FALSE,
                 revoked |-> FALSE]
      /\ UNCHANGED <<items, stored, visible, sel, panes, active, form>>
  BY DEF Selecting!Navigate
<1>2. nav' \in SelNav BY <1>1 DEF SelNav
<1>3. SelTypeOK' BY <1>1, <1>2, CancelledRight DEF SInv, SelTypeOK
<1>4. Selecting!SelectionIsBrowsed' BY <1>1 DEF SInv, Selecting!SelectionIsBrowsed
<1>5. FormFits' BY <1>1, CancelledRight DEF SInv, FormFits, Selecting!submitting
<1> QED BY <1>1, <1>3, <1>4, <1>5 DEF SInv, FormStays, DraftStays

LEMMA NavGuardedKeeps == ASSUME SInv, Selecting!NavGuarded PROVE SInv' /\ FormStays
<1>1. /\ nav # None
      /\ nav' = [nav EXCEPT !.at = "read"] \/ nav' = [nav EXCEPT !.asking = TRUE]
      /\ UNCHANGED <<items, stored, visible, sel, panes, active, form, saving>>
  BY DEF Selecting!NavGuarded
<1>2. nav' \in SelNav BY <1>1 DEF SInv, SelTypeOK, SelNav
<1>3. SelTypeOK' BY <1>1, <1>2 DEF SInv, SelTypeOK
<1>4. Selecting!SelectionIsBrowsed' BY <1>1 DEF SInv, Selecting!SelectionIsBrowsed
<1>5. FormFits' BY <1>1 DEF SInv, FormFits, Selecting!submitting
<1> QED BY <1>1, <1>3, <1>4, <1>5 DEF SInv, FormStays, DraftStays

LEMMA NavReadKeeps == ASSUME SInv, Selecting!NavRead PROVE SInv' /\ FormStays
<1>1. nav # None /\ UNCHANGED <<items, stored, active, saving>> BY DEF Selecting!NavRead
<1>2. nav \in SelNav BY <1>1 DEF SInv, SelTypeOK
<1>3. CASE Selecting!Commit /\ form' = Selecting!committed(Selecting!NavTarget)
           /\ Selecting!mayCommit(Selecting!NavTarget)
  <2>1. /\ nav' = None /\ visible' = nav.outline /\ panes' = Selecting!NavPanes
        /\ sel' = Selecting!NavTarget
        /\ form' = Selecting!committed(Selecting!NavTarget)
        /\ Selecting!canSelectImmediately(Selecting!NavTarget)
    BY <1>3 DEF Selecting!Commit, Selecting!mayCommit
  <2>2. /\ Selecting!NavPanes \in [Selecting!Panes -> Location] /\ Selecting!NavTarget \in Ids
        /\ nav.outline => Selecting!NavPanes[active].selected = Selecting!NavTarget
    BY <1>1, NavRight DEF SInv
  <2>3. /\ form' \in SelForm /\ form'.work = Selecting!WorkOf(Selecting!NavTarget)
        /\ Selecting!submitting => form'.work = form.work
        /\ Selecting!Dirty => form'.work = form.work /\ form'.draft = form.draft
    BY <2>1, <2>2, CommittedRight DEF SInv
  <2>4. nav.outline \in BOOLEAN BY <1>2 DEF SelNav
  <2>5. SelTypeOK' BY <1>1, <2>1, <2>2, <2>3, <2>4 DEF SInv, SelTypeOK
  <2>6. Selecting!SelectionIsBrowsed' BY <1>1, <2>1, <2>2 DEF Selecting!SelectionIsBrowsed
  <2>7. FormFits' BY <1>1, <2>1, <2>3 DEF SInv, FormFits, Selecting!submitting
  <2> QED BY <2>3, <2>5, <2>6, <2>7 DEF SInv, FormStays, DraftStays
<1>4. CASE /\ nav' = None \/ nav' = [nav EXCEPT !.asking = TRUE]
           /\ UNCHANGED <<visible, sel, panes, form>>
  <2>1. nav' \in SelNav \cup {None} BY <1>2, <1>4 DEF SelNav
  <2>2. SelTypeOK' BY <1>1, <1>4, <2>1 DEF SInv, SelTypeOK
  <2>3. Selecting!SelectionIsBrowsed' BY <1>1, <1>4 DEF SInv, Selecting!SelectionIsBrowsed
  <2>4. FormFits' BY <1>1, <1>4 DEF SInv, FormFits, Selecting!submitting
  <2> QED BY <1>4, <2>2, <2>3, <2>4 DEF SInv, FormStays, DraftStays
<1> QED BY <1>3, <1>4 DEF Selecting!NavRead

-----------------------------------------------------------------------------
\* The form.
LEMMA EditKeeps == ASSUME SInv, NEW draft \in Selecting!Versions, Selecting!Edit(draft)
PROVE  SInv'
<1>1. /\ form' = [form EXCEPT !.draft = draft]
      /\ UNCHANGED <<items, stored, visible, sel, panes, active, saving, nav>>
  BY DEF Selecting!Edit
<1>2. form' \in SelForm /\ form'.work = form.work BY <1>1 DEF SInv, SelTypeOK, SelForm
<1>3. SelTypeOK' BY <1>1, <1>2 DEF SInv, SelTypeOK
<1>4. Selecting!SelectionIsBrowsed' BY <1>1 DEF SInv, Selecting!SelectionIsBrowsed
<1>5. FormFits' BY <1>1, <1>2 DEF SInv, FormFits, Selecting!submitting
<1> QED BY <1>3, <1>4, <1>5 DEF SInv

LEMMA SaveKeeps ==
  ASSUME SInv, NEW chosen \in BOOLEAN, NEW remove \in BOOLEAN, Selecting!Save(chosen, remove)
  PROVE  SInv' /\ FormStays
<1>1. /\ saving' = [work |-> form.work, draft |-> form.draft, at |-> "sent", goesOn |-> chosen,
                    value |-> IF remove THEN 0 ELSE form.draft]
      /\ UNCHANGED <<items, stored, visible, sel, panes, active, form, nav>>
  BY DEF Selecting!Save
<1>2. form.work \in Subjects /\ form.draft \in Selecting!Versions /\ 0 \in Selecting!Versions
  BY DEF SInv, SelTypeOK, SelForm, Selecting!Versions
<1>3. saving' \in SelSaving /\ saving'.work = form.work BY <1>1, <1>2 DEF SelSaving
<1>4. SelTypeOK' BY <1>1, <1>3 DEF SInv, SelTypeOK
<1>5. Selecting!SelectionIsBrowsed' BY <1>1 DEF SInv, Selecting!SelectionIsBrowsed
<1>6. FormFits' BY <1>1, <1>3 DEF SInv, FormFits
<1> QED BY <1>1, <1>4, <1>5, <1>6 DEF SInv, FormStays, DraftStays

LEMMA SaveServedKeeps == ASSUME SInv, Selecting!SaveServed PROVE SInv' /\ FormStays
<1>1. /\ Selecting!submitting /\ stored' = [stored EXCEPT ![saving.work] = saving.value]
      /\ saving' = [saving EXCEPT !.at = "served"]
      /\ UNCHANGED <<items, visible, sel, panes, active, form, nav>>
  BY DEF Selecting!SaveServed
<1>2. saving \in SelSaving BY <1>1 DEF SInv, SelTypeOK, Selecting!submitting
<1>3. saving' \in SelSaving /\ saving'.work = saving.work BY <1>1, <1>2 DEF SelSaving
<1>4. saving.value \in Selecting!Versions BY <1>2 DEF SelSaving
<1>5. stored' \in [{"x", "y"} -> Selecting!Versions] BY <1>1, <1>4 DEF SInv, SelTypeOK
<1>6. SelTypeOK' BY <1>1, <1>3, <1>5 DEF SInv, SelTypeOK
<1>7. Selecting!SelectionIsBrowsed' BY <1>1 DEF SInv, Selecting!SelectionIsBrowsed
<1>8. FormFits' BY <1>1, <1>3 DEF SInv, FormFits
<1> QED BY <1>1, <1>6, <1>7, <1>8 DEF SInv, FormStays, DraftStays

LEMMA SaveAnsweredKeeps ==
  ASSUME SInv, Selecting!SaveAnswered
  PROVE  SInv' /\ (Selecting!Dirty => DraftStays \/ form.draft = saving.draft)
<1>1. /\ Selecting!submitting /\ saving' = [saving EXCEPT !.at = "reload"]
      /\ UNCHANGED <<items, stored, visible, sel, panes, active, nav>>
  BY DEF Selecting!SaveAnswered
<1>2. saving \in SelSaving /\ form \in SelForm BY <1>1 DEF SInv, SelTypeOK, Selecting!submitting
<1>3. saving' \in SelSaving /\ saving'.work = saving.work BY <1>1, <1>2 DEF SelSaving
<1>4. PICK draft : draft = IF form.draft = saving.draft THEN saving.value ELSE form.draft
  OBVIOUS
<1>5. form' = form \/ form' = [form EXCEPT !.baseline = saving.value, !.draft = draft]
  BY <1>4 DEF Selecting!SaveAnswered
<1>6. draft \in Selecting!Versions /\ saving.value \in Selecting!Versions
  BY <1>2, <1>4 DEF SelSaving, SelForm
<1>7. form' \in SelForm /\ form'.work = form.work /\ (form'.draft = form.draft
        \/ form'.draft = draft)
  BY <1>2, <1>5, <1>6 DEF SelForm
<1>8. SelTypeOK' BY <1>1, <1>3, <1>7 DEF SInv, SelTypeOK
<1>9. Selecting!SelectionIsBrowsed' BY <1>1 DEF SInv, Selecting!SelectionIsBrowsed
<1>10. FormFits' BY <1>1, <1>3, <1>7 DEF SInv, FormFits
<1> QED BY <1>4, <1>7, <1>8, <1>9, <1>10 DEF SInv, DraftStays

LEMMA SaveFailsKeeps == ASSUME SInv, Selecting!SaveFails PROVE SInv' /\ FormStays
<1>1. saving' = None /\ UNCHANGED <<items, stored, visible, sel, panes, active, form, nav>>
  BY DEF Selecting!SaveFails
<1>2. SelTypeOK' BY <1>1 DEF SInv, SelTypeOK
<1>3. Selecting!SelectionIsBrowsed' BY <1>1 DEF SInv, Selecting!SelectionIsBrowsed
<1>4. FormFits' BY <1>1 DEF SInv, FormFits, Selecting!submitting
<1> QED BY <1>1, <1>2, <1>3, <1>4 DEF SInv, FormStays, DraftStays

-----------------------------------------------------------------------------
\* What waited for the user goes on, when no save is left.
LEMMA GoingOnRight ==
  ASSUME SInv,
         NEW clean \in SelForm, clean.work = form.work, Selecting!Asking, Selecting!goOn(clean),
         items' = items, stored' = stored, saving' = None
  PROVE  SInv'
<1> DEFINE FitsTarget(id) == form' = IF Selecting!WorkOf(id) = clean.work THEN clean
      ELSE Selecting!FormFor(id)
<1>1. \A id \in Ids : FitsTarget(id) => form' \in SelForm /\ form'.work = Selecting!WorkOf(id)
  BY FormForRight DEF SInv
<1>2. form' = clean => form' \in SelForm /\ form'.work = form.work OBVIOUS
<1> HIDE DEF FitsTarget
<1>3. CASE request # None
  <2>1. nav' = nav /\ visible' = visible BY <1>3 DEF Selecting!goOn
  <2>2. CASE request.target \in items \cup Selecting!Panes \cup {None}
    <3>1. PICK next : next = Selecting!Prepared(request.target) OBVIOUS
    <3>2. IsSelection(next) BY <2>2, <3>1, PreparedRight DEF SInv
    <3>3. sel' = next.sel /\ active' = next.active /\ panes' = next.panes /\ FitsTarget(next.sel)
      BY <1>3, <2>2, <3>1 DEF Selecting!goOn, FitsTarget
    <3>4. /\ next.sel \in Ids /\ next.active \in Selecting!Panes
          /\ next.panes \in [Selecting!Panes -> Location]
          /\ visible => next.panes[next.active].selected = next.sel
      BY <3>2 DEF IsSelection
    <3>5. form' \in SelForm /\ form'.work = Selecting!WorkOf(sel') BY <1>1, <3>3, <3>4
    <3>6. SelTypeOK' BY <2>1, <3>3, <3>4, <3>5 DEF SInv, SelTypeOK
    <3>7. Selecting!SelectionIsBrowsed' BY <2>1, <3>3, <3>4 DEF Selecting!SelectionIsBrowsed
    <3>8. FormFits' BY <3>5 DEF FormFits, Selecting!submitting
    <3> QED BY <3>6, <3>7, <3>8 DEF SInv
  <2>3. CASE request.target \notin items \cup Selecting!Panes \cup {None}
    <3>1. form' = clean /\ UNCHANGED <<sel, active, panes>> BY <1>3, <2>3 DEF Selecting!goOn
    <3>2. SelTypeOK' BY <1>2, <2>1, <3>1 DEF SInv, SelTypeOK
    <3>3. Selecting!SelectionIsBrowsed' BY <2>1, <3>1 DEF SInv, Selecting!SelectionIsBrowsed
    <3>4. FormFits' BY <1>2, <3>1 DEF SInv, FormFits, Selecting!submitting
    <3> QED BY <3>2, <3>3, <3>4 DEF SInv
  <2> QED BY <2>2, <2>3
<1>4. CASE request = None
  <2>1. active' = active /\ nav # None BY <1>4 DEF Selecting!goOn, Selecting!Asking
  <2>2. nav \in SelNav BY <2>1 DEF SInv, SelTypeOK
  <2>3. CASE /\ nav' = [nav EXCEPT !.asking = FALSE, !.at = "read"] \/ nav' = None
             /\ form' = clean /\ UNCHANGED <<visible, sel, panes>>
    <3>1. nav' \in SelNav \cup {None}
      <4>1. PICK asked : asked = [nav EXCEPT !.asking = FALSE] OBVIOUS
      <4>2. asked \in SelNav BY <2>2, <4>1 DEF SelNav
      <4>3. [asked EXCEPT !.at = "read"] \in SelNav BY <4>2 DEF SelNav
      <4> QED BY <2>3, <4>1, <4>3
    <3>2. SelTypeOK' BY <1>2, <2>1, <2>3, <3>1 DEF SInv, SelTypeOK
    <3>3. Selecting!SelectionIsBrowsed' BY <2>1, <2>3 DEF SInv, Selecting!SelectionIsBrowsed
    <3>4. FormFits' BY <1>2, <2>3 DEF SInv, FormFits, Selecting!submitting
    <3> QED BY <3>2, <3>3, <3>4 DEF SInv
  <2>4. CASE Selecting!Commit /\ FitsTarget(Selecting!NavTarget)
    <3>1. nav' = None /\ visible' = nav.outline /\ panes' = Selecting!NavPanes
          /\ sel' = Selecting!NavTarget
      BY <2>4 DEF Selecting!Commit
    <3>2. /\ Selecting!NavPanes \in [Selecting!Panes -> Location] /\ Selecting!NavTarget \in Ids
          /\ nav.outline => Selecting!NavPanes[active].selected = Selecting!NavTarget
      BY <2>1, NavRight DEF SInv
    <3>3. form' \in SelForm /\ form'.work = Selecting!WorkOf(Selecting!NavTarget)
      BY <1>1, <2>4, <3>2
    <3>4. nav.outline \in BOOLEAN BY <2>2 DEF SelNav
    <3>5. SelTypeOK' BY <2>1, <3>1, <3>2, <3>3, <3>4 DEF SInv, SelTypeOK
    <3>6. Selecting!SelectionIsBrowsed' BY <2>1, <3>1, <3>2 DEF Selecting!SelectionIsBrowsed
    <3>7. FormFits' BY <3>1, <3>3 DEF FormFits, Selecting!submitting
    <3> QED BY <3>5, <3>6, <3>7 DEF SInv
  <2>5. \/ /\ nav' = [nav EXCEPT !.asking = FALSE, !.at = "read"] \/ nav' = None
           /\ form' = clean /\ UNCHANGED <<visible, sel, panes>>
        \/ Selecting!Commit /\ FitsTarget(Selecting!NavTarget)
    BY <1>4 DEF Selecting!goOn, FitsTarget
  <2> QED BY <2>3, <2>4, <2>5
<1> QED BY <1>3, <1>4

\* What goes on after a save or a discard, and what is given up.
LEMMA SaveEndsKeeps == ASSUME SInv, Selecting!SaveEnds PROVE SInv' /\ FormStays
<1>1. saving' = None /\ items' = items /\ stored' = stored BY DEF Selecting!SaveEnds
<1>2. CASE Selecting!Asking /\ ~Selecting!Dirty /\ Selecting!goOn(form)
  <2>1. form \in SelForm BY DEF SInv, SelTypeOK
  <2>2. SInv' BY <1>1, <1>2, <2>1, GoingOnRight
  <2> QED BY <1>2, <2>2 DEF FormStays
<1>3. CASE UNCHANGED <<visible, sel, panes, active, form, request, nav>>
  <2>1. SelTypeOK' BY <1>1, <1>3 DEF SInv, SelTypeOK
  <2>2. Selecting!SelectionIsBrowsed' BY <1>3 DEF SInv, Selecting!SelectionIsBrowsed
  <2>3. FormFits' BY <1>1, <1>3 DEF SInv, FormFits, Selecting!submitting
  <2> QED BY <1>3, <2>1, <2>2, <2>3 DEF SInv, FormStays, DraftStays
<1> QED BY <1>2, <1>3 DEF Selecting!SaveEnds

LEMMA DiscardKeeps == ASSUME SInv, Selecting!Discard PROVE SInv'
<1>1. PICK clean : clean = [form EXCEPT !.draft = form.baseline] OBVIOUS
<1>2. /\ Selecting!Asking /\ saving = None /\ Selecting!goOn(clean)
      /\ items' = items /\ stored' = stored /\ saving' = saving
  BY <1>1 DEF Selecting!Discard, Selecting!submitting
<1>3. clean \in SelForm /\ clean.work = form.work BY <1>1 DEF SInv, SelTypeOK, SelForm
<1> QED BY <1>2, <1>3, GoingOnRight

LEMMA CancelKeeps == ASSUME SInv, Selecting!Cancel PROVE SInv' /\ FormStays
<1>1. nav' = None /\ UNCHANGED <<items, stored, visible, sel, panes, active, form, saving>>
  BY DEF Selecting!Cancel
<1>2. SelTypeOK' BY <1>1 DEF SInv, SelTypeOK
<1>3. Selecting!SelectionIsBrowsed' BY <1>1 DEF SInv, Selecting!SelectionIsBrowsed
<1>4. FormFits' BY <1>1 DEF SInv, FormFits, Selecting!submitting
<1> QED BY <1>1, <1>2, <1>3, <1>4 DEF SInv, FormStays, DraftStays

-----------------------------------------------------------------------------
\* A new snapshot: the selection and the active pane lose the same placements.
LEMMA PublishRight ==
  ASSUME SInv, NEW snapshot \in SUBSET Selecting!Placements, Selecting!Publish(snapshot),
         UNCHANGED <<stored, visible, active>>,
         saving' \in SelSaving \cup {None},
         saving' # None => Selecting!submitting /\ saving'.work = saving.work
  PROVE  SInv' /\ FormStays
<1>1. /\ items' = snapshot /\ sel' = Selecting!Kept(sel, snapshot)
      /\ panes' = IF visible THEN Selecting!Reconciled(panes, snapshot) ELSE panes
      /\ form' = Selecting!corrected(Selecting!Kept(sel, snapshot))
  BY DEF Selecting!Publish
<1>2. nav' \in SelNav \cup {None}
  <2>1. nav' = None \/ nav' = nav \/ (nav # None /\ nav' = [nav EXCEPT !.revoked = TRUE])
    BY DEF Selecting!Publish
  <2> QED BY <2>1 DEF SInv, SelTypeOK, SelNav
<1>3. /\ Selecting!Kept(sel, snapshot) \in Ids
      /\ Selecting!Kept(sel, snapshot) # None => Selecting!Kept(sel, snapshot) = sel
  BY DEF Selecting!Kept, Ids
<1>4. /\ form' \in SelForm /\ (sel' # None => form'.work = Selecting!WorkOf(sel'))
      /\ Selecting!submitting => form'.work = form.work
      /\ Selecting!Dirty => form'.work = form.work /\ form'.draft = form.draft
  BY <1>1, <1>3, CorrectedRight DEF SInv, FormFits
<1>5. panes' \in [Selecting!Panes -> Location] /\ (visible => panes'[active].selected = sel')
  BY <1>1, ReconciledRight DEF SInv, SelTypeOK, Selecting!SelectionIsBrowsed
<1>6. SelTypeOK' BY <1>1, <1>2, <1>3, <1>4, <1>5 DEF SInv, SelTypeOK
<1>7. Selecting!SelectionIsBrowsed' BY <1>5 DEF Selecting!SelectionIsBrowsed
<1>8. FormFits' BY <1>4 DEF SInv, FormFits, Selecting!submitting
<1> QED BY <1>4, <1>6, <1>7, <1>8 DEF SInv, FormStays, DraftStays

\* The reloads.
LEMMA ReloadKeeps ==
  ASSUME SInv, NEW lost, Selecting!Reload(lost)
  PROVE  SInv' /\ FormStays
<1>1. /\ Selecting!Publish(items \ lost) /\ UNCHANGED <<stored, visible, active>>
      /\ saving' = Selecting!cancelled \/ saving' = saving
  BY DEF Selecting!Reload
<1>2. items \ lost \in SUBSET Selecting!Placements BY DEF SInv, SelTypeOK
<1>3. /\ saving' \in SelSaving \cup {None}
      /\ saving' # None => Selecting!submitting /\ saving'.work = saving.work
  BY <1>1, CancelledRight DEF SInv, SelTypeOK, Selecting!submitting
<1> QED BY <1>1, <1>2, <1>3, PublishRight

LEMMA SaveReloadsKeeps == ASSUME SInv, Selecting!SaveReloads PROVE SInv' /\ FormStays
<1>1. /\ Selecting!submitting /\ Selecting!Publish(items)
      /\ saving' = [saving EXCEPT !.at = "reloaded"]
      /\ UNCHANGED <<stored, visible, active>>
  BY DEF Selecting!SaveReloads
<1>2. saving \in SelSaving BY <1>1 DEF SInv, SelTypeOK, Selecting!submitting
<1>3. saving' \in SelSaving /\ saving'.work = saving.work BY <1>1, <1>2 DEF SelSaving
<1>4. items \in SUBSET Selecting!Placements BY DEF SInv, SelTypeOK
<1> QED BY <1>1, <1>3, <1>4, PublishRight

-----------------------------------------------------------------------------
\* Every step keeps the invariant and, unless it is the user's own, what was typed.
LEMMA SelStuttering == ASSUME SInv, UNCHANGED Selecting!vars PROVE SInv' /\ FormStays
<1>1. UNCHANGED <<items, stored, visible, sel, panes, active, form, saving, nav>>
  BY DEF Selecting!vars
<1>2. SelTypeOK' BY <1>1 DEF SInv, SelTypeOK
<1>3. Selecting!SelectionIsBrowsed' BY <1>1 DEF SInv, Selecting!SelectionIsBrowsed
<1>4. FormFits' BY <1>1 DEF SInv, FormFits, Selecting!submitting
<1> QED BY <1>1, <1>2, <1>3, <1>4 DEF SInv, FormStays, DraftStays

LEMMA SelStep == ASSUME SInv, [Selecting!Next]_Selecting!vars PROVE SInv' /\ Selecting!DraftIsKept
<1> SUFFICES /\ SInv'
             /\ \/ FormStays
                \/ Selecting!Discard \/ \E draft \in Selecting!Versions : Selecting!Edit(draft)
                \/ Selecting!SaveAnswered /\ (Selecting!Dirty => DraftStays
                    \/ form.draft = saving.draft)
  BY DEF FormStays, DraftStays, Selecting!DraftIsKept
<1>1. CASE \E target \in Selecting!Placements \cup Selecting!Panes \cup {None}
               : Selecting!Select(target)
  BY <1>1, SelectKeeps
<1>2. CASE \E id \in {"x1", None} : Selecting!SetHoist(id) \/ Selecting!RestoreInitial(id)
  BY <1>2, SetHoistKeeps, RestoreInitialKeeps
<1>3. CASE \E outline \in BOOLEAN, id \in Selecting!Placements \cup {None}
               : Selecting!Navigate(outline, id)
  BY <1>3, NavigateKeeps DEF Ids
<1>4. CASE Selecting!NavGuarded \/ Selecting!NavRead BY <1>4, NavGuardedKeeps, NavReadKeeps
<1>5. CASE \E draft \in Selecting!Versions : Selecting!Edit(draft) BY <1>5, EditKeeps
<1>6. CASE \E chosen, remove \in BOOLEAN : Selecting!Save(chosen, remove) BY <1>6, SaveKeeps
<1>7. CASE Selecting!SaveServed \/ Selecting!SaveFails \/ Selecting!SaveReloads
             \/ Selecting!SaveEnds
  BY <1>7, SaveServedKeeps, SaveFailsKeeps, SaveReloadsKeeps, SaveEndsKeeps
<1>8. CASE Selecting!SaveAnswered BY <1>8, SaveAnsweredKeeps
<1>9. CASE Selecting!Discard BY <1>9, DiscardKeeps
<1>10. CASE Selecting!Cancel BY <1>10, CancelKeeps
<1>11. CASE \E id \in Selecting!Placements \cup {None} : Selecting!Reload({id})
  BY <1>11, ReloadKeeps
<1>12. CASE UNCHANGED Selecting!vars BY <1>12, SelStuttering
<1> QED
  BY <1>1, <1>2, <1>3, <1>4, <1>5, <1>6, <1>7, <1>8, <1>9, <1>10, <1>11, <1>12 DEF Selecting!Next

-----------------------------------------------------------------------------
(* Manuscripts.                                                            *)

\* What the variables are.
Text == [of : Works, edit : Nat] \cup {None, "nothing"}
Form == [active : BOOLEAN, work : Works \cup {None}, text : Text, dirty : BOOLEAN]
SaveCall ==
  [at : {"none", "waiting", "flush", "sent", "written", "reload", "ok", "failed"},
   work : Works \cup {None}, text : Text, on : 0..MaxCalls, close : BOOLEAN]
Nav == [work : Works \cup {None}, at : {"prepare", "finish", "read"}, call : Manuscript!Calls,
        version : Nat, row : Text]

FormTypeOK ==
  /\ stored \in [Works -> Text] /\ typed \in [Works -> Text] /\ form \in Form
  /\ version \in Nat /\ save \in [Manuscript!Calls -> SaveCall] /\ promise \in 0..MaxCalls
  /\ nav \in Nav \cup {None}

WritingNow(c) == save[c].at \in {"flush", "sent", "written", "reload"}

\* What is unsaved is what was typed last.
FormIsRight ==
  /\ form.dirty => form.active /\ typed[form.work] = form.text
  /\ form.active <=> form.work \in Works

\* One call of save writes, the one that the others wait for.
WriterIsPromised(c) == WritingNow(c) <=> promise = c

\* Who waits waits for another, and finds nothing unsaved once that has succeeded.
WaiterIsRight(c) ==
  save[c].at = "waiting" =>
    /\ save[c].on \in Manuscript!Calls
    /\ ~WritingNow(save[c].on) => save[save[c].on].at \in {"ok", "failed"}
    /\ save[save[c].on].at = "ok" => ~form.dirty

\* A navigation whose save has succeeded finds unsaved text only if more was typed.
NavIsRight ==
  nav # None =>
    /\ nav.version <= version
    /\ nav.at = "read" => save[nav.call].at = "ok"
    /\ save[nav.call].at = "ok" /\ nav.version = version => ~form.dirty

\* The manuscript stays unsaved until the write is read back.
WriterIsRight(c) ==
  ~abandoned /\ WritingNow(c) =>
    /\ form.active /\ form.work = save[c].work
    /\ save[c].at # "flush" => form.dirty
    /\ save[c].at \in {"written", "reload"} => stored[form.work] = save[c].text

LInv ==
  /\ FormTypeOK /\ FormIsRight /\ NavIsRight /\ Manuscript!TypedIsKept
  /\ \A c \in Manuscript!Calls : WriterIsPromised(c) /\ WaiterIsRight(c) /\ WriterIsRight(c)

\* What every step does besides: see Manuscript!Next.
Abandons == abandoned' = (abandoned \/ (form'.work # form.work /\ Manuscript!Writing'))

\* There is no manuscript at first.
LEMMA FormInitial == ASSUME Manuscript!Init PROVE LInv
<1> USE NoneAssumption, CallsAssumption
<1>1. FormTypeOK
  <2>1. Manuscript!NoForm \in Form /\ Manuscript!NoSave \in SaveCall
    BY DEF Manuscript!NoForm, Manuscript!NoSave, Form, SaveCall, Text
  <2>2. \A w \in Works : [of |-> w, edit |-> 0] \in Text BY DEF Text
  <2>3. None \in Text /\ 0 \in 0..MaxCalls BY DEF Text
  <2> QED BY <2>1, <2>2, <2>3 DEF Manuscript!Init, FormTypeOK
<1>2. FormIsRight /\ NavIsRight
  <2>1. Manuscript!NoForm.dirty = FALSE /\ Manuscript!NoForm.active = FALSE
        /\ Manuscript!NoForm.work = None
    BY DEF Manuscript!NoForm
  <2> QED BY <2>1 DEF Manuscript!Init, FormIsRight, NavIsRight
<1>3. Manuscript!TypedIsKept BY DEF Manuscript!Init, Manuscript!TypedIsKept
<1>4. ASSUME NEW c \in Manuscript!Calls
      PROVE  WriterIsPromised(c) /\ WaiterIsRight(c) /\ WriterIsRight(c)
  BY
  DEF Manuscript!Init, WriterIsPromised, WaiterIsRight, WriterIsRight, WritingNow,
      Manuscript!NoSave, Manuscript!Calls
<1> QED BY <1>1, <1>2, <1>3, <1>4 DEF LInv

\* While nothing waits in vain
LEMMA QuietWaits ==
  ASSUME LInv, Manuscript!Quiet, NEW c \in Manuscript!Calls, save[c].at = "waiting"
  PROVE  save[c].on \in Manuscript!Calls /\ WritingNow(save[c].on)
BY DEF LInv, Manuscript!Quiet, WaiterIsRight, WritingNow, Manuscript!Unfinished

\* The calls stay and form changes.
LEMMA FormType == ASSUME LInv, Abandons, Manuscript!Quiet, Manuscript!Type PROVE LInv'
<1> USE NoneAssumption, CallsAssumption
<1>0. FormTypeOK BY DEF LInv
<1>1. PICK text : text = [of |-> form.work, edit |-> version + 1] OBVIOUS
<1>2. /\ form.active /\ version' = version + 1
      /\ form' = [form EXCEPT !.text = text, !.dirty = TRUE]
      /\ typed' = [typed EXCEPT ![form.work] = text]
      /\ UNCHANGED <<stored, save, promise, reading, nav, asking>>
  BY <1>1 DEF Manuscript!Type
<1>3. form.work \in Works BY <1>2 DEF LInv, FormIsRight
<1>4. text \in Text BY <1>0, <1>1, <1>3 DEF Text, FormTypeOK
<1>5. form' \in Form /\ form'.active /\ form'.work = form.work /\ form'.dirty /\ form'.text = text
  BY <1>0, <1>2, <1>4 DEF Form, FormTypeOK
<1>6. ~abandoned' => ~abandoned BY DEF Abandons
<1>7. FormTypeOK'
  <2>1. typed' \in [Works -> Text] BY <1>0, <1>2, <1>4 DEF FormTypeOK
  <2>2. version' \in Nat BY <1>0, <1>2 DEF FormTypeOK
  <2> QED BY <1>0, <1>2, <1>5, <2>1, <2>2 DEF FormTypeOK
<1>8. FormIsRight'
  <2>1. typed'[form.work] = text BY <1>0, <1>2, <1>3 DEF FormTypeOK
  <2> QED BY <1>3, <1>5, <2>1 DEF FormIsRight
<1>9. NavIsRight'
  <2> SUFFICES ASSUME nav # None PROVE nav.version < version'
    BY <1>0, <1>2 DEF LInv, NavIsRight, FormTypeOK, Nav
  <2> QED BY <1>0, <1>2 DEF LInv, NavIsRight, FormTypeOK, Nav
<1>10. Manuscript!TypedIsKept'
  <2> SUFFICES ASSUME ~abandoned, NEW w \in Works, typed'[w] # None
               PROVE  stored[w] = typed'[w] \/ (w = form.work /\ text = typed'[w])
    BY <1>2, <1>5, <1>6 DEF Manuscript!TypedIsKept
  <2>1. CASE w = form.work BY <1>0, <1>2, <2>1 DEF FormTypeOK
  <2>2. CASE w # form.work BY <1>0, <1>2, <2>2 DEF FormTypeOK, LInv, Manuscript!TypedIsKept
  <2> QED BY <2>1, <2>2
<1>11. ASSUME NEW c \in Manuscript!Calls
       PROVE  WriterIsPromised(c)' /\ WaiterIsRight(c)' /\ WriterIsRight(c)'
  <2>1. WriterIsPromised(c)' BY <1>2 DEF LInv, WriterIsPromised, WritingNow
  <2>2. WaiterIsRight(c)' BY <1>2, QuietWaits DEF WaiterIsRight, WritingNow
  <2>3. WriterIsRight(c)' BY <1>2, <1>5, <1>6 DEF LInv, WriterIsRight, WritingNow
  <2> QED BY <2>1, <2>2, <2>3
<1> QED BY <1>7, <1>8, <1>9, <1>10, <1>11 DEF LInv

\* Nothing but what is on screen changes, and nothing unsaved goes away: Cancel, Discard
\* and Keep.
LEMMA FormCloses ==
  ASSUME LInv, Abandons, form' = Manuscript!NoForm \/ form' = form,
         form' = form => typed' = typed,
         UNCHANGED <<stored, version, save, promise, nav>>,
         typed' \in [Works -> Text],
         \A w \in Works : typed'[w] = typed[w] \/ (typed'[w] = None /\ w = form.work),
         form' # form => ~form.dirty \/ (form.active /\ typed'[form.work] = None)
  PROVE  LInv'
<1> USE NoneAssumption, CallsAssumption
<1>0. FormTypeOK BY DEF LInv
<1>1. Manuscript!NoForm \in Form /\ ~Manuscript!NoForm.active /\ Manuscript!NoForm.work = None
      /\ ~Manuscript!NoForm.dirty
  BY DEF Manuscript!NoForm, Form, Text
<1>2. FormTypeOK' BY <1>0, <1>1 DEF FormTypeOK
<1>3. FormIsRight' BY <1>1 DEF FormIsRight, LInv
<1>4. NavIsRight' BY <1>0, <1>1 DEF LInv, NavIsRight
<1>5. ~abandoned' => ~abandoned BY DEF Abandons
<1>6. Manuscript!TypedIsKept'
  <2>1. CASE form' = form BY <1>5, <2>1 DEF LInv, Manuscript!TypedIsKept
  <2>2. CASE form' # form BY <1>1, <1>5, <2>2 DEF LInv, Manuscript!TypedIsKept, FormIsRight
  <2> QED BY <2>1, <2>2
<1>7. ASSUME NEW c \in Manuscript!Calls
      PROVE  WriterIsPromised(c)' /\ WaiterIsRight(c)' /\ WriterIsRight(c)'
  <2>1. WriterIsPromised(c)' BY DEF LInv, WriterIsPromised, WritingNow
  <2>2. WaiterIsRight(c)' BY <1>1 DEF LInv, WaiterIsRight, WritingNow
  <2>3. WriterIsRight(c)'
    <3>1. CASE form' = form BY <1>5, <3>1 DEF LInv, WriterIsRight, WritingNow
    <3>2. CASE form' = Manuscript!NoForm
      <4> SUFFICES ASSUME ~abandoned', WritingNow(c)' PROVE form' = form
        BY <3>1 DEF WriterIsRight
      <4>1. Manuscript!Writing' BY DEF Manuscript!Writing, WritingNow
      <4>2. ~abandoned /\ form.work = None BY <1>1, <3>2, <4>1 DEF Abandons
      <4>3. WritingNow(c) BY DEF WritingNow
      <4> QED BY <4>2, <4>3 DEF LInv, WriterIsRight, FormIsRight
    <3> QED BY <3>1, <3>2
  <2> QED BY <2>1, <2>2, <2>3
<1> QED BY <1>2, <1>3, <1>4, <1>6, <1>7 DEF LInv

\* Closing the manuscript, or not.
LEMMA FormCancel == ASSUME LInv, Abandons, Manuscript!Cancel PROVE LInv'
BY FormCloses DEF Manuscript!Cancel, LInv, FormTypeOK

LEMMA FormKeep == ASSUME LInv, Abandons, Manuscript!Keep PROVE LInv'
BY FormCloses DEF Manuscript!Keep, LInv, FormTypeOK

LEMMA FormDiscard == ASSUME LInv, Abandons, Manuscript!Discard PROVE LInv'
<1> USE NoneAssumption, CallsAssumption
<1>0. FormTypeOK /\ FormIsRight BY DEF LInv
<1>1. /\ form' = Manuscript!NoForm /\ UNCHANGED <<stored, version, save, promise, nav>>
      /\ typed' = IF form.active THEN [typed EXCEPT ![form.work] = None] ELSE typed
  BY DEF Manuscript!Discard
<1>2. typed' \in [Works -> Text] BY <1>0, <1>1 DEF FormTypeOK, Text
<1>3. \A w \in Works : typed'[w] = typed[w] \/ (typed'[w] = None /\ w = form.work)
  BY <1>0, <1>1 DEF FormTypeOK
<1>4. form.dirty => typed'[form.work] = None BY <1>0, <1>1 DEF FormIsRight, FormTypeOK
<1>5. form' = form => typed' = typed BY <1>1 DEF Manuscript!NoForm
<1> QED BY <1>0, <1>1, <1>2, <1>3, <1>4, <1>5, FormCloses DEF FormIsRight

-----------------------------------------------------------------------------
\* What a call of save begins with.
LEMMA CalledFields ==
  ASSUME FormTypeOK, NEW c \in Manuscript!Calls, NEW close \in BOOLEAN
  PROVE  LET all == Manuscript!Called(c, close) IN
         /\ all \in [Manuscript!Calls -> SaveCall]
         /\ \A d \in Manuscript!Calls \ {c} : all[d] = save[d]
         /\ Manuscript!PromiseAfter(c) \in 0..MaxCalls
         /\ \/ ~form.active /\ all[c].at = "ok" /\ Manuscript!PromiseAfter(c) = promise
            \/ /\ promise # 0 /\ all[c].at = "waiting" /\ all[c].on = promise
               /\ Manuscript!PromiseAfter(c) = promise
            \/ /\ form.active /\ promise = 0 /\ all[c].at = "flush"
               /\ all[c].work = form.work /\ Manuscript!PromiseAfter(c) = c
<1> USE NoneAssumption, CallsAssumption
<1>1. Manuscript!NoSave \in SaveCall BY DEF Manuscript!NoSave, SaveCall, Text
<1>2. PICK made : made = IF ~form.active THEN [Manuscript!NoSave EXCEPT !.at = "ok"]
        ELSE IF promise # 0
          THEN [Manuscript!NoSave EXCEPT !.at = "waiting", !.on = promise, !.close = close]
        ELSE [Manuscript!NoSave EXCEPT !.at = "flush", !.work = form.work, !.close = close]
  OBVIOUS
<1>3. Manuscript!Called(c, close) = [save EXCEPT ![c] = made] BY <1>2 DEF Manuscript!Called
<1>4. /\ made \in SaveCall
      /\ \/ ~form.active /\ made.at = "ok"
         \/ form.active /\ promise # 0 /\ made.at = "waiting" /\ made.on = promise
         \/ form.active /\ promise = 0 /\ made.at = "flush" /\ made.work = form.work
  BY <1>1, <1>2 DEF FormTypeOK, Form, SaveCall, Manuscript!NoSave
<1>5. c \in 0..MaxCalls BY DEF Manuscript!Calls
<1> HIDE DEF Manuscript!PromiseAfter
<1>6. Manuscript!PromiseAfter(c) = IF form.active /\ promise = 0 THEN c ELSE promise
  BY DEF Manuscript!PromiseAfter
<1> QED BY <1>3, <1>4, <1>5, <1>6 DEF FormTypeOK

\* A call of save that begins, alone or for a navigation.
LEMMA FormCall ==
  ASSUME LInv, Abandons, Manuscript!Quiet, NEW c \in Manuscript!Calls,
         NEW close \in BOOLEAN, Manuscript!Over(c),
         save' = Manuscript!Called(c, close), promise' = Manuscript!PromiseAfter(c),
         UNCHANGED <<stored, form, version, typed>>,
         \/ nav' = nav /\ (nav # None => nav.call # c)
         \/ nav' \in Nav /\ nav'.call = c /\ nav'.version = version /\ nav'.at # "read"
  PROVE  LInv'
<1> USE NoneAssumption, CallsAssumption
<1>0. FormTypeOK /\ FormIsRight BY DEF LInv
<1>1. PICK all, p : all = Manuscript!Called(c, close) /\ p = Manuscript!PromiseAfter(c) OBVIOUS
<1>2. save' = all /\ promise' = p BY <1>1
<1>3. /\ all \in [Manuscript!Calls -> SaveCall]
      /\ \A d \in Manuscript!Calls \ {c} : all[d] = save[d]
      /\ p \in 0..MaxCalls
      /\ \/ ~form.active /\ all[c].at = "ok" /\ p = promise
         \/ promise # 0 /\ all[c].at = "waiting" /\ all[c].on = promise /\ p = promise
         \/ /\ form.active /\ promise = 0 /\ all[c].at = "flush"
            /\ all[c].work = form.work /\ p = c
  BY <1>0, <1>1, CalledFields
<1>4. /\ ~WritingNow(c) /\ promise # c
      /\ \A d \in Manuscript!Calls : save[d].at = "waiting" => save[d].on # c
  BY DEF Manuscript!Over, Manuscript!Unfinished, WritingNow, LInv, WriterIsPromised
<1>5. ~abandoned' => ~abandoned BY DEF Abandons
<1>6. FormTypeOK' BY <1>0, <1>2, <1>3 DEF FormTypeOK
<1>7. FormIsRight' /\ Manuscript!TypedIsKept'
  BY <1>5 DEF LInv, FormIsRight, Manuscript!TypedIsKept
<1>8. ~form.active => ~form.dirty BY <1>0 DEF FormIsRight
<1>9. NavIsRight'
  <2>1. CASE nav' = nav /\ (nav # None => nav.call # c)
    BY <1>0, <1>2, <1>3, <2>1 DEF LInv, NavIsRight, FormTypeOK, Nav
  <2>2. CASE nav' \in Nav /\ nav'.call = c /\ nav'.version = version /\ nav'.at # "read"
    BY <1>0, <1>2, <1>3, <1>8, <2>2 DEF NavIsRight, FormTypeOK
  <2> QED BY <2>1, <2>2
<1>10. promise # 0 => promise \in Manuscript!Calls /\ WritingNow(promise)
  BY <1>0 DEF FormTypeOK, Manuscript!Calls, LInv, WriterIsPromised
<1>11. \A d \in Manuscript!Calls : WritingNow(d)' <=> all[d].at \in {"flush", "sent", "written",
           "reload"}
  BY <1>2 DEF WritingNow
<1>12. ASSUME NEW d \in Manuscript!Calls
       PROVE  WriterIsPromised(d)' /\ WaiterIsRight(d)' /\ WriterIsRight(d)'
  <2>1. WriterIsPromised(d)'
    <3>1. CASE d = c BY <1>2, <1>3, <1>4, <1>11, <3>1 DEF WriterIsPromised, Manuscript!Calls
    <3>2. CASE d # c
      <4>1. WritingNow(d) <=> promise = d BY DEF LInv, WriterIsPromised
      <4>2. WritingNow(d)' <=> WritingNow(d) BY <1>3, <1>11, <3>2 DEF WritingNow
      <4> QED BY <1>2, <1>3, <3>2, <4>1, <4>2 DEF WriterIsPromised, Manuscript!Calls
    <3> QED BY <3>1, <3>2
  <2>2. WaiterIsRight(d)'
    <3> SUFFICES ASSUME all[d].at = "waiting"
                 PROVE  all[d].on \in Manuscript!Calls /\ WritingNow(all[d].on)'
      BY <1>2 DEF WaiterIsRight, WritingNow
    <3>1. CASE d = c BY <1>3, <1>4, <1>10, <1>11, <3>1 DEF WritingNow
    <3>2. CASE d # c
      <4>1. save[d].on \in Manuscript!Calls /\ WritingNow(save[d].on) /\ all[d].on = save[d].on
        BY <1>3, <3>2, QuietWaits
      <4> QED BY <1>3, <1>4, <1>11, <4>1 DEF WritingNow
    <3> QED BY <3>1, <3>2
  <2>3. WriterIsRight(d)'
    <3>1. CASE d = c BY <1>2, <1>3, <3>1 DEF WriterIsRight, WritingNow
    <3>2. CASE d # c BY <1>2, <1>3, <1>5, <3>2 DEF LInv, WriterIsRight, WritingNow
    <3> QED BY <3>1, <3>2
  <2> QED BY <2>1, <2>2, <2>3
<1> QED BY <1>6, <1>7, <1>9, <1>12 DEF LInv

\* The calls of save: the user's own and those of navigations.
LEMMA FormRewrite == ASSUME LInv, Abandons, Manuscript!Quiet, Manuscript!Rewrite PROVE LInv'
<1>1. PICK c \in Manuscript!Calls : /\ Manuscript!Over(c)
           /\ save' = Manuscript!Called(c, TRUE) /\ promise' = Manuscript!PromiseAfter(c)
                         /\ UNCHANGED <<stored, form, version, nav, typed>>
  BY DEF Manuscript!Rewrite, Manuscript!Free
<1> QED BY <1>1, FormCall DEF Manuscript!Over

LEMMA FormNavigate ==
  ASSUME LInv, Abandons, Manuscript!Quiet,
         NEW work \in Works \cup {None}, Manuscript!Navigate(work) PROVE LInv'
<1>1. PICK c \in Manuscript!Calls :
        /\ Manuscript!Over(c) /\ save' = Manuscript!Called(c, FALSE)
        /\ promise' = Manuscript!PromiseAfter(c)
        /\ nav' = [work |-> work, at |-> "prepare", call |-> c, version |-> version, row |-> None]
        /\ UNCHANGED <<stored, form, version, typed>>
  BY DEF Manuscript!Navigate, Manuscript!Free
<1>2. nav' \in Nav /\ nav'.call = c /\ nav'.version = version /\ nav'.at # "read"
  BY <1>1 DEF LInv, FormTypeOK, Nav, Text
<1> QED BY <1>1, <1>2, FormCall

LEMMA FormFinishes == ASSUME LInv, Abandons, Manuscript!Quiet, Manuscript!Finishes PROVE LInv'
<1>1. PICK c \in Manuscript!Calls :
        /\ Manuscript!Over(c) /\ save' = Manuscript!Called(c, FALSE)
        /\ promise' = Manuscript!PromiseAfter(c)
        /\ nav # None /\ nav' = [nav EXCEPT !.at = "finish", !.call = c, !.version = version]
        /\ UNCHANGED <<stored, form, version, typed>>
  BY DEF Manuscript!Finishes, Manuscript!Free
<1>2. nav' \in Nav /\ nav'.call = c /\ nav'.version = version /\ nav'.at # "read"
  BY <1>1 DEF LInv, FormTypeOK, Nav
<1> QED BY <1>1, <1>2, FormCall

-----------------------------------------------------------------------------
\* The call that writes goes on, or ends.
LEMMA FormWriter ==
  ASSUME LInv, Abandons, Manuscript!Quiet, NEW c \in Manuscript!Calls, WritingNow(c),
         NEW next \in SaveCall,
         save' = [save EXCEPT ![c] = next], UNCHANGED <<version, nav, typed>>,
         stored' \in [Works -> Text], form' \in Form, FormIsRight', Manuscript!TypedIsKept',
         form'.dirty => form.dirty,
         \/ next.at \in {"sent", "written", "reload"} /\ promise' = promise
         \/ next.at \in {"ok", "failed"} /\ promise' = 0,
         next.at = "ok" => ~form'.dirty,
         ~abandoned' /\ next.at \in {"sent", "written", "reload"} =>
           /\ form'.active /\ form'.work = next.work /\ form'.dirty
           /\ next.at # "sent" => stored'[form'.work] = next.text
  PROVE  LInv'
<1> USE NoneAssumption, CallsAssumption
<1>0. FormTypeOK BY DEF LInv
<1>1. FormTypeOK' BY <1>0 DEF FormTypeOK
<1>3. save'[c] = next /\ \A d \in Manuscript!Calls \ {c} : save'[d] = save[d]
  BY <1>0 DEF FormTypeOK
<1>2. NavIsRight'
  <2> SUFFICES ASSUME nav # None
               PROVE  /\ nav.version <= version
                      /\ nav.at = "read" => save'[nav.call].at = "ok"
                      /\ save'[nav.call].at = "ok" /\ nav.version = version => ~form'.dirty
    BY DEF NavIsRight
  <2>1. nav.call \in Manuscript!Calls BY <1>0 DEF FormTypeOK, Nav
  <2>2. save[c].at # "ok" BY DEF WritingNow
  <2> QED BY <1>3, <2>1, <2>2 DEF LInv, NavIsRight
<1>4. promise = c BY DEF LInv, WriterIsPromised
<1>5. \A d \in Manuscript!Calls \ {c} : ~WritingNow(d) BY <1>4 DEF LInv, WriterIsPromised
<1>6. 0 \notin Manuscript!Calls BY DEF Manuscript!Calls
<1>7. ASSUME NEW d \in Manuscript!Calls
      PROVE  WriterIsPromised(d)' /\ WaiterIsRight(d)' /\ WriterIsRight(d)'
  <2>1. WriterIsPromised(d)' BY <1>3, <1>4, <1>5, <1>6 DEF WriterIsPromised, WritingNow
  <2>2. WaiterIsRight(d)'
    <3> SUFFICES ASSUME save'[d].at = "waiting"
                 PROVE  /\ save'[d].on = c
                        /\ ~WritingNow(c)' => next.at \in {"ok", "failed"}
      BY <1>3 DEF WaiterIsRight, WritingNow
    <3>1. d # c BY <1>3
    <3>2. save[d].at = "waiting" /\ save'[d].on = save[d].on BY <1>3, <3>1
    <3>3. save[d].on = c BY <1>5, <3>2, QuietWaits
    <3> QED BY <1>3, <3>2, <3>3 DEF WritingNow
  <2>3. WriterIsRight(d)'
    <3>1. CASE d = c BY <1>3, <3>1 DEF WriterIsRight, WritingNow
    <3>2. CASE d # c BY <1>3, <1>5, <3>2 DEF WriterIsRight, WritingNow
    <3> QED BY <3>1, <3>2
  <2> QED BY <2>1, <2>2, <2>3
<1> QED BY <1>1, <1>2, <1>7 DEF LInv

\* The head of the loop, with the form as it is or as saved.
LEMMA FormLoop ==
  ASSUME LInv, Abandons, Manuscript!Quiet, NEW c \in Manuscript!Calls, WritingNow(c), NEW now,
         \/ now = form
         \/ /\ now = [form EXCEPT !.dirty = FALSE]
            /\ ~abandoned => stored[form.work] = form.text,
         Manuscript!Loop(c, now), UNCHANGED <<stored, version, nav, typed>>
  PROVE  LInv'
<1> USE NoneAssumption, CallsAssumption
<1>0. FormTypeOK /\ FormIsRight BY DEF LInv
<1>1. /\ now \in Form /\ now.active = form.active /\ now.work = form.work
      /\ now.text = form.text /\ (now.dirty => form.dirty) /\ (now.dirty => now = form)
  BY <1>0 DEF FormTypeOK, Form
<1>2. now.dirty => now = form BY <1>1
<1>3. ~abandoned' => ~abandoned BY DEF Abandons
<1>4. save[c] \in SaveCall BY <1>0 DEF FormTypeOK
<1>5. Manuscript!NoForm \in Form /\ ~Manuscript!NoForm.active /\ Manuscript!NoForm.work = None
      /\ ~Manuscript!NoForm.dirty
  BY DEF Manuscript!NoForm, Form, Text
<1>6. CASE now.dirty
  <2>1. PICK next : next = [save[c] EXCEPT !.at = "sent", !.text = form.text] OBVIOUS
  <2>2. next \in SaveCall /\ next.at = "sent" /\ next.work = save[c].work
    BY <1>0, <1>4, <2>1 DEF SaveCall, FormTypeOK, Form
  <2>3. /\ save' = [save EXCEPT ![c] = next] /\ form' = form /\ promise' = promise
    BY <1>2, <1>6, <2>1 DEF Manuscript!Loop
  <2>4. Manuscript!TypedIsKept' BY <1>3, <2>3 DEF LInv, Manuscript!TypedIsKept
  <2>5. FormIsRight' BY <1>0, <2>3 DEF FormIsRight
  <2>6. ~abandoned' => form.active /\ form.work = save[c].work BY <1>3 DEF LInv, WriterIsRight
  <2>7. stored' \in [Works -> Text] /\ form' \in Form BY <1>0, <2>3 DEF FormTypeOK
  <2>8. ~abandoned' => form'.active /\ form'.work = next.work /\ form'.dirty
    BY <1>1, <1>6, <2>2, <2>3, <2>6
  <2>9. form'.dirty => form.dirty BY <2>3
  <2> QED
    BY <2>2, <2>3, <2>4, <2>5, <2>7, <2>8, <2>9, FormWriter
<1>7. CASE ~now.dirty
  <2>1. PICK next : next = [save[c] EXCEPT !.at = "ok"] OBVIOUS
  <2>2. next \in SaveCall /\ next.at = "ok" BY <1>4, <2>1 DEF SaveCall
  <2>3. /\ save' = [save EXCEPT ![c] = next] /\ promise' = 0
        /\ form' = Manuscript!NoForm \/ form' = now
    BY <1>7, <2>1 DEF Manuscript!Loop
  <2>4. form' \in Form /\ ~form'.dirty /\ (form'.active <=> form'.work \in Works)
    BY <1>0, <1>1, <1>5, <1>7, <2>3 DEF FormIsRight
  <2>5. FormIsRight' BY <2>4 DEF FormIsRight
  <2>6. Manuscript!TypedIsKept'
    <3> SUFFICES ASSUME ~abandoned, NEW w \in Works, typed[w] # None PROVE stored[w] = typed[w]
      BY <1>3 DEF Manuscript!TypedIsKept
    <3>1. CASE form.dirty /\ w = form.work
      BY <1>0, <1>7, <3>1 DEF FormIsRight
    <3>2. CASE ~(form.dirty /\ w = form.work) BY <3>2 DEF LInv, Manuscript!TypedIsKept
    <3> QED BY <3>1, <3>2
  <2> QED BY <1>0, <2>2, <2>3, <2>4, <2>5, <2>6, FormWriter DEF FormTypeOK
<1> QED BY <1>6, <1>7

\* The writer: it starts a write, has written, reads the outline, and finishes or loops.
LEMMA FormDraftsFlushed ==
  ASSUME LInv, Abandons, Manuscript!Quiet, NEW c \in Manuscript!Calls, Manuscript!DraftsFlushed(c)
  PROVE  LInv'
BY FormLoop DEF Manuscript!DraftsFlushed, WritingNow

LEMMA FormReloaded ==
  ASSUME LInv, Abandons, Manuscript!Quiet, NEW c \in Manuscript!Calls, Manuscript!Reloaded(c)
  PROVE  LInv'
<1>1. /\ save[c].at = "reload" /\ UNCHANGED <<stored, version, nav, typed>>
      /\ Manuscript!Loop(c, IF Manuscript!savedAll(c) THEN [form EXCEPT !.dirty = FALSE]
          ELSE form)
  BY DEF Manuscript!Reloaded
<1>2. PICK now : now = IF Manuscript!savedAll(c) THEN [form EXCEPT !.dirty = FALSE]
             ELSE form OBVIOUS
<1>3. Manuscript!Loop(c, now) BY <1>1, <1>2
<1>4. WritingNow(c) BY <1>1 DEF WritingNow
<1>5. Manuscript!savedAll(c) /\ ~abandoned => stored[form.work] = form.text
  BY <1>1, <1>4 DEF LInv, WriterIsRight, Manuscript!savedAll
<1> QED BY <1>1, <1>2, <1>3, <1>4, <1>5, FormLoop

\* One step of the writer that leaves the form alone.
LEMMA FormWritten ==
  ASSUME LInv, Abandons, Manuscript!Quiet, NEW c \in Manuscript!Calls, Manuscript!Written(c)
  PROVE  LInv'
<1> USE NoneAssumption, CallsAssumption
<1>0. FormTypeOK /\ FormIsRight BY DEF LInv
<1>1. /\ save[c].at = "sent" /\ stored' = [stored EXCEPT ![save[c].work] = save[c].text]
      /\ save' = [save EXCEPT ![c].at = "written"]
      /\ UNCHANGED <<form, version, promise, nav, typed>>
  BY DEF Manuscript!Written
<1>2. save[c] \in SaveCall BY <1>0 DEF FormTypeOK
<1>3. PICK next : next = [save[c] EXCEPT !.at = "written"] OBVIOUS
<1>4. /\ next \in SaveCall /\ next.at = "written" /\ next.work = save[c].work
      /\ next.text = save[c].text /\ save' = [save EXCEPT ![c] = next]
  BY <1>1, <1>2, <1>3 DEF SaveCall
<1>5. WritingNow(c) BY <1>1 DEF WritingNow
<1>6. ~abandoned' => ~abandoned BY DEF Abandons
<1>7. ~abandoned => form.active /\ form.work = save[c].work /\ form.dirty
  BY <1>1, <1>5 DEF LInv, WriterIsRight
<1>8. stored' \in [Works -> Text] BY <1>0, <1>1, <1>2 DEF FormTypeOK, SaveCall
<1>9. ~abandoned => stored'[form.work] = save[c].text
  BY <1>0, <1>1, <1>7 DEF FormTypeOK, FormIsRight
<1>10. Manuscript!TypedIsKept'
  <2> SUFFICES ASSUME ~abandoned, NEW w \in Works, typed[w] # None
               PROVE  stored'[w] = typed[w] \/ (form.active /\ form.dirty /\ form.work = w
                      /\ form.text = typed[w])
    BY <1>1, <1>6 DEF Manuscript!TypedIsKept
  <2>1. CASE w = form.work BY <1>0, <1>7, <2>1 DEF FormIsRight
  <2>2. CASE w # form.work BY <1>0, <1>1, <1>7, <2>2 DEF LInv, Manuscript!TypedIsKept, FormTypeOK
  <2> QED BY <2>1, <2>2
<1>11. FormIsRight' BY <1>0, <1>1 DEF FormIsRight
<1>12. form' \in Form /\ (form'.dirty => form.dirty) BY <1>0, <1>1 DEF FormTypeOK
<1>13. ~abandoned' => /\ form'.active /\ form'.work = next.work /\ form'.dirty
                      /\ stored'[form'.work] = next.text
  BY <1>1, <1>4, <1>6, <1>7, <1>9
<1> QED BY <1>1, <1>4, <1>5, <1>8, <1>10, <1>11, <1>12, <1>13, FormWriter

LEMMA FormReloads ==
  ASSUME LInv, Abandons, Manuscript!Quiet, NEW c \in Manuscript!Calls, Manuscript!Reloads(c)
  PROVE  LInv'
<1>0. FormTypeOK /\ FormIsRight BY DEF LInv
<1>1. /\ save[c].at = "written" /\ save' = [save EXCEPT ![c].at = "reload"]
      /\ UNCHANGED <<stored, form, version, promise, nav, typed>>
  BY DEF Manuscript!Reloads
<1>2. save[c] \in SaveCall BY <1>0 DEF FormTypeOK
<1>3. PICK next : next = [save[c] EXCEPT !.at = "reload"] OBVIOUS
<1>4. /\ next \in SaveCall /\ next.at = "reload" /\ next.work = save[c].work
      /\ next.text = save[c].text /\ save' = [save EXCEPT ![c] = next]
  BY <1>1, <1>2, <1>3 DEF SaveCall
<1>5. WritingNow(c) BY <1>1 DEF WritingNow
<1>6. ~abandoned' => ~abandoned BY DEF Abandons
<1>7. ~abandoned => /\ form.active /\ form.work = save[c].work /\ form.dirty
                    /\ stored[form.work] = save[c].text
  BY <1>1, <1>5 DEF LInv, WriterIsRight
<1>8. Manuscript!TypedIsKept' /\ FormIsRight'
  BY <1>0, <1>1, <1>6 DEF LInv, Manuscript!TypedIsKept, FormIsRight
<1>9. stored' \in [Works -> Text] /\ form' \in Form /\ (form'.dirty => form.dirty)
  BY <1>0, <1>1 DEF FormTypeOK
<1>10. ~abandoned' => /\ form'.active /\ form'.work = next.work /\ form'.dirty
                      /\ stored'[form'.work] = next.text
  BY <1>1, <1>4, <1>6, <1>7
<1> QED BY <1>1, <1>4, <1>5, <1>8, <1>9, <1>10, FormWriter

LEMMA FormSaveFails ==
  ASSUME LInv, Abandons, Manuscript!Quiet, NEW c \in Manuscript!Calls, Manuscript!SaveFails(c)
  PROVE  LInv'
<1>0. FormTypeOK /\ FormIsRight BY DEF LInv
<1>1. /\ WritingNow(c) /\ save' = [save EXCEPT ![c].at = "failed"] /\ promise' = 0
      /\ UNCHANGED <<stored, form, version, nav, typed>>
  BY DEF Manuscript!SaveFails, WritingNow
<1>2. save[c] \in SaveCall BY <1>0 DEF FormTypeOK
<1>3. PICK next : next = [save[c] EXCEPT !.at = "failed"] OBVIOUS
<1>4. next \in SaveCall /\ next.at = "failed" /\ save' = [save EXCEPT ![c] = next]
  BY <1>1, <1>2, <1>3 DEF SaveCall
<1>5. ~abandoned' => ~abandoned BY DEF Abandons
<1>6. Manuscript!TypedIsKept' /\ FormIsRight'
  BY <1>0, <1>1, <1>5 DEF LInv, Manuscript!TypedIsKept, FormIsRight
<1> QED BY <1>0, <1>1, <1>4, <1>5, <1>6, FormWriter DEF FormTypeOK

-----------------------------------------------------------------------------
\* One navigation more, or none, and the rest as it was.
LEMMA FormNav ==
  ASSUME LInv, Abandons, UNCHANGED <<stored, form, version, save, promise, typed>>,
         nav' \in Nav \cup {None},
         nav # None /\ nav' # None =>
           /\ nav'.call = nav.call /\ nav'.version = nav.version
           /\ nav'.at = "read" => save[nav.call].at = "ok",
         nav' # None => nav # None
  PROVE  LInv'
<1>1. ~abandoned' => ~abandoned BY DEF Abandons
<1>2. FormTypeOK' BY DEF LInv, FormTypeOK
<1>3. NavIsRight' BY DEF LInv, NavIsRight
<1>4. FormIsRight' /\ Manuscript!TypedIsKept'
  BY <1>1 DEF LInv, FormIsRight, Manuscript!TypedIsKept
<1>5. ASSUME NEW c \in Manuscript!Calls
      PROVE  WriterIsPromised(c)' /\ WaiterIsRight(c)' /\ WriterIsRight(c)'
  BY <1>1 DEF LInv, WriterIsPromised, WaiterIsRight, WriterIsRight, WritingNow
<1> QED BY <1>2, <1>3, <1>4, <1>5 DEF LInv

\* A navigation reads, is served and ends.
LEMMA FormReads == ASSUME LInv, Abandons, Manuscript!Reads PROVE LInv'
<1>1. /\ nav # None /\ nav' = [nav EXCEPT !.at = "read"]
      /\ UNCHANGED <<stored, form, version, save, promise, typed>>
  BY DEF Manuscript!Reads
<1>2. nav \in Nav BY <1>1 DEF LInv, FormTypeOK
<1>3. nav' \in Nav /\ nav'.call = nav.call /\ nav'.version = nav.version BY <1>1, <1>2 DEF Nav
<1>4. save[nav.call].at = "ok" BY DEF Manuscript!Reads
<1> QED BY <1>1, <1>3, <1>4, FormNav

LEMMA FormReadServed == ASSUME LInv, Abandons, Manuscript!ReadServed PROVE LInv'
<1>0. FormTypeOK BY DEF LInv
<1>1. PICK row : row = IF nav.work = None THEN "nothing" ELSE stored[nav.work] OBVIOUS
<1>2. /\ nav # None /\ nav.at = "read" /\ nav' = [nav EXCEPT !.row = row]
      /\ UNCHANGED <<stored, form, version, save, promise, typed>>
  BY <1>1 DEF Manuscript!ReadServed
<1>3. nav \in Nav BY <1>0, <1>2 DEF FormTypeOK
<1>4. row \in Text BY <1>0, <1>1, <1>3 DEF FormTypeOK, Nav, Text
<1>5. nav' \in Nav /\ nav'.call = nav.call /\ nav'.version = nav.version
  BY <1>2, <1>3, <1>4 DEF Nav
<1>6. save[nav.call].at = "ok" BY <1>2 DEF LInv, NavIsRight
<1> QED BY <1>2, <1>5, <1>6, FormNav

LEMMA FormNavigationEnds == ASSUME LInv, Abandons, Manuscript!NavigationEnds PROVE LInv'
BY FormNav DEF Manuscript!NavigationEnds

\* What the calls of save and the navigation are about when the navigation goes.
LEMMA FormCommits == ASSUME LInv, Abandons, Manuscript!Quiet, Manuscript!Commits PROVE LInv'
<1> USE NoneAssumption, CallsAssumption
<1>0. FormTypeOK /\ FormIsRight BY DEF LInv
<1>1. /\ nav # None /\ UNCHANGED <<stored, version, save, promise, typed>>
      /\ \/ nav.version = version /\ nav' = None /\ form' = Manuscript!setMode(nav.work, nav.row)
         \/ nav' = [nav EXCEPT !.at = "prepare", !.row = None] /\ form' = form
  BY DEF Manuscript!Commits
<1>2. nav \in Nav BY <1>0, <1>1 DEF FormTypeOK
<1>3. ~abandoned' => ~abandoned BY DEF Abandons
<1>4. CASE nav' = [nav EXCEPT !.at = "prepare", !.row = None] /\ form' = form
  <2>1. nav' \in Nav /\ nav'.call = nav.call /\ nav'.version = nav.version /\ nav'.at # "read"
    BY <1>2, <1>4 DEF Nav, Text
  <2> QED BY <1>1, <1>4, <2>1, FormNav
<1>5. CASE nav.version = version /\ nav' = None /\ form' = Manuscript!setMode(nav.work, nav.row)
  <2>1. ~form.dirty BY <1>1, <1>5 DEF LInv, NavIsRight, Manuscript!Commits
  <2>2. form' \in Form /\ ~form'.dirty /\ (form'.active <=> form'.work \in Works)
    <3>1. CASE nav.work = None
      BY <1>5, <3>1 DEF Manuscript!setMode, Manuscript!NoForm, Form, Text
    <3>2. CASE nav.work # None /\ form.active /\ form.work = nav.work
      BY <1>0, <1>2, <1>5, <2>1, <3>2 DEF Manuscript!setMode, FormTypeOK, Form, Nav, FormIsRight
    <3>3. CASE nav.work # None /\ ~(form.active /\ form.work = nav.work)
      BY <1>2, <1>5, <3>3 DEF Manuscript!setMode, Form, Nav
    <3> QED BY <3>1, <3>2, <3>3
  <2>3. FormTypeOK' BY <1>0, <1>1, <1>5, <2>2 DEF FormTypeOK
  <2>4. FormIsRight' BY <2>2 DEF FormIsRight
  <2>5. NavIsRight' BY <1>5 DEF NavIsRight
  <2>6. Manuscript!TypedIsKept' BY <1>1, <1>3, <2>1 DEF LInv, Manuscript!TypedIsKept
  <2>7. ASSUME NEW c \in Manuscript!Calls
        PROVE  WriterIsPromised(c)' /\ WaiterIsRight(c)' /\ WriterIsRight(c)'
    <3>1. WriterIsPromised(c)' BY <1>1 DEF LInv, WriterIsPromised, WritingNow
    <3>2. WaiterIsRight(c)' BY <1>1, <2>2 DEF LInv, WaiterIsRight, WritingNow
    <3>3. WriterIsRight(c)'
      <4> SUFFICES ASSUME ~abandoned', WritingNow(c)'
                   PROVE  form'.active /\ form'.work = save[c].work /\ save[c].at = "flush"
        BY <1>1 DEF WriterIsRight, WritingNow
      <4>1. Manuscript!Writing' BY DEF Manuscript!Writing, WritingNow
      <4>2. form'.work = form.work BY <4>1 DEF Abandons
      <4>3. WritingNow(c) BY <1>1 DEF WritingNow
      <4>4. /\ form.active /\ form.work = save[c].work
            /\ save[c].at # "flush" => form.dirty
        BY <1>3, <4>3 DEF LInv, WriterIsRight
      <4> QED BY <1>0, <2>1, <2>2, <4>2, <4>4 DEF FormIsRight
    <3> QED BY <3>1, <3>2, <3>3
  <2> QED BY <2>3, <2>4, <2>5, <2>6, <2>7 DEF LInv
<1> QED BY <1>1, <1>4, <1>5

\* Whoever waited finds nothing unsaved.
LEMMA FormAwaited == ASSUME LInv, Abandons, NEW c \in Manuscript!Calls, Manuscript!Awaited(c)
PROVE  LInv'
<1> USE NoneAssumption, CallsAssumption
<1>0. FormTypeOK /\ FormIsRight BY DEF LInv
<1>1. PICK at : at = save[save[c].on].at OBVIOUS
<1>2. save[c].at = "waiting" /\ at \in {"ok", "failed"} BY <1>1 DEF Manuscript!Awaited
<1>3. at = "ok" => ~form.dirty BY <1>1, <1>2 DEF LInv, WaiterIsRight
<1>4. /\ save' = [save EXCEPT ![c].at = at] /\ UNCHANGED promise
      /\ form' = form \/ (at = "ok" /\ form' = Manuscript!NoForm)
      /\ UNCHANGED <<stored, version, nav, typed>>
  BY <1>1, <1>2, <1>3 DEF Manuscript!Awaited, Manuscript!Closes
<1>5. save[c] \in SaveCall BY <1>0 DEF FormTypeOK
<1>6. PICK next : next = [save[c] EXCEPT !.at = at] OBVIOUS
<1>7. next \in SaveCall /\ next.at = at /\ save' = [save EXCEPT ![c] = next]
  BY <1>2, <1>4, <1>5, <1>6 DEF SaveCall
<1>8. save'[c] = next /\ \A d \in Manuscript!Calls \ {c} : save'[d] = save[d]
  BY <1>0, <1>7 DEF FormTypeOK
<1>9. Manuscript!NoForm \in Form /\ ~Manuscript!NoForm.active /\ Manuscript!NoForm.work = None
      /\ ~Manuscript!NoForm.dirty
  BY DEF Manuscript!NoForm, Form, Text
<1>10. (form'.dirty => form' = form) /\ (at = "ok" => ~form'.dirty)
  BY <1>3, <1>4, <1>9
<1>11. ~abandoned' => ~abandoned BY DEF Abandons
<1>12. FormTypeOK'
  <2>1. save' \in [Manuscript!Calls -> SaveCall] BY <1>0, <1>7 DEF FormTypeOK
  <2>2. form' \in Form BY <1>0, <1>4, <1>9 DEF FormTypeOK
  <2> QED BY <1>0, <1>4, <2>1, <2>2 DEF FormTypeOK
<1>13. FormIsRight' BY <1>0, <1>4, <1>9 DEF FormIsRight
<1>14. NavIsRight'
  <2> SUFFICES ASSUME nav # None
               PROVE  /\ nav.version <= version
                      /\ nav.at = "read" => save'[nav.call].at = "ok"
                      /\ save'[nav.call].at = "ok" /\ nav.version = version => ~form'.dirty
    BY <1>4 DEF NavIsRight
  <2>1. nav.call \in Manuscript!Calls BY <1>0 DEF FormTypeOK, Nav
  <2> QED BY <1>2, <1>7, <1>8, <1>10, <2>1 DEF LInv, NavIsRight
<1>15. Manuscript!TypedIsKept'
  <2>1. CASE form' = form BY <1>4, <1>11, <2>1 DEF LInv, Manuscript!TypedIsKept
  <2>2. CASE at = "ok" BY <1>3, <1>4, <1>11, <2>2 DEF LInv, Manuscript!TypedIsKept
  <2> QED BY <1>4, <2>1, <2>2
<1>16. ~WritingNow(c) /\ ~WritingNow(c)' BY <1>2, <1>7, <1>8 DEF WritingNow
<1>17. ASSUME NEW d \in Manuscript!Calls
       PROVE  WriterIsPromised(d)' /\ WaiterIsRight(d)' /\ WriterIsRight(d)'
  <2>1. WritingNow(d)' <=> WritingNow(d) BY <1>8, <1>16 DEF WritingNow
  <2>2. WriterIsPromised(d)' BY <1>4, <2>1 DEF LInv, WriterIsPromised
  <2>3. WaiterIsRight(d)'
    <3> SUFFICES ASSUME save'[d].at = "waiting" PROVE WaiterIsRight(d)' BY DEF WaiterIsRight
    <3>1. d # c BY <1>2, <1>7, <1>8
    <3>2. save'[d] = save[d] BY <1>8, <3>1
    <3>3. PICK x : x = save[d].on OBVIOUS
    <3>4. /\ x \in Manuscript!Calls /\ (~WritingNow(x) => save[x].at \in {"ok", "failed"})
          /\ (save[x].at = "ok" => ~form.dirty)
      BY <3>2, <3>3 DEF LInv, WaiterIsRight
    <3>5. x # c BY <1>2, <1>16, <3>4
    <3>6. save'[x] = save[x] /\ (WritingNow(x)' <=> WritingNow(x))
      BY <1>8, <3>4, <3>5 DEF WritingNow
    <3>7. /\ x \in Manuscript!Calls /\ (~WritingNow(x)' => save'[x].at \in {"ok", "failed"})
          /\ (save'[x].at = "ok" => ~form'.dirty)
      BY <1>10, <3>4, <3>6
    <3>8. save'[d].on = x BY <3>2, <3>3
    <3> QED BY <3>7, <3>8 DEF WaiterIsRight, WritingNow
  <2>4. WriterIsRight(d)'
    <3> SUFFICES ASSUME ~abandoned', WritingNow(d) PROVE WriterIsRight(d)'
      BY <2>1 DEF WriterIsRight
    <3>1. d # c BY <1>16
    <3>2. save'[d] = save[d] BY <1>8, <3>1
    <3>3. Manuscript!Writing' BY <2>1 DEF Manuscript!Writing, WritingNow
    <3>4. form'.work = form.work BY <3>3 DEF Abandons
    <3>5. WriterIsRight(d) /\ ~abandoned BY <1>11 DEF LInv
    <3>6. form.active /\ form.work \in Works BY <1>0, <3>5 DEF WriterIsRight, FormIsRight
    <3>7. form' = form BY <1>4, <1>9, <3>4, <3>6
    <3> QED BY <1>4, <3>2, <3>5, <3>7 DEF WriterIsRight, WritingNow
  <2> QED BY <2>2, <2>3, <2>4
<1> QED BY <1>12, <1>13, <1>14, <1>15, <1>17 DEF LInv

\* Every step keeps the invariant.
LEMMA FormStep == ASSUME LInv, [Manuscript!Next]_Manuscript!vars PROVE LInv'
<1>1. CASE Manuscript!Next
  <2>0. Abandons BY <1>1 DEF Manuscript!Next, Abandons
  <2>1. CASE \E c \in Manuscript!Calls : Manuscript!Awaited(c) BY <2>0, <2>1, FormAwaited
  <2>2. CASE Manuscript!Quiet /\ Manuscript!Step
    <3>1. ASSUME NEW c \in Manuscript!Calls,
                 Manuscript!DraftsFlushed(c) \/ Manuscript!Written(c) \/ Manuscript!Reloads(c)
                   \/ Manuscript!Reloaded(c) \/ Manuscript!SaveFails(c)
          PROVE  LInv'
      BY <2>0, <2>2, <3>1, FormDraftsFlushed, FormWritten, FormReloads, FormReloaded,
         FormSaveFails
    <3>2. ASSUME NEW work \in Works \cup {None}, Manuscript!Navigate(work) PROVE LInv'
      BY <2>0, <2>2, <3>2, FormNavigate
    <3> QED
      BY <2>0, <2>2, <3>1, <3>2, FormType, FormCancel, FormDiscard, FormKeep, FormRewrite,
         FormFinishes, FormReads, FormReadServed, FormCommits, FormNavigationEnds
      DEF Manuscript!Step
  <2> QED BY <1>1, <2>1, <2>2 DEF Manuscript!Next
<1>2. CASE UNCHANGED Manuscript!vars
  BY <1>2
  DEF Manuscript!vars, LInv, FormTypeOK, FormIsRight, NavIsRight, Manuscript!TypedIsKept,
      WriterIsPromised,
      WaiterIsRight, WriterIsRight, WritingNow
<1> QED BY <1>1, <1>2

-----------------------------------------------------------------------------
(* Panels.                                                                 *)

\* The requests and the operations of a panel.
PanelRequests ==
  [id : Nat, key : PanelKeys, staged : BOOLEAN, at : {"sent", "answered", "failed"},
   version : Nat]
Changes == [at : {"sent", "served"}, key : PanelKeys, receipt : Nat]

PanelTypeOK ==
  /\ panel \in PanelNames /\ selected \in Selections /\ visible \in BOOLEAN /\ typed \in Nat
  /\ due \in BOOLEAN /\ timer \in Nat \cup {None} /\ newest \in Nat
  /\ requests \subseteq PanelRequests /\ shown \in ShownAnswers \cup {None}
  /\ loading \in BOOLEAN /\ failed \in BOOLEAN /\ version \in Nat
  /\ change \in Changes \cup {None} /\ excused \in BOOLEAN

\* The numbers of requests differ, and none is above the newest.
IdsAreRight ==
  /\ \A r \in requests : r.id <= newest
  /\ \A r, q \in requests : r.id = q.id => r = q

\* A timer is armed with what is typed, before its request is sent.
TimerIsRight ==
  /\ due => panel \in Panel!Followers \cup {"links"}
  /\ timer # None =>
       /\ panel \in {"omni", "links"} /\ timer = typed /\ typed # 0
       /\ \A r \in requests : r.id # newest

\* A panel that is loading has something to wait for, or a failure to show.
LoadingIsRight ==
  loading => Panel!Loads /\ (failed \/ timer # None \/ \E r \in requests : r.id = newest)

ByNumber == {"backlinks", "bookmarks", "licenses"} \cup Panel!Fields

\* What is asked is something, and where an answer is accepted by its number alone the
\* newest request is about the subject.
KeysAreRight ==
  /\ panel \in Panel!Followers \ {"tree"} => \A r \in requests : r.key # None
  /\ panel \in Panel!History /\ change # None => change.key # None
  /\ panel \in ByNumber =>
       \A r \in requests : r.id = newest => due \/ r.key = Panel!Subject
  /\ \A r \in requests : r.staged => panel \in {"tree", "bookmarks"}

SubjectIsComing ==
  \/ due \/ timer # None
  \/ \E r \in requests : r.id = newest /\ r.key = Panel!Subject
  \/ shown # None /\ shown.key = Panel!Subject

\* A panel that wants its subject shows it, or something is under way that will show it.
ShownIsRight ==
  /\ Panel!Wanting /\ ~excused /\ ~failed => SubjectIsComing
  /\ panel \in Panel!Followers \ {"tree"} /\ selected = None /\ ~due => shown = None

\* The newest answer is as new as what is shown.
VersionsAreRight ==
  /\ \A r \in requests : r.version <= version
  /\ shown # None =>
       /\ shown.version <= version
       /\ \A r \in requests : r.id = newest /\ r.at = "answered" => shown.version <= r.version

PInv ==
  /\ PanelTypeOK /\ IdsAreRight /\ TimerIsRight /\ LoadingIsRight /\ KeysAreRight
  /\ ShownIsRight /\ VersionsAreRight

-----------------------------------------------------------------------------
\* A panel begins with nothing to show and nothing asked.
LEMMA PanelInitial == ASSUME Panel!Init PROVE PInv
<1>1. PanelTypeOK BY PanelsAssumption DEF Panel!Init, PanelTypeOK, Selections
<1>2. ~Panel!Wanting \/ panel = "bookmarks"
  BY <1>1
  DEF Panel!Init, Panel!Wanting, PanelTypeOK, PanelNames, Panel!Followers, Panel!Fields,
      Panel!History
<1>3. IdsAreRight /\ TimerIsRight /\ LoadingIsRight /\ VersionsAreRight
  BY DEF Panel!Init, IdsAreRight, TimerIsRight, LoadingIsRight, VersionsAreRight
<1>4. KeysAreRight /\ ShownIsRight
  BY <1>2 DEF Panel!Init, KeysAreRight, ShownIsRight, Panel!Wanting
<1> QED BY <1>1, <1>3, <1>4 DEF PInv

\* The subject is something that can be asked, and of something when a thing is selected.
LEMMA SubjectFacts ==
  ASSUME PanelTypeOK
  PROVE  /\ Panel!Subject \in PanelKeys
         /\ panel \in Panel!Followers \ {"tree"} /\ selected # None => Panel!Subject # None
<1> USE DEF Panel!Subject, Panel!WorkOf, PanelKeys
<1>1. CASE panel \in {"revisions", "backlinks"}
  BY <1>1, NoneAssumption, ShownAssumption DEF PanelTypeOK, Selections
<1>2. CASE panel \in {"recovery", "emergence"}
  BY <1>2, NoneAssumption, ShownAssumption DEF PanelTypeOK, Selections
<1>3. CASE panel = "tree"
  BY <1>3, NoneAssumption, ShownAssumption DEF PanelTypeOK, Selections
<1>4. CASE panel \in {"omni", "links"} BY <1>4 DEF PanelTypeOK, Panel!Followers, Panel!History
<1>5. CASE panel = "completion" BY <1>5 DEF PanelTypeOK, Panel!Followers, Panel!History
<1>6. CASE panel \in {"bookmarks", "licenses"}
  BY <1>6 DEF PanelTypeOK, Panel!Followers, Panel!History
<1> QED
  BY <1>1, <1>2, <1>3, <1>4, <1>5, <1>6
  DEF PanelTypeOK, PanelNames, Panel!Followers, Panel!Fields, Panel!History

\* The subject is a matter of the panel, the selection and the query.
LEMMA SubjectRests ==
  ASSUME panel' = panel, selected' = selected, typed' = typed
  PROVE  Panel!Subject' = Panel!Subject
BY DEF Panel!Subject, Panel!WorkOf

\* A new request is the newest, and the only one of its number.
LEMMA BeginFacts ==
  ASSUME PanelTypeOK, IdsAreRight, NEW key \in PanelKeys, NEW staged \in BOOLEAN,
         Panel!Begin(key, staged)
  PROVE  /\ newest' = newest + 1 /\ newest' \in Nat /\ requests' \subseteq PanelRequests
         /\ loading' = Panel!Loads /\ failed' = FALSE /\ IdsAreRight'
         /\ \E r \in requests' : r.id = newest' /\ r.key = key
         /\ \A r \in requests' : r.id = newest' => r.key = key /\ r.at = "sent"
         /\ \A r \in requests' : (r.key = key /\ r.staged = staged /\ r.version = 0)
                \/ r \in requests
<1> DEFINE a == Panel!Asked(newest', key, staged)
           old == {r \in requests : ~(staged /\ r.staged)}
<1>1. /\ newest' = newest + 1 /\ newest' \in Nat /\ requests' = old \cup {a}
      /\ loading' = Panel!Loads /\ failed' = FALSE
  BY DEF Panel!Begin, PanelTypeOK
<1>2. /\ a \in PanelRequests /\ a.id = newest' /\ a.key = key /\ a.at = "sent"
      /\ a.staged = staged /\ a.version = 0
  BY <1>1 DEF Panel!Asked, PanelRequests
<1>3. \A r \in old : r \in requests /\ r \in PanelRequests /\ r.id <= newest /\ r.id \in Nat
  BY DEF PanelTypeOK, PanelRequests, IdsAreRight
<1> HIDE DEF a
<1>4. \A r \in old : r.id <= newest' /\ r.id # newest'
  BY <1>1, <1>3 DEF PanelTypeOK
<1>5. IdsAreRight'
  <2>1. \A r \in requests' : r.id <= newest' BY <1>1, <1>2, <1>4
  <2>2. \A r, q \in requests' : r.id = q.id => r = q
    BY <1>1, <1>2, <1>3, <1>4 DEF IdsAreRight
  <2> QED BY <2>1, <2>2 DEF IdsAreRight
<1> QED BY <1>1, <1>2, <1>3, <1>4, <1>5

\* After the number went up no request has it.
LEMMA RaisedFacts ==
  ASSUME PanelTypeOK, IdsAreRight, newest' = newest + 1, requests' = requests
  PROVE  /\ newest' \in Nat /\ requests' \subseteq PanelRequests
         /\ IdsAreRight' /\ \A r \in requests' : r.id # newest'
BY DEF PanelTypeOK, IdsAreRight, PanelRequests

-----------------------------------------------------------------------------
\* The half of ShownIsRight that is about nothing being selected.
NothingShown == panel \in Panel!Followers \ {"tree"} /\ selected = None /\ ~due => shown = None

\* Asking for the subject, or after a promotion for what it was.
LEMMA PanelAsks ==
  ASSUME PInv, NEW key \in PanelKeys, NEW staged \in BOOLEAN, Panel!Begin(key, staged),
         panel' = panel, selected' \in Selections, visible' \in BOOLEAN, typed' \in Nat,
         due' \in BOOLEAN, due' => due, excused' \in BOOLEAN, version' = version,
         timer' = timer, panel \notin {"omni", "links"}, change' = change \/ change' = None,
         shown' = shown \/ shown' = None, key = Panel!Subject' \/ (panel \in Panel!History
         /\ excused'),
         panel \in Panel!Followers \ {"tree"} => key # None, NothingShown',
         staged => panel \in {"tree", "bookmarks"}
  PROVE  PInv'
<1>0. PanelTypeOK'
  <2>1. newest' \in Nat /\ requests' \subseteq PanelRequests BY BeginFacts DEF PInv
  <2>2. loading' \in BOOLEAN BY DEF Panel!Begin, Panel!Loads
  <2>3. failed' \in BOOLEAN BY DEF Panel!Begin
  <2>4. shown' \in ShownAnswers \cup {None} /\ change' \in Changes \cup {None}
    BY DEF PInv, PanelTypeOK
  <2> QED BY <2>1, <2>2, <2>3, <2>4 DEF PInv, PanelTypeOK
<1>1. /\ newest' = newest + 1 /\ IdsAreRight' /\ loading' = Panel!Loads /\ failed' = FALSE
      /\ \E r \in requests' : r.id = newest' /\ r.key = key
      /\ \A r \in requests' : r.id = newest' => r.key = key /\ r.at = "sent"
      /\ \A r \in requests' : (r.key = key /\ r.staged = staged /\ r.version = 0)
             \/ r \in requests
  BY BeginFacts DEF PInv
<1>2. timer = None BY DEF PInv, TimerIsRight
<1>3. TimerIsRight' BY <1>2 DEF PInv, TimerIsRight
<1>4. LoadingIsRight' BY <1>1 DEF LoadingIsRight, Panel!Loads
<1>5. KeysAreRight'
  <2>1. panel' \in Panel!Followers \ {"tree"} => \A r \in requests' : r.key # None
    BY <1>1 DEF PInv, KeysAreRight
  <2>2. panel' \in Panel!History /\ change' # None => change'.key # None
    BY DEF PInv, KeysAreRight
  <2>3. panel' \in ByNumber =>
          \A r \in requests' : r.id = newest' => due' \/ r.key = Panel!Subject'
    BY <1>1 DEF Panel!History, Panel!Fields, ByNumber
  <2>4. \A r \in requests' : r.staged => panel' \in {"tree", "bookmarks"}
    BY <1>1 DEF PInv, KeysAreRight
  <2> QED BY <2>1, <2>2, <2>3, <2>4 DEF KeysAreRight
<1>6. ShownIsRight'
  <2>1. ~excused' => SubjectIsComing' BY <1>1 DEF SubjectIsComing
  <2> QED BY <2>1 DEF ShownIsRight, NothingShown
<1>7. VersionsAreRight'
  <2>1. version \in Nat /\ 0 <= version BY DEF PInv, PanelTypeOK
  <2> QED BY <1>1, <2>1 DEF PInv, VersionsAreRight
<1> QED BY <1>0, <1>1, <1>3, <1>4, <1>5, <1>6, <1>7 DEF PInv

\* Clearing a panel that wants nothing.
LEMMA PanelClears ==
  ASSUME PInv, Panel!Clear, panel' = panel, selected' \in Selections, visible' \in BOOLEAN,
         typed' \in Nat, due' \in BOOLEAN, due' => due, excused' = excused, timer' = None,
         version' = version, change' = change \/ change' = None, ~Panel!Wanting'
  PROVE  PInv'
<1>0. PanelTypeOK'
  <2>1. newest' \in Nat /\ requests' \subseteq PanelRequests
    BY RaisedFacts DEF PInv, Panel!Clear
  <2>2. shown' \in ShownAnswers \cup {None} /\ change' \in Changes \cup {None}
    BY DEF PInv, PanelTypeOK, Panel!Clear
  <2> QED BY <2>1, <2>2 DEF PInv, PanelTypeOK, Panel!Clear
<1>1. /\ newest' = newest + 1 /\ requests' = requests /\ shown' = None /\ loading' = FALSE
      /\ IdsAreRight' /\ \A r \in requests' : r.id # newest'
  BY RaisedFacts DEF Panel!Clear, PInv
<1>2. TimerIsRight' BY DEF PInv, TimerIsRight
<1>3. LoadingIsRight' /\ VersionsAreRight' BY <1>1 DEF PInv, LoadingIsRight, VersionsAreRight
<1>4. KeysAreRight' BY <1>1 DEF PInv, KeysAreRight
<1>5. ShownIsRight' BY <1>1 DEF ShownIsRight
<1> QED BY <1>0, <1>1, <1>2, <1>3, <1>4, <1>5 DEF PInv

\* Steps that leave the panel alone but for an effect becoming due.
LEMMA EffectFallsDue ==
  ASSUME PInv, PanelTypeOK', panel \in Panel!Followers \cup {"links"}, due' = TRUE,
         UNCHANGED <<panel, timer, newest, requests, shown, loading, failed, version, change>>,
         panel = "links" => typed' = typed
  PROVE  PInv'
<1>1. IdsAreRight' /\ TimerIsRight' /\ LoadingIsRight' /\ VersionsAreRight'
  BY
  DEF PInv, IdsAreRight, TimerIsRight, LoadingIsRight, VersionsAreRight, Panel!Loads,
      Panel!Followers,
         Panel!History
<1>2. KeysAreRight' BY DEF PInv, KeysAreRight
<1>3. ShownIsRight' BY DEF ShownIsRight, SubjectIsComing
<1> QED BY <1>1, <1>2, <1>3 DEF PInv

\* Outside the fields that debounce no timer is armed, and no effect outside the panels
\* that follow the selection.
LEMMA TimerRests ==
  ASSUME PInv
  PROVE  /\ panel \notin {"omni", "links"} => timer = None
         /\ panel \notin Panel!Followers \cup {"links"} => due = FALSE
BY DEF PInv, TimerIsRight, PanelTypeOK

LEMMA PanelSelectRight == ASSUME PInv, NEW item \in Panel!Items \cup {None}, Panel!Select(item)
PROVE  PInv'
<1>1. item \in Selections BY DEF Panel!Items, Selections
<1>0. due' = (panel \in Panel!Followers \cup {"links"}) BY DEF Panel!Select
<1>2. CASE panel = "completion"
  <2>1. /\ Panel!Clear /\ typed' = 0 /\ selected' = item /\ due' = FALSE
        /\ UNCHANGED <<panel, visible, timer, version, change, excused>>
    <3>1. panel \notin Panel!Followers \cup {"links"} BY <1>2 DEF Panel!Followers, Panel!History
    <3>2. due' = FALSE
      <4>1. (panel \in Panel!Followers \cup {"links"}) = FALSE BY <3>1
      <4> QED BY <1>0, <4>1
    <3>3. /\ Panel!Clear /\ typed' = 0 /\ selected' = item
          /\ UNCHANGED <<panel, visible, timer, version, change, excused>>
      BY <1>2 DEF Panel!Select
    <3> QED BY <3>2, <3>3
  <2>2. timer' = None /\ due = FALSE BY <1>2, <2>1, TimerRests DEF Panel!Followers, Panel!History
  <2>3. /\ selected' \in Selections /\ visible' \in BOOLEAN /\ typed' \in Nat
        /\ due' \in BOOLEAN /\ excused' \in BOOLEAN
    BY <1>1, <2>1 DEF PInv, PanelTypeOK
  <2>4. ~Panel!Wanting' BY <1>2, <2>1 DEF Panel!Wanting, Panel!Fields
  <2> QED BY <2>1, <2>2, <2>3, <2>4, PanelClears
<1>3. CASE panel \in Panel!Followers \cup {"links"}
  <2>1. /\ selected' = item /\ due' = TRUE
        /\ UNCHANGED <<panel, visible, typed, timer, newest, requests, shown, loading, failed,
                       version, change, excused>>
    BY <1>3 DEF Panel!Select, Panel!Followers, Panel!History
  <2>2. PanelTypeOK' BY <1>1, <2>1 DEF PInv, PanelTypeOK
  <2> QED BY <1>3, <2>1, <2>2, EffectFallsDue
<1>4. CASE panel = "omni"
  <2>1. /\ selected' = item /\ due' = FALSE
        /\ UNCHANGED <<panel, visible, typed, timer, newest, requests, shown, loading, failed,
                       version, change, excused>>
    <3>1. panel \notin Panel!Followers \cup {"links"} BY <1>4 DEF Panel!Followers, Panel!History
    <3>2. due' = FALSE
      <4>1. (panel \in Panel!Followers \cup {"links"}) = FALSE BY <3>1
      <4> QED BY <1>0, <4>1
    <3>3. /\ selected' = item
          /\ UNCHANGED <<panel, visible, typed, timer, newest, requests, shown, loading, failed,
                         version, change, excused>>
      BY <1>4 DEF Panel!Select
    <3> QED BY <3>2, <3>3
  <2>2. PanelTypeOK' BY <1>1, <2>1 DEF PInv, PanelTypeOK
  <2>3. Panel!Subject' = Panel!Subject /\ Panel!Wanting' = Panel!Wanting
    BY <1>4, <2>1 DEF Panel!Subject, Panel!Wanting, Panel!Followers, Panel!History
  <2>4. due = FALSE BY <1>4, TimerRests DEF Panel!Followers, Panel!History
  <2>5. IdsAreRight' /\ TimerIsRight' /\ LoadingIsRight' /\ VersionsAreRight'
    BY <2>1
    DEF PInv, IdsAreRight, TimerIsRight, LoadingIsRight, VersionsAreRight, Panel!Loads
  <2>6. KeysAreRight' BY <2>1, <2>3, <2>4 DEF PInv, KeysAreRight
  <2>7. ShownIsRight'
    BY <1>4, <2>1, <2>3, <2>4
    DEF PInv, ShownIsRight, SubjectIsComing, Panel!Followers, Panel!History
  <2> QED BY <2>2, <2>5, <2>6, <2>7 DEF PInv
<1> QED BY <1>2, <1>3, <1>4 DEF Panel!Select, Panel!Fields

LEMMA ShowTreeRight == ASSUME PInv, Panel!ShowTree PROVE PInv'
<1>1. PanelTypeOK' BY DEF PInv, PanelTypeOK, Panel!ShowTree
<1> QED BY <1>1, EffectFallsDue DEF Panel!ShowTree, Panel!Followers

LEMMA SnapshotPublishedRight == ASSUME PInv, Panel!SnapshotPublished PROVE PInv'
<1>1. PanelTypeOK' BY DEF PInv, PanelTypeOK, Panel!SnapshotPublished
<1> QED BY <1>1, EffectFallsDue DEF Panel!SnapshotPublished

LEMMA EffectsRight == ASSUME PInv, Panel!EffectsRun PROVE PInv'
<1>1. /\ due /\ due' = FALSE /\ timer' = (IF panel = "links" THEN None ELSE timer)
      /\ UNCHANGED <<panel, selected, visible, version, change>>
  BY DEF Panel!EffectsRun
<1>2. timer' = None BY <1>1, TimerRests DEF Panel!Followers, Panel!History
<1>3. CASE Panel!selectionEffect
  <2>1. panel \in Panel!Followers \ {"tree"} /\ typed' = typed /\ timer' = timer
    BY <1>1, <1>3 DEF Panel!selectionEffect, Panel!Followers, Panel!History
  <2>2. CASE selected = None
    <3>1. Panel!Clear /\ excused' = excused BY <1>3, <2>2 DEF Panel!selectionEffect
    <3>2. /\ selected' \in Selections /\ visible' \in BOOLEAN /\ typed' \in Nat
          /\ due' \in BOOLEAN /\ excused' \in BOOLEAN
      BY <1>1, <1>2, <2>1, <3>1 DEF PInv, PanelTypeOK
    <3>3. ~Panel!Wanting' BY <1>1, <2>1, <2>2 DEF Panel!Wanting
    <3> QED BY <1>1, <1>2, <3>1, <3>2, <3>3, PanelClears
  <2>3. CASE selected # None
    <3>1. Panel!Begin(Panel!Subject, FALSE) /\ shown' = shown /\ excused' = FALSE
      BY <1>3, <2>3 DEF Panel!selectionEffect
    <3>2. Panel!Subject \in PanelKeys /\ Panel!Subject # None BY <2>1, <2>3, SubjectFacts DEF PInv
    <3>3. /\ selected' \in Selections /\ visible' \in BOOLEAN /\ typed' \in Nat
          /\ due' \in BOOLEAN /\ excused' \in BOOLEAN
      BY <1>1, <1>2, <2>1, <3>1, <3>2 DEF PInv, PanelTypeOK
    <3>4. NothingShown' BY <1>1, <2>3 DEF NothingShown
    <3>5. Panel!Subject' = Panel!Subject BY <1>1, <2>1, SubjectRests
    <3> QED
      BY <1>1, <2>1, <3>1, <3>2, <3>3, <3>4, <3>5, PanelAsks DEF Panel!Followers, Panel!History
  <2> QED BY <2>2, <2>3
<1>4. CASE Panel!treeEffect
  <2>1. panel = "tree" /\ typed' = typed /\ timer' = timer
    BY <1>1, <1>4 DEF Panel!treeEffect
  <2>2. CASE visible /\ (shown = None \/ shown.key # Panel!Subject)
    <3>1. Panel!Begin(Panel!Subject, FALSE) /\ shown' = shown /\ excused' = FALSE
      BY <1>4, <2>2 DEF Panel!treeEffect
    <3>2. Panel!Subject \in PanelKeys BY SubjectFacts DEF PInv
    <3>3. /\ selected' \in Selections /\ visible' \in BOOLEAN /\ typed' \in Nat
          /\ due' \in BOOLEAN /\ excused' \in BOOLEAN
      BY <1>1, <1>2, <2>1, <3>1, <3>2 DEF PInv, PanelTypeOK
    <3>4. NothingShown' BY <1>1, <2>1 DEF NothingShown
    <3>5. Panel!Subject' = Panel!Subject BY <1>1, <2>1, SubjectRests
    <3> QED BY <1>1, <2>1, <3>1, <3>2, <3>3, <3>4, <3>5, PanelAsks
  <2>3. CASE ~(visible /\ (shown = None \/ shown.key # Panel!Subject))
    <3>1. /\ newest' = newest + 1 /\ loading' = FALSE
          /\ UNCHANGED <<requests, shown, failed, excused>>
      BY <1>4, <2>3 DEF Panel!treeEffect, Panel!invalidate
    <3>2. /\ newest' \in Nat /\ IdsAreRight' /\ \A r \in requests' : r.id # newest'
      BY <3>1, RaisedFacts DEF PInv
    <3>3. PanelTypeOK' BY <1>1, <1>2, <2>1, <3>1, <3>2 DEF PInv, PanelTypeOK
    <3>4. Panel!Subject' = Panel!Subject BY <1>1, <2>1, SubjectRests
    <3>5. TimerIsRight' /\ LoadingIsRight' BY <1>1, <1>2, <3>1 DEF TimerIsRight, LoadingIsRight
    <3>6. KeysAreRight'
      BY <1>1, <2>1, <3>1, <3>2 DEF PInv, KeysAreRight, Panel!History, Panel!Fields, ByNumber
    <3>7. ShownIsRight'
      BY <1>1, <2>1, <2>3, <3>1, <3>4 DEF ShownIsRight, Panel!Wanting, SubjectIsComing
    <3>8. VersionsAreRight' BY <1>1, <3>1, <3>2 DEF PInv, VersionsAreRight
    <3> QED BY <3>2, <3>3, <3>5, <3>6, <3>7, <3>8 DEF PInv
  <2> QED BY <2>2, <2>3
<1>5. CASE Panel!linkEditorEffect
  <2>1. panel = "links" /\ Panel!Clear /\ typed' = 0 /\ excused' = excused
    BY <1>5 DEF Panel!linkEditorEffect
  <2>2. /\ selected' \in Selections /\ visible' \in BOOLEAN /\ typed' \in Nat
        /\ due' \in BOOLEAN /\ excused' \in BOOLEAN
    BY <1>1, <1>2, <2>1 DEF PInv, PanelTypeOK
  <2>3. ~Panel!Wanting' BY <1>1, <2>1 DEF Panel!Wanting, Panel!Fields
  <2> QED BY <1>1, <1>2, <2>1, <2>2, <2>3, PanelClears
<1> QED BY <1>3, <1>4, <1>5 DEF Panel!EffectsRun

LEMMA TypeRight == ASSUME PInv, NEW query \in Nat, Panel!Type(query) PROVE PInv'
<1>1. /\ typed' = query /\ UNCHANGED <<panel, selected, visible, due, version, change, excused>>
  BY DEF Panel!Type
<1>2. CASE Panel!updateInlineLinkCompletion(query)
  <2>1. panel = "completion" /\ selected # None /\ timer' = timer
    BY <1>2 DEF Panel!updateInlineLinkCompletion
  <2>2. timer' = None BY <2>1, TimerRests
  <2>3. CASE query = 0
    <3>1. Panel!Clear BY <1>2, <2>3 DEF Panel!updateInlineLinkCompletion
    <3>2. /\ selected' \in Selections /\ visible' \in BOOLEAN /\ typed' \in Nat
          /\ due' \in BOOLEAN /\ excused' \in BOOLEAN
      BY <1>1, <2>2, <3>1 DEF PInv, PanelTypeOK
    <3>3. ~Panel!Wanting' BY <1>1, <2>1, <2>3 DEF Panel!Wanting, Panel!Fields
    <3> QED BY <1>1, <2>2, <3>1, <3>2, <3>3, PanelClears
  <2>4. CASE query # 0
    <3>1. Panel!Begin(<<selected, query>>, FALSE) /\ shown' = None
      BY <1>2, <2>4 DEF Panel!updateInlineLinkCompletion
    <3>2. <<selected, query>> \in PanelKeys BY DEF PInv, PanelTypeOK, PanelKeys
    <3>3. /\ selected' \in Selections /\ visible' \in BOOLEAN /\ typed' \in Nat
          /\ due' \in BOOLEAN /\ excused' \in BOOLEAN
      BY <1>1, <2>2, <3>1, <3>2 DEF PInv, PanelTypeOK
    <3>4. Panel!Subject' = <<selected, query>> BY <1>1, <2>1 DEF Panel!Subject
    <3>5. NothingShown' BY <3>1 DEF NothingShown
    <3> QED
      BY <1>1, <2>1, <3>1, <3>2, <3>3, <3>4, <3>5, PanelAsks DEF Panel!Followers, Panel!History
  <2> QED BY <2>3, <2>4
<1>3. CASE Panel!queueSearch(query) \/ Panel!scheduleSearch(query)
  <2>1. /\ panel \in {"omni", "links"} /\ newest' = newest + 1 /\ requests' = requests
        /\ timer' = (IF query = 0 THEN None ELSE query)
        /\ query = 0 => shown' = None
        /\ shown' = shown \/ shown' = None
    BY <1>3 DEF Panel!queueSearch, Panel!scheduleSearch
  <2>2. /\ newest' \in Nat /\ IdsAreRight' /\ \A r \in requests' : r.id # newest'
    BY <2>1, RaisedFacts DEF PInv
  <2>3. loading' \in BOOLEAN /\ failed' \in BOOLEAN /\ (loading' => Panel!Loads /\ query # 0)
    <3>1. CASE Panel!queueSearch(query)
      <4>1. panel = "omni" /\ loading' = loading /\ failed' = failed BY <3>1 DEF Panel!queueSearch
      <4>2. ~loading BY <4>1 DEF PInv, LoadingIsRight, Panel!Loads
      <4> QED BY <4>1, <4>2 DEF PInv, PanelTypeOK
    <3>2. CASE Panel!scheduleSearch(query) BY <3>2 DEF Panel!scheduleSearch, Panel!Loads
    <3> QED BY <1>3, <3>1, <3>2
  <2>4. PanelTypeOK'
    <3>1. timer' \in Nat \cup {None} /\ shown' \in ShownAnswers \cup {None}
      BY <2>1 DEF PInv, PanelTypeOK
    <3> QED BY <1>1, <2>1, <2>2, <2>3, <3>1 DEF PInv, PanelTypeOK
  <2>5. query # None BY NoneAssumption, ShownAssumption
  <2>6. TimerIsRight' BY <1>1, <2>1, <2>2, <2>5 DEF PInv, TimerIsRight
  <2>7. LoadingIsRight' BY <1>1, <2>1, <2>3, <2>5 DEF LoadingIsRight, Panel!Loads
  <2>8. KeysAreRight' BY <1>1, <2>1, <2>2 DEF PInv, KeysAreRight, Panel!Followers, Panel!History
  <2>9. ShownIsRight'
    BY <1>1, <2>1, <2>5
    DEF ShownIsRight, Panel!Wanting, SubjectIsComing, Panel!Fields, Panel!Followers, Panel!History
  <2>10. VersionsAreRight' BY <1>1, <2>1, <2>2 DEF PInv, VersionsAreRight
  <2> QED BY <2>2, <2>4, <2>6, <2>7, <2>8, <2>9, <2>10 DEF PInv
<1> QED BY <1>2, <1>3 DEF Panel!Type

LEMMA TimerFiresRight == ASSUME PInv, Panel!TimerFires PROVE PInv'
<1> DEFINE a == Panel!Asked(newest, timer, FALSE)
<1>1. /\ timer # None /\ timer' = None /\ requests' = requests \cup {a}
      /\ UNCHANGED <<panel, selected, visible, typed, due, newest, shown, loading, failed,
                     version, change, excused>>
  BY DEF Panel!TimerFires
<1>2. /\ panel \in {"omni", "links"} /\ timer = typed /\ typed # 0
      /\ \A r \in requests : r.id # newest
  BY <1>1 DEF PInv, TimerIsRight
<1>3. Panel!Subject = typed /\ Panel!Subject' = Panel!Subject BY <1>1, <1>2 DEF Panel!Subject
<1>4. /\ a.id = newest /\ a.key = Panel!Subject /\ a.at = "sent" /\ ~a.staged /\ a.version = 0
      /\ a \in PanelRequests
  BY <1>2, <1>3 DEF Panel!Asked, PanelRequests, PInv, PanelTypeOK, PanelKeys
<1> HIDE DEF a
<1>5. PanelTypeOK' BY <1>1, <1>4 DEF PInv, PanelTypeOK
<1>6. IdsAreRight'
  <2>1. newest \in Nat BY DEF PInv, PanelTypeOK
  <2> QED BY <1>1, <1>2, <1>4, <2>1 DEF PInv, IdsAreRight
<1>7. TimerIsRight' BY <1>1 DEF PInv, TimerIsRight
<1>8. LoadingIsRight' BY <1>1, <1>4 DEF PInv, LoadingIsRight, Panel!Loads
<1>9. KeysAreRight'
  BY <1>1, <1>2, <1>3, <1>4 DEF PInv, KeysAreRight, Panel!Followers, Panel!History
<1>10. ShownIsRight'
  BY <1>1, <1>2, <1>3, <1>4 DEF ShownIsRight, SubjectIsComing, Panel!Followers, Panel!History
<1>11. VersionsAreRight'
  <2>1. version \in Nat /\ 0 <= version BY DEF PInv, PanelTypeOK
  <2> QED BY <1>1, <1>2, <1>4, <2>1 DEF PInv, VersionsAreRight
<1> QED BY <1>5, <1>6, <1>7, <1>8, <1>9, <1>10, <1>11 DEF PInv

LEMMA OpenRight == ASSUME PInv, Panel!Open PROVE PInv'
<1>1. /\ panel = "licenses" /\ visible' = TRUE /\ Panel!Begin(panel, FALSE) /\ shown' = None
      /\ UNCHANGED <<panel, selected, typed, due, timer, version, change, excused>>
  BY DEF Panel!Open
<1>2. panel \in PanelKeys BY <1>1 DEF PanelKeys
<1>3. /\ selected' \in Selections /\ visible' \in BOOLEAN /\ typed' \in Nat
      /\ due' \in BOOLEAN /\ excused' \in BOOLEAN
  BY <1>1, <1>2 DEF PInv, PanelTypeOK
<1>4. Panel!Subject' = panel BY <1>1 DEF Panel!Subject
<1>5. NothingShown' BY <1>1 DEF NothingShown
<1> QED BY <1>1, <1>2, <1>3, <1>4, <1>5, PanelAsks DEF Panel!Followers, Panel!History

LEMMA CloseRight == ASSUME PInv, Panel!Close PROVE PInv'
<1>1. /\ panel = "licenses" /\ visible' = FALSE /\ Panel!Clear
      /\ UNCHANGED <<panel, selected, typed, due, timer, version, change, excused>>
  BY DEF Panel!Close
<1>2. timer' = None BY <1>1, TimerRests
<1>3. /\ selected' \in Selections /\ visible' \in BOOLEAN /\ typed' \in Nat
      /\ due' \in BOOLEAN /\ excused' \in BOOLEAN
  BY <1>1 DEF PInv, PanelTypeOK
<1>4. ~Panel!Wanting' BY <1>1 DEF Panel!Wanting
<1> QED BY <1>1, <1>2, <1>3, <1>4, PanelClears

-----------------------------------------------------------------------------
\* A request that is answered, or fails, is still the request it was.
LEMMA RequestTurns ==
  ASSUME PInv, NEW r \in requests, NEW q \in PanelRequests, q.id = r.id, q.key = r.key,
         q.staged = r.staged, q.version <= version, q.at = "answered" => q.version = version,
         requests' = (requests \ {r}) \cup {q},
         UNCHANGED <<panel, selected, visible, typed, due, timer, newest, shown, loading,
                     failed, version, change, excused>>
  PROVE  PInv'
<1>1. PanelTypeOK' BY DEF PInv, PanelTypeOK
<1>2. Panel!Subject' = Panel!Subject /\ Panel!Wanting' = Panel!Wanting
  BY SubjectRests DEF Panel!Wanting
<1>3. \A p \in requests : \E o \in requests' : o.id = p.id /\ o.key = p.key OBVIOUS
<1>4. IdsAreRight' BY DEF PInv, IdsAreRight
<1>5. TimerIsRight' BY DEF PInv, TimerIsRight
<1>6. LoadingIsRight' BY <1>3 DEF PInv, LoadingIsRight, Panel!Loads
<1>7. KeysAreRight' BY <1>2 DEF PInv, KeysAreRight
<1>8. ShownIsRight' BY <1>2, <1>3 DEF PInv, ShownIsRight, SubjectIsComing
<1>9. VersionsAreRight'
  <2>1. version \in Nat BY DEF PInv, PanelTypeOK
  <2> QED BY <2>1 DEF PInv, VersionsAreRight
<1> QED BY <1>1, <1>4, <1>5, <1>6, <1>7, <1>8, <1>9 DEF PInv

LEMMA ServeRight == ASSUME PInv, NEW r \in requests, Panel!Serve(r) PROVE PInv'
<1> DEFINE q == [r EXCEPT !.at = "answered", !.version = version]
<1>1. r \in PanelRequests /\ version \in Nat BY DEF PInv, PanelTypeOK
<1>2. /\ q \in PanelRequests /\ q.id = r.id /\ q.key = r.key /\ q.staged = r.staged
      /\ q.version = version
  BY <1>1 DEF PanelRequests
<1> HIDE DEF q
<1>3. /\ requests' = (requests \ {r}) \cup {q}
      /\ UNCHANGED <<panel, selected, visible, typed, due, timer, newest, shown, loading,
                     failed, version, change, excused>>
  BY DEF Panel!Serve, q
<1>4. q.version <= version BY <1>1, <1>2 DEF PInv, VersionsAreRight
<1> QED BY <1>2, <1>3, <1>4, RequestTurns

LEMMA FailRight == ASSUME PInv, NEW r \in requests, Panel!Fail(r) PROVE PInv'
<1> DEFINE q == [r EXCEPT !.at = "failed"]
<1>1. r \in PanelRequests BY DEF PInv, PanelTypeOK
<1>2. /\ q \in PanelRequests /\ q.id = r.id /\ q.key = r.key /\ q.staged = r.staged
      /\ q.at = "failed" /\ q.version = r.version
  BY <1>1 DEF PanelRequests
<1> HIDE DEF q
<1>3. /\ requests' = (requests \ {r}) \cup {q}
      /\ UNCHANGED <<panel, selected, visible, typed, due, timer, newest, shown, loading,
                     failed, version, change, excused>>
  BY DEF Panel!Fail, q
<1>4. q.version <= version BY <1>1, <1>2 DEF PInv, VersionsAreRight
<1> QED BY <1>2, <1>3, <1>4, RequestTurns

\* Only the newest answer is accepted, and only when it is about the subject or an effect
\* is due; and it is accepted when it is about the subject of a panel that wants one.
LEMMA AnswerAccepted ==
  ASSUME PInv, NEW r \in requests
  PROVE  /\ Panel!current(r) => r.id = newest
         /\ Panel!current(r) => due \/ r.key = Panel!Subject
         /\ r.id = newest /\ r.key = Panel!Subject /\ Panel!Wanting => Panel!current(r)
         /\ panel = "completion" /\ r.id = newest => Panel!current(r)
<1> USE
  DEF Panel!current, Panel!historyCurrent, Panel!emergenceCurrent, Panel!backlinksCurrent,
      Panel!treeCurrent,
            Panel!bookmarksCurrent, Panel!omniCurrent, Panel!linksCurrent,
              Panel!completionCurrent, Panel!licensesCurrent
<1>1. panel \in PanelNames BY DEF PInv, PanelTypeOK
<1>2. Panel!current(r) => r.id = newest OBVIOUS
<1>3. panel \in ByNumber /\ r.id = newest => due \/ r.key = Panel!Subject
  BY DEF PInv, KeysAreRight
<1>4. Panel!current(r) => due \/ r.key = Panel!Subject
  <2>1. CASE panel \in ByNumber BY <1>2, <1>3, <2>1
  <2>2. CASE panel \in Panel!History \cup {"emergence", "tree"}
    BY <2>2 DEF Panel!History, Panel!Subject, Panel!Fields
  <2> QED BY <1>1, <2>1, <2>2 DEF PanelNames, Panel!Followers, ByNumber
<1>5. panel = "completion" /\ r.id = newest => Panel!current(r)
  <2>1. SUFFICES ASSUME panel = "completion", r.id = newest PROVE r.key[1] = selected
    OBVIOUS
  <2>2. due = FALSE BY <2>1, TimerRests DEF Panel!Followers, Panel!History
  <2>3. Panel!Subject = <<selected, typed>> BY <2>1 DEF Panel!Subject
  <2> QED BY <1>3, <2>1, <2>2, <2>3 DEF ByNumber, Panel!Fields
<1>6. r.id = newest /\ r.key = Panel!Subject /\ Panel!Wanting => Panel!current(r)
  BY <1>1, <1>5
  DEF PanelNames, Panel!Followers, Panel!Fields, Panel!History, Panel!Subject, Panel!Wanting
<1> QED BY <1>2, <1>4, <1>5, <1>6

LEMMA ReceiveRight == ASSUME PInv, NEW r \in requests, Panel!Receive(r)
PROVE  PInv' /\ Panel!ShownGoesForward
<1>1. /\ r.at \in {"answered", "failed"} /\ requests' = requests \ {r}
      /\ shown' = (IF Panel!current(r) /\ r.at = "answered"
                     THEN [key |-> r.key, version |-> r.version] ELSE shown)
      /\ failed' = (failed \/ (Panel!current(r) /\ r.at = "failed"))
      /\ loading' = (loading /\ (r.id # newest \/ (panel = "completion" /\ r.at = "failed")))
      /\ UNCHANGED <<panel, selected, visible, typed, due, timer, newest, version, change,
                     excused>>
  BY DEF Panel!Receive, Panel!stillLoading
<1>2. r \in PanelRequests BY DEF PInv, PanelTypeOK
<1>3. [key |-> r.key, version |-> r.version] \in ShownAnswers
  BY <1>2 DEF ShownAnswers, PanelRequests
<1>4. Panel!current(r) \in BOOLEAN
  BY
  DEF Panel!current, Panel!historyCurrent, Panel!emergenceCurrent, Panel!backlinksCurrent,
      Panel!treeCurrent,
         Panel!bookmarksCurrent, Panel!omniCurrent, Panel!linksCurrent, Panel!completionCurrent,
           Panel!licensesCurrent
<1>5. PanelTypeOK' BY <1>1, <1>3, <1>4 DEF PInv, PanelTypeOK
<1>6. Panel!Subject' = Panel!Subject /\ Panel!Wanting' = Panel!Wanting
  BY <1>1, SubjectRests DEF Panel!Wanting
<1>7. /\ Panel!current(r) => r.id = newest /\ (due \/ r.key = Panel!Subject)
      /\ r.id = newest /\ r.key = Panel!Subject /\ Panel!Wanting => Panel!current(r)
      /\ panel = "completion" /\ r.id = newest => Panel!current(r)
  BY AnswerAccepted
<1>8. IdsAreRight' /\ TimerIsRight' BY <1>1 DEF PInv, IdsAreRight, TimerIsRight
<1>9. LoadingIsRight'
  <2>1. SUFFICES ASSUME loading' PROVE LoadingIsRight' BY DEF LoadingIsRight
  <2>2. loading /\ Panel!Loads /\ (failed \/ timer # None \/ \E q \in requests : q.id = newest)
    BY <1>1, <2>1 DEF PInv, LoadingIsRight
  <2>3. CASE r.id # newest BY <1>1, <2>2, <2>3 DEF LoadingIsRight, Panel!Loads
  <2>4. CASE r.id = newest BY <1>1, <1>7, <2>1, <2>2, <2>4 DEF LoadingIsRight, Panel!Loads
  <2> QED BY <2>3, <2>4
<1>10. KeysAreRight' BY <1>1, <1>6 DEF PInv, KeysAreRight
<1>11. CASE Panel!current(r) /\ r.at = "answered"
  <2>1. shown' = [key |-> r.key, version |-> r.version] BY <1>1, <1>11
  <2>2. shown' # None /\ shown'.key = r.key /\ shown'.version = r.version
    BY <1>3, <2>1, NoneAssumption, ShownAssumption
  <2>3. r.id = newest /\ (due \/ r.key = Panel!Subject) BY <1>7, <1>11
  <2>4. ShownIsRight'
    <3>1. SubjectIsComing' BY <1>1, <1>6, <2>2, <2>3 DEF SubjectIsComing
    <3>2. ~(panel \in Panel!Followers \ {"tree"} /\ selected = None /\ ~due)
      <4>1. SUFFICES ASSUME panel \in Panel!Followers \ {"tree"}, selected = None, ~due
              PROVE  FALSE
        OBVIOUS
      <4>2. r.key = None
        BY <2>3, <4>1 DEF Panel!Subject, Panel!WorkOf, Panel!Followers, Panel!History
      <4> QED BY <4>1, <4>2 DEF PInv, KeysAreRight
    <3> QED BY <1>1, <3>1, <3>2 DEF ShownIsRight
  <2>5. shown # None => shown.version <= r.version
    BY <1>11, <2>3 DEF PInv, VersionsAreRight
  <2>6. \A q \in requests' : q.id # newest BY <1>1, <2>3 DEF PInv, IdsAreRight
  <2>7. r.version <= version BY DEF PInv, VersionsAreRight
  <2>8. VersionsAreRight' BY <1>1, <2>2, <2>6, <2>7 DEF PInv, VersionsAreRight
  <2>9. Panel!ShownGoesForward BY <2>2, <2>5 DEF Panel!ShownGoesForward
  <2> QED BY <1>5, <1>8, <1>9, <1>10, <2>4, <2>8, <2>9 DEF PInv
<1>12. CASE ~(Panel!current(r) /\ r.at = "answered")
  <2>1. shown' = shown BY <1>1, <1>12
  <2>2. ShownIsRight'
    <3>1. Panel!Wanting /\ ~excused /\ ~failed' => SubjectIsComing'
      <4>1. SUFFICES ASSUME Panel!Wanting, ~excused, ~failed' PROVE SubjectIsComing'
        OBVIOUS
      <4>2. SubjectIsComing BY <1>1, <4>1 DEF PInv, ShownIsRight
      <4>3. ~(r.id = newest /\ r.key = Panel!Subject) BY <1>1, <1>7, <1>12, <4>1
      <4> QED BY <1>1, <1>6, <2>1, <4>2, <4>3 DEF SubjectIsComing
    <3> QED BY <1>1, <1>6, <2>1, <3>1 DEF PInv, ShownIsRight
  <2>3. VersionsAreRight' BY <1>1, <2>1 DEF PInv, VersionsAreRight
  <2>4. shown # None => shown.version \in Nat BY DEF PInv, PanelTypeOK, ShownAnswers
  <2>5. Panel!ShownGoesForward BY <2>1, <2>4 DEF Panel!ShownGoesForward
  <2> QED BY <1>5, <1>8, <1>9, <1>10, <2>2, <2>3, <2>5 DEF PInv
<1> QED BY <1>11, <1>12

-----------------------------------------------------------------------------
\* Steps that leave the panel as it is.
LEMMA PanelKeeps ==
  ASSUME PInv, PanelTypeOK',
         UNCHANGED <<panel, selected, visible, typed, due, timer, newest, requests, shown,
                     loading, failed, excused>>,
         version' >= version,
         panel \in Panel!History /\ change' # None => change'.key # None
  PROVE  PInv'
<1>1. Panel!Subject' = Panel!Subject /\ Panel!Wanting' = Panel!Wanting
  BY SubjectRests DEF Panel!Wanting
<1>2. IdsAreRight' /\ TimerIsRight' /\ LoadingIsRight'
  BY DEF PInv, IdsAreRight, TimerIsRight, LoadingIsRight, Panel!Loads
<1>3. KeysAreRight' BY <1>1 DEF PInv, KeysAreRight
<1>4. ShownIsRight' BY <1>1 DEF PInv, ShownIsRight, SubjectIsComing
<1>5. VersionsAreRight'
  <2>1. /\ version \in Nat /\ version' \in Nat /\ \A r \in requests : r.version \in Nat
        /\ shown # None => shown.version \in Nat
    BY DEF PInv, PanelTypeOK, PanelRequests, ShownAnswers
  <2> QED BY <2>1 DEF PInv, VersionsAreRight
<1> QED BY <1>2, <1>3, <1>4, <1>5 DEF PInv

LEMMA StartChangeRight == ASSUME PInv, Panel!StartChange PROVE PInv'
<1>1. /\ change' = [at |-> "sent", key |-> Panel!Subject, receipt |-> newest]
      /\ panel \in Panel!History => selected # None
      /\ UNCHANGED <<panel, selected, visible, typed, due, timer, newest, requests, shown,
                     loading, failed, version, excused>>
  BY DEF Panel!StartChange
<1>2. /\ Panel!Subject \in PanelKeys
      /\ panel \in Panel!History => Panel!Subject # None
  BY <1>1, SubjectFacts DEF PInv, Panel!Followers, Panel!History
<1>3. change' \in Changes BY <1>1, <1>2 DEF Changes, PInv, PanelTypeOK
<1>4. PanelTypeOK' BY <1>1, <1>3 DEF PInv, PanelTypeOK
<1>5. version' >= version BY <1>1 DEF PInv, PanelTypeOK
<1>6. panel \in Panel!History => change'.key # None BY <1>1, <1>2
<1> QED BY <1>1, <1>4, <1>5, <1>6, PanelKeeps

LEMMA ChangeServedRight == ASSUME PInv, Panel!ChangeServed PROVE PInv'
<1>1. /\ change # None /\ change' = [change EXCEPT !.at = "served"] /\ version' = version + 1
      /\ UNCHANGED <<panel, selected, visible, typed, due, timer, newest, requests, shown,
                     loading, failed, excused>>
  BY DEF Panel!ChangeServed
<1>2. change \in Changes /\ version \in Nat BY <1>1 DEF PInv, PanelTypeOK
<1>3. change' \in Changes /\ change'.key = change.key BY <1>1, <1>2 DEF Changes
<1>4. PanelTypeOK' /\ version' >= version BY <1>1, <1>2, <1>3 DEF PInv, PanelTypeOK
<1>5. panel \in Panel!History => change'.key # None BY <1>1, <1>3 DEF PInv, KeysAreRight
<1> QED BY <1>1, <1>4, <1>5, PanelKeeps

LEMMA ChangeFailsRight == ASSUME PInv, Panel!ChangeFails PROVE PInv'
<1>1. PanelTypeOK' /\ version' >= version BY DEF PInv, PanelTypeOK, Panel!ChangeFails
<1> QED BY <1>1, PanelKeeps DEF Panel!ChangeFails

LEMMA EditServedRight == ASSUME PInv, Panel!EditServed PROVE PInv'
<1>1. /\ panel = "tree" /\ version' = version + 1 /\ version \in Nat
      /\ UNCHANGED <<panel, selected, visible, typed, due, timer, newest, requests, shown,
                     loading, failed, change, excused>>
  BY DEF Panel!EditServed, PInv, PanelTypeOK
<1>2. PanelTypeOK' /\ version' >= version BY <1>1 DEF PInv, PanelTypeOK
<1> QED BY <1>1, <1>2, PanelKeeps DEF Panel!History

LEMMA ChangeAnsweredRight == ASSUME PInv, Panel!ChangeAnswered PROVE PInv'
<1>1. /\ change # None /\ change' = None
      /\ UNCHANGED <<panel, selected, visible, due, version>>
  BY DEF Panel!ChangeAnswered
<1>2. change \in Changes BY <1>1 DEF PInv, PanelTypeOK
<1>3. CASE Panel!afterPromotion
  <2>1. /\ panel \in Panel!History /\ Panel!Begin(change.key, FALSE)
            /\ excused' = (change.key # Panel!Subject)
        /\ UNCHANGED <<typed, timer, shown>>
    BY <1>3 DEF Panel!afterPromotion
  <2>2. change.key \in PanelKeys /\ change.key # None
    BY <1>1, <1>2, <2>1 DEF Changes, PInv, KeysAreRight
  <2>3. /\ selected' \in Selections /\ visible' \in BOOLEAN /\ typed' \in Nat
        /\ due' \in BOOLEAN /\ excused' \in BOOLEAN
    BY <1>1, <2>1, <2>2 DEF PInv, PanelTypeOK
  <2>4. Panel!Subject' = Panel!Subject BY <1>1, <2>1, SubjectRests
  <2>5. NothingShown' BY <1>1, <2>1 DEF PInv, ShownIsRight, NothingShown
  <2> QED BY <1>1, <2>1, <2>2, <2>3, <2>4, <2>5, PanelAsks DEF Panel!History
<1>4. CASE Panel!afterResolution
  <2>1. panel = "emergence" /\ typed' = typed /\ timer' = timer
    BY <1>4 DEF Panel!afterResolution
  <2>2. timer' = None BY <2>1, TimerRests
  <2>3. CASE selected = None
    <3>1. Panel!Clear /\ excused' = excused BY <1>4, <2>3 DEF Panel!afterResolution
    <3>2. /\ selected' \in Selections /\ visible' \in BOOLEAN /\ typed' \in Nat
          /\ due' \in BOOLEAN /\ excused' \in BOOLEAN
      BY <1>1, <2>1, <3>1 DEF PInv, PanelTypeOK
    <3>3. ~Panel!Wanting' BY <1>1, <2>1, <2>3 DEF Panel!Wanting, Panel!Followers
    <3> QED BY <1>1, <2>2, <3>1, <3>2, <3>3, PanelClears
  <2>4. CASE selected # None
    <3>1. Panel!Begin(selected, FALSE) /\ shown' = shown /\ excused' = FALSE
      BY <1>4, <2>4 DEF Panel!afterResolution
    <3>2. Panel!Subject = selected BY <2>1 DEF Panel!Subject
    <3>3. selected \in PanelKeys BY <3>2, SubjectFacts DEF PInv
    <3>4. /\ selected' \in Selections /\ visible' \in BOOLEAN /\ typed' \in Nat
          /\ due' \in BOOLEAN /\ excused' \in BOOLEAN
      BY <1>1, <2>1, <3>1, <3>3 DEF PInv, PanelTypeOK
    <3>5. Panel!Subject' = selected BY <1>1, <2>1, <3>2, SubjectRests
    <3>6. NothingShown' BY <1>1, <2>4 DEF NothingShown
    <3> QED BY <1>1, <2>1, <2>4, <3>1, <3>3, <3>4, <3>5, <3>6, PanelAsks
  <2> QED BY <2>3, <2>4
<1>5. CASE Panel!afterBookmark
  <2>1. /\ panel = "bookmarks" /\ Panel!Begin(panel, FALSE) /\ excused' = FALSE
        /\ UNCHANGED <<typed, timer, shown>>
    BY <1>5 DEF Panel!afterBookmark
  <2>2. panel \in PanelKeys BY <2>1 DEF PanelKeys
  <2>3. /\ selected' \in Selections /\ visible' \in BOOLEAN /\ typed' \in Nat
        /\ due' \in BOOLEAN /\ excused' \in BOOLEAN
    BY <1>1, <2>1, <2>2 DEF PInv, PanelTypeOK
  <2>4. Panel!Subject' = panel BY <1>1, <2>1 DEF Panel!Subject
  <2>5. NothingShown' BY <1>1, <2>1 DEF NothingShown, Panel!Followers, Panel!History
  <2> QED BY <1>1, <2>1, <2>2, <2>3, <2>4, <2>5, PanelAsks DEF Panel!Followers, Panel!History
<1>6. CASE Panel!clearAccepted
  <2>1. panel = "omni" /\ excused' = excused BY <1>6 DEF Panel!clearAccepted
  <2>2. CASE Panel!inputIsCurrent(change.receipt)
    <3>1. Panel!Clear /\ typed' = 0 /\ timer' = None BY <1>6, <2>2 DEF Panel!clearAccepted
    <3>2. /\ selected' \in Selections /\ visible' \in BOOLEAN /\ typed' \in Nat
          /\ due' \in BOOLEAN /\ excused' \in BOOLEAN
      BY <1>1, <2>1, <3>1 DEF PInv, PanelTypeOK
    <3>3. ~Panel!Wanting' BY <1>1, <2>1, <3>1 DEF Panel!Wanting, Panel!Fields
    <3> QED BY <1>1, <2>1, <3>1, <3>2, <3>3, PanelClears
  <2>3. CASE ~Panel!inputIsCurrent(change.receipt)
    <3>1. UNCHANGED <<newest, requests, shown, loading, failed, typed, timer>>
      BY <1>6, <2>3 DEF Panel!clearAccepted
    <3>2. PanelTypeOK' /\ version' >= version BY <1>1, <2>1, <3>1 DEF PInv, PanelTypeOK
    <3> QED BY <1>1, <2>1, <3>1, <3>2, PanelKeeps
  <2> QED BY <2>2, <2>3
<1> QED BY <1>3, <1>4, <1>5, <1>6 DEF Panel!ChangeAnswered

LEMMA OutlineReloadRight == ASSUME PInv, Panel!OutlineReload PROVE PInv'
<1>1. /\ panel \in {"tree", "bookmarks"} /\ Panel!Begin(Panel!Subject, TRUE) /\ excused' = FALSE
      /\ UNCHANGED <<panel, selected, visible, typed, due, timer, shown, version, change>>
  BY DEF Panel!OutlineReload
<1>2. Panel!Subject \in PanelKeys BY SubjectFacts DEF PInv
<1>3. /\ selected' \in Selections /\ visible' \in BOOLEAN /\ typed' \in Nat
      /\ due' \in BOOLEAN /\ excused' \in BOOLEAN
  BY <1>1, <1>2 DEF PInv, PanelTypeOK
<1>4. Panel!Subject' = Panel!Subject BY <1>1, SubjectRests
<1>5. NothingShown' BY <1>1 DEF NothingShown, Panel!Followers, Panel!History
<1> QED BY <1>1, <1>2, <1>3, <1>4, <1>5, PanelAsks DEF Panel!Followers, Panel!History

LEMMA ReloadRevokedRight == ASSUME PInv, Panel!ReloadRevoked PROVE PInv'
<1>1. /\ \E r \in requests : r.staged
      /\ requests' = {r \in requests : ~r.staged}
      /\ newest' = (IF panel = "tree" /\ \E r \in requests : r.staged /\ r.id = newest
                      THEN newest + 1 ELSE newest)
      /\ loading' = (loading /\ newest' = newest) /\ excused' = TRUE
      /\ UNCHANGED <<panel, selected, visible, typed, due, timer, shown, failed, version,
                     change>>
  BY DEF Panel!ReloadRevoked
<1>2. panel \in {"tree", "bookmarks"} BY <1>1 DEF PInv, KeysAreRight
<1>3. newest \in Nat /\ \A r \in requests : r.id \in Nat /\ r.id <= newest
  BY DEF PInv, PanelTypeOK, PanelRequests, IdsAreRight
<1>4. PanelTypeOK' BY <1>1, <1>3 DEF PInv, PanelTypeOK
<1>5. \A r \in requests' : r \in requests /\ (r.id = newest' => newest' = newest)
  BY <1>1, <1>3
<1>6. IdsAreRight'
  <2>1. \A r \in requests' : r.id <= newest' BY <1>1, <1>3
  <2> QED BY <1>5, <2>1 DEF PInv, IdsAreRight
<1>7. timer' = None BY <1>1, <1>2, TimerRests
<1>8. TimerIsRight' BY <1>1, <1>7 DEF PInv, TimerIsRight
<1>9. LoadingIsRight'
  <2>1. SUFFICES ASSUME loading' PROVE LoadingIsRight' BY DEF LoadingIsRight
  <2>2. loading /\ newest' = newest BY <1>1, <2>1
  <2>3. Panel!Loads /\ (failed \/ \E r \in requests : r.id = newest)
    BY <1>1, <1>7, <2>2 DEF PInv, LoadingIsRight
  <2>4. \A r \in requests : r.id = newest => ~r.staged
    BY <1>1, <1>2, <1>3, <2>2, <2>3 DEF Panel!Loads
  <2> QED BY <1>1, <2>2, <2>3, <2>4 DEF LoadingIsRight, Panel!Loads
<1>10. Panel!Subject' = Panel!Subject BY <1>1, SubjectRests
<1>11. KeysAreRight' BY <1>1, <1>2, <1>5, <1>10 DEF PInv, KeysAreRight
<1>12. ShownIsRight' BY <1>1, <1>2 DEF ShownIsRight, Panel!Followers, Panel!History
<1>13. VersionsAreRight' BY <1>1, <1>5 DEF PInv, VersionsAreRight
<1> QED BY <1>4, <1>6, <1>8, <1>9, <1>11, <1>12, <1>13 DEF PInv

-----------------------------------------------------------------------------
\* Only an answer changes what is shown to something else.
LEMMA ShownRests ==
  ASSUME PInv, shown' = shown \/ shown' = None PROVE Panel!ShownGoesForward
<1>1. shown # None => shown.version \in Nat BY DEF PInv, PanelTypeOK, ShownAnswers
<1> QED BY <1>1 DEF Panel!ShownGoesForward

LEMMA PanelsStep == ASSUME PInv, [Panel!Next]_Panel!vars PROVE PInv' /\ Panel!ShownGoesForward
<1>1. CASE \E r \in requests : Panel!Receive(r) BY <1>1, ReceiveRight
<1>2. CASE \E r \in requests : Panel!Serve(r) \/ Panel!Fail(r)
  BY <1>2, ServeRight, FailRight, ShownRests DEF Panel!Serve, Panel!Fail
<1>3. CASE \E item \in Panel!Items \cup {None} : Panel!Select(item)
  BY <1>3, PanelSelectRight, ShownRests DEF Panel!Select, Panel!Clear
<1>4. CASE Panel!ShowTree \/ Panel!SnapshotPublished
  BY <1>4, ShowTreeRight, SnapshotPublishedRight, ShownRests
  DEF Panel!ShowTree, Panel!SnapshotPublished
<1>5. CASE Panel!EffectsRun
  BY <1>5, EffectsRight, ShownRests
  DEF Panel!EffectsRun, Panel!selectionEffect, Panel!treeEffect, Panel!linkEditorEffect,
      Panel!Clear, Panel!invalidate
<1>6. CASE \E query \in 0..2 : Panel!Type(query)
  <2>1. PICK query \in 0..2 : Panel!Type(query) BY <1>6
  <2>2. query \in Nat BY <2>1
  <2>3. shown' = shown \/ shown' = None
    BY <2>1
    DEF Panel!Type, Panel!queueSearch, Panel!scheduleSearch, Panel!updateInlineLinkCompletion,
        Panel!Clear
  <2> QED BY <2>1, <2>2, <2>3, TypeRight, ShownRests
<1>7. CASE Panel!TimerFires \/ Panel!Open \/ Panel!Close
  BY <1>7, TimerFiresRight, OpenRight, CloseRight, ShownRests
  DEF Panel!TimerFires, Panel!Open, Panel!Close, Panel!Clear
<1>8. CASE Panel!StartChange \/ Panel!ChangeServed \/ Panel!ChangeFails \/ Panel!EditServed
  BY <1>8, StartChangeRight, ChangeServedRight, ChangeFailsRight, EditServedRight, ShownRests
  DEF Panel!StartChange, Panel!ChangeServed, Panel!ChangeFails, Panel!EditServed
<1>9. CASE Panel!ChangeAnswered
  BY <1>9, ChangeAnsweredRight, ShownRests
  DEF Panel!ChangeAnswered, Panel!afterPromotion, Panel!afterResolution, Panel!afterBookmark,
      Panel!clearAccepted, Panel!Clear
<1>10. CASE Panel!OutlineReload \/ Panel!ReloadRevoked
  BY <1>10, OutlineReloadRight, ReloadRevokedRight, ShownRests
  DEF Panel!OutlineReload, Panel!ReloadRevoked
<1>11. CASE UNCHANGED Panel!vars
  <2>1. PanelTypeOK' /\ version' >= version BY <1>11 DEF PInv, PanelTypeOK, Panel!vars
  <2>2. panel \in Panel!History /\ change' # None => change'.key # None
    BY <1>11 DEF PInv, KeysAreRight, Panel!vars
  <2> QED BY <1>11, <2>1, <2>2, PanelKeeps, ShownRests DEF Panel!vars
<1> QED BY <1>1, <1>2, <1>3, <1>4, <1>5, <1>6, <1>7, <1>8, <1>9, <1>10, <1>11 DEF Panel!Next

\* The invariant says what a panel shows when nothing is outstanding.
LEMMA PanelIsRight == ASSUME PInv PROVE Panel!PanelsShowTheirSubject
<1>1. SUFFICES ASSUME ~excused, Panel!Quiet, ~failed
      PROVE  /\ ~loading
             /\ Panel!Wanting => shown # None /\ shown.key = Panel!Subject
             /\ panel \in Panel!Followers \ {"tree"} /\ selected = None => shown = None
  BY DEF Panel!PanelsShowTheirSubject, Panel!ShowsItsSubject
<1>2. ~loading BY <1>1 DEF PInv, LoadingIsRight, Panel!Quiet
<1>3. Panel!Wanting => shown # None /\ shown.key = Panel!Subject
  BY <1>1 DEF PInv, ShownIsRight, SubjectIsComing, Panel!Quiet
<1>4. panel \in Panel!Followers \ {"tree"} /\ selected = None => shown = None
  BY <1>1 DEF PInv, ShownIsRight, Panel!Quiet
<1> QED BY <1>2, <1>3, <1>4

-----------------------------------------------------------------------------
(* The viewport of the outline.                                            *)

Measures(h) == \A x \in DOMAIN h : h[x] \in Nat

\* Where a place is in the layout: into its row as far as that reaches.
Position(R, h, p) ==
  LET i == Viewport!IndexOf(R, p.id)
  IN  Viewport!Offset(R, h, i) + Viewport!Least(p.offset, Viewport!HeightOf(h, R[i]))

ViewportTypeOK ==
  /\ rows \in Viewport!Outlines /\ Measures(heights)
  /\ metrics \in [top : Nat, height : {0, ViewportHeight}]
  /\ {scrollAnchor, pendingAnchor, place} \subseteq PlaceRecord \cup {None}
  /\ owner \cup focusedIds \cup composingIds \cup pinned \subseteq RowIds
  /\ view \in {"away", "mounted", "connected"} /\ top \in Nat
  /\ focus \in RowIds \cup {None} /\ strayed \in BOOLEAN /\ frame \in BOOLEAN

\* The row with the focus is there, and it is pinned with what else is protected.
FocusIsPinned ==
  /\ owner \cup focusedIds \cup composingIds \subseteq pinned
  /\ focus # None => focus \in Viewport!ToSet(rows) \cap focusedIds
  /\ view # "connected" => focus = None

\* Until the outline is first connected nothing has been seen of it.
NothingIsSeenBefore ==
  metrics.height = 0 =>
    /\ metrics.top = 0 /\ place = None /\ pendingAnchor = None /\ view # "connected"
    /\ view = "away" => rows = <<>>

\* The place that is read is the anchor of the scroll position, and the one that is kept.
AnchorsAreThePlace ==
  /\ scrollAnchor = place
  /\ place # None => pendingAnchor \in {None, place}
  /\ place # None /\ ~strayed => place.id \in Viewport!ToSet(rows)

\* The scroll position is within the content, and known unless the browser has cut it off.
PositionIsKnown ==
  /\ view # "away" => top <= Viewport!MaxTop(rows, heights)
  /\ view = "mounted" => top = 0
  /\ Viewport!Connected /\ ~strayed => top = metrics.top

\* While no correction is pending, the scroll position is that of the place.
PlaceIsWhereItWas ==
  place # None /\ ~strayed /\ pendingAnchor = None =>
    metrics.top = Viewport!Clamped(rows, heights, Position(rows, heights, place))

ViewportInv ==
  /\ ViewportTypeOK /\ FocusIsPinned /\ NothingIsSeenBefore /\ AnchorsAreThePlace
  /\ PositionIsKnown /\ PlaceIsWhereItWas

-----------------------------------------------------------------------------
(* Numbers and sums.                                                       *)

LEMMA LeastExists ==
  ASSUME NEW T \in SUBSET Nat, T # {}
  PROVE  \E x \in T : \A y \in T : x <= y
<1>1. PICK x \in T : \A y \in T : <<y, x>> \notin OpToRel(<, Nat)
  BY WFMin, NatLessThanWellFounded
<1>2. \A y \in T : ~(y < x) BY <1>1 DEF OpToRel
<1> QED BY <1>2

\* What holds of 0, and of each number that follows one of which it holds.
LEMMA CountingUp ==
  ASSUME NEW n \in Nat, NEW T, 0 \in T, \A i \in 1..n : i - 1 \in T => i \in T
  PROVE  0..n \subseteq T
<1> SUFFICES ASSUME (0..n) \ T # {} PROVE FALSE OBVIOUS
<1>1. PICK x \in (0..n) \ T : \A y \in (0..n) \ T : x <= y
  <2> DEFINE U == (0..n) \ T
  <2>1. U \in SUBSET Nat /\ U # {} OBVIOUS
  <2> HIDE DEF U
  <2>2. \E x \in U : \A y \in U : x <= y BY <2>1, LeastExists
  <2> QED BY <2>2 DEF U
<1>2. x # 0 OBVIOUS
<1>3. x \in 1..n /\ x - 1 \in 0..n BY <1>2
<1>4. x - 1 \in T BY <1>1, <1>3
<1> QED BY <1>3, <1>4

\* The first element of a set of numbers, and the last one below a bound.
LEMMA FirstOfNumbers ==
  ASSUME NEW T \in SUBSET Nat, T # {}
  PROVE  Viewport!Min(T) \in T /\ \A y \in T : Viewport!Min(T) <= y
BY LeastExists DEF Viewport!Min

LEMMA LastOfNumbers ==
  ASSUME NEW n \in Nat, NEW T \in SUBSET (0..n), T # {}
  PROVE  Viewport!Max(T) \in T /\ \A y \in T : y <= Viewport!Max(T)
<1> DEFINE D == {n - y : y \in T}
<1>1. D \in SUBSET Nat /\ D # {}
  <2>1. \A y \in T : n - y \in Nat OBVIOUS
  <2>2. PICK y \in T : TRUE OBVIOUS
  <2> QED BY <2>1, <2>2
<1>2. PICK d \in D : \A e \in D : d <= e
  <2> HIDE DEF D
  <2> QED BY <1>1, LeastExists
<1>3. PICK x \in T : d = n - x BY <1>2
<1>4. \A y \in T : n - y \in D OBVIOUS
<1>5. \A y \in T : n - x <= n - y BY <1>2, <1>3, <1>4
<1>6. \A y \in T : x >= y BY <1>5
<1>7. Viewport!Max(T) \in T /\ \A y \in T : Viewport!Max(T) >= y BY <1>6 DEF Viewport!Max
<1> QED BY <1>7

Adds(f, s, D) == f = [j \in D |-> IF j = 0 THEN 0 ELSE f[j - 1] + s[j]]

\* There are the sums of a sequence, by adding one after the other.
LEMMA SumsExist ==
  ASSUME NEW n \in Nat, NEW s \in [1..n -> Int]
  PROVE  \E f : Adds(f, s, 0..n)
<1> DEFINE T == {k \in 0..n : \E f : Adds(f, s, 0..k)}
<1>1. 0 \in T
  <2>1. Adds([j \in 0..0 |-> 0], s, 0..0) BY DEF Adds
  <2> QED BY <2>1
<1>2. ASSUME NEW i \in 1..n, i - 1 \in T PROVE i \in T
  <2>1. PICK f : Adds(f, s, 0..(i - 1)) BY <1>2
  <2> DEFINE g == [j \in 0..i |-> IF j = i THEN f[i - 1] + s[i] ELSE f[j]]
  <2>2. ASSUME NEW j \in 0..i PROVE g[j] = IF j = 0 THEN 0 ELSE g[j - 1] + s[j]
    <3>1. CASE j = i
      <4>1. g[j] = f[i - 1] + s[i] /\ g[i - 1] = f[i - 1] BY <3>1
      <4> QED BY <3>1, <4>1
    <3>2. CASE j # i
      <4>1. j \in 0..(i - 1) BY <3>2
      <4>2. f[j] = IF j = 0 THEN 0 ELSE f[j - 1] + s[j] BY <2>1, <4>1 DEF Adds
      <4>3. g[j] = f[j] BY <3>2
      <4>4. j # 0 => g[j - 1] = f[j - 1] BY <4>1
      <4> QED BY <4>2, <4>3, <4>4
    <3> QED BY <3>1, <3>2
  <2>3. g = [j \in 0..i |-> g[j]] OBVIOUS
  <2> HIDE DEF g
  <2>4. g = [j \in 0..i |-> IF j = 0 THEN 0 ELSE g[j - 1] + s[j]] BY <2>2, <2>3
  <2>5. Adds(g, s, 0..i) BY <2>4 DEF Adds
  <2> QED BY <2>5
<1>3. 0..n \subseteq T
  <2> HIDE DEF T
  <2> QED BY <1>1, <1>2, CountingUp
<1> QED BY <1>3

\* What the sums of a sequence of numbers are.
LEMMA SumsAre ==
  ASSUME NEW n \in Nat, NEW s \in [1..n -> Int]
  PROVE  /\ Viewport!Sums(s)[0] = 0
         /\ \A j \in 1..n : Viewport!Sums(s)[j] = Viewport!Sums(s)[j - 1] + s[j]
         /\ \A j \in 0..n : Viewport!Sums(s)[j] \in Int
<1>1. {0} \cup DOMAIN s = 0..n OBVIOUS
<1>2. Adds(Viewport!Sums(s), s, 0..n)
  <2> DEFINE D == {0} \cup DOMAIN s
             g == CHOOSE g : Adds(g, s, D)
  <2>1. PICK f : Adds(f, s, D) BY <1>1, SumsExist
  <2>2. Adds(g, s, D) BY <2>1
  <2>3. Viewport!Sums(s) = g BY DEF Viewport!Sums, Adds
  <2> QED BY <1>1, <2>2, <2>3
<1> DEFINE g == Viewport!Sums(s)
<1> HIDE DEF g
<1>3. g = [j \in 0..n |-> IF j = 0 THEN 0 ELSE g[j - 1] + s[j]] BY <1>2 DEF Adds, g
<1>4. g[0] = 0 BY <1>3
<1>5. \A j \in 1..n : g[j] = g[j - 1] + s[j] BY <1>3
<1> DEFINE T == {j \in 0..n : g[j] \in Int}
<1>6. 0 \in T BY <1>4
<1>7. \A i \in 1..n : i - 1 \in T => i \in T BY <1>5
<1>8. 0..n \subseteq T
  <2> HIDE DEF T
  <2> QED BY <1>6, <1>7, CountingUp
<1> QED BY <1>4, <1>5, <1>8 DEF g

-----------------------------------------------------------------------------
(* The layout.                                                             *)

LEMMA RowsAreCounted == \A S : Viewport!Cardinality(S) = Cardinality(S)
BY DEF Viewport!Cardinality, Cardinality

LEMMA RowsAre ==
  ASSUME NEW R \in Viewport!Outlines
  PROVE  /\ Len(R) \in Nat /\ DOMAIN R = 1..Len(R) /\ R \in [1..Len(R) -> RowIds]
         /\ \A i, j \in 1..Len(R) : R[i] = R[j] => i = j
         /\ R = <<>> <=> Len(R) = 0
<1>1. Cardinality(RowIds) \in Nat BY FS_CardinalityType, RowsAssumption
<1>2. PICK n \in 0..Cardinality(RowIds) : R \in [1..n -> RowIds]
  BY RowsAreCounted DEF Viewport!Outlines
<1>3. n \in Nat /\ Len(R) = n /\ DOMAIN R = 1..n BY <1>1, <1>2
<1>4. ASSUME NEW i \in 1..n, NEW j \in 1..n, R[i] = R[j] PROVE i = j
  <2>1. ~(i < j) /\ ~(j < i)
    <3>1. R[i] \in Nat /\ R[j] \in Nat BY <1>2, RowsAssumption
    <3>2. i < j => R[i] < R[j] BY <1>3 DEF Viewport!Outlines
    <3>3. j < i => R[j] < R[i] BY <1>3 DEF Viewport!Outlines
    <3> QED BY <1>4, <3>1, <3>2, <3>3
  <2> QED BY <1>3, <2>1
<1>5. R = <<>> <=> n = 0
  <2>1. R \in Seq(RowIds) BY <1>2, <1>3
  <2> QED BY <1>3, <2>1
<1> QED BY <1>2, <1>3, <1>4, <1>5

LEMMA HeightIs ==
  ASSUME NEW h, Measures(h), NEW id
  PROVE  Viewport!HeightOf(h, id) \in Nat
BY RowsAssumption DEF Viewport!HeightOf, Measures

\* Each row begins where the one before it ends.
LEMMA OffsetsAre ==
  ASSUME NEW R \in Viewport!Outlines, NEW h, Measures(h)
  PROVE  /\ Viewport!Offset(R, h, 1) = 0
         /\ Viewport!TotalHeight(R, h) = Viewport!Offset(R, h, Len(R) + 1)
         /\ \A i \in 1..Len(R) :
              Viewport!Offset(R, h, i + 1) = Viewport!Offset(R, h, i) + Viewport!HeightOf(h, R[i])
         /\ \A i \in 1..(Len(R) + 1) : Viewport!Offset(R, h, i) \in Int
<1> DEFINE s == [j \in DOMAIN R |-> Viewport!HeightOf(h, R[j])]
           n == Len(R)
<1>1. n \in Nat /\ DOMAIN R = 1..n BY RowsAre
<1>2. s \in [1..n -> Int]
  <2>1. \A j \in DOMAIN R : Viewport!HeightOf(h, R[j]) \in Int BY HeightIs
  <2> QED BY <1>1, <2>1
<1>3. \A j \in 1..n : s[j] = Viewport!HeightOf(h, R[j]) BY <1>1
<1>4. \A i : Viewport!Offset(R, h, i) = Viewport!Sums(s)[i - 1] BY DEF Viewport!Offset
<1> HIDE DEF s, n
<1>5. /\ Viewport!Sums(s)[0] = 0
      /\ \A j \in 1..n : Viewport!Sums(s)[j] = Viewport!Sums(s)[j - 1] + s[j]
      /\ \A j \in 0..n : Viewport!Sums(s)[j] \in Int
  BY <1>1, <1>2, SumsAre
<1>6. Viewport!Offset(R, h, 1) = 0 BY <1>4, <1>5
<1>7. \A i \in 1..n :
        Viewport!Offset(R, h, i + 1) = Viewport!Offset(R, h, i) + Viewport!HeightOf(h, R[i])
  <2> SUFFICES
        ASSUME NEW i \in 1..n
        PROVE  Viewport!Offset(R, h, i + 1)
                 = Viewport!Offset(R, h, i) + Viewport!HeightOf(h, R[i])
    OBVIOUS
  <2>1. (i + 1) - 1 = i BY <1>1
  <2>2. Viewport!Offset(R, h, i + 1) = Viewport!Sums(s)[i] BY <1>4, <2>1
  <2>3. Viewport!Offset(R, h, i) = Viewport!Sums(s)[i - 1] BY <1>4
  <2> QED BY <1>3, <1>5, <2>2, <2>3
<1>8. \A i \in 1..(n + 1) : Viewport!Offset(R, h, i) \in Int
  <2>1. \A i \in 1..(n + 1) : i - 1 \in 0..n BY <1>1
  <2> QED BY <1>4, <1>5, <2>1
<1> QED BY <1>6, <1>7, <1>8 DEF n, Viewport!TotalHeight

\* Rows begin one behind the other.
LEMMA OffsetsGrow ==
  ASSUME NEW R \in Viewport!Outlines, NEW h, Measures(h)
  PROVE  /\ \A i \in 1..(Len(R) + 1) :
              Viewport!Offset(R, h, i) \in Nat
              /\ Viewport!Offset(R, h, i) <= Viewport!TotalHeight(R, h)
         /\ Viewport!TotalHeight(R, h) \in Nat
         /\ \A i, j \in 1..(Len(R) + 1) :
              i <= j => Viewport!Offset(R, h, i) <= Viewport!Offset(R, h, j)
<1> DEFINE n == Len(R)
           O(i) == Viewport!Offset(R, h, i)
<1>1. n \in Nat BY RowsAre
<1>2. \A i \in 1..(n + 1) : O(i) \in Int BY OffsetsAre
<1>3. ASSUME NEW i \in 1..n PROVE O(i) <= O(i + 1)
  <2>1. O(i + 1) = O(i) + Viewport!HeightOf(h, R[i]) BY OffsetsAre
  <2>2. Viewport!HeightOf(h, R[i]) \in Nat BY HeightIs
  <2> HIDE DEF O
  <2> QED BY <1>1, <1>2, <2>1, <2>2
<1>4. O(1) = 0 BY OffsetsAre
<1>5. Viewport!TotalHeight(R, h) = O(n + 1) BY OffsetsAre
<1> HIDE DEF n, O
<1>6. ASSUME NEW i \in 1..(n + 1) PROVE \A j \in 1..(n + 1) : i <= j => O(i) <= O(j)
  <2> DEFINE T == {k \in 0..(n + 1 - i) : O(i) <= O(i + k)}
  <2>1. n + 1 - i \in Nat BY <1>1
  <2>2. 0 \in T
    <3>1. i + 0 = i OBVIOUS
    <3> QED BY <1>2, <2>1, <3>1
  <2>3. ASSUME NEW k \in 1..(n + 1 - i), k - 1 \in T PROVE k \in T
    <3> DEFINE l == i + (k - 1)
    <3>1. l \in 1..n /\ i + k = l + 1 BY <1>1, <2>1
    <3>2. O(i) <= O(l) BY <2>3
    <3> HIDE DEF l
    <3>3. l \in 1..(n + 1) /\ l + 1 \in 1..(n + 1) BY <1>1, <3>1
    <3>4. O(l) <= O(l + 1) BY <1>3, <3>1
    <3>5. O(i) <= O(l + 1) BY ONLY <1>2, <3>2, <3>3, <3>4, i \in 1..(n + 1)
    <3> QED BY <2>1, <3>1, <3>5
  <2>4. 0..(n + 1 - i) \subseteq T
    <3> HIDE DEF T
    <3> QED BY <2>1, <2>2, <2>3, CountingUp
  <2> SUFFICES ASSUME NEW j \in 1..(n + 1), i <= j PROVE O(i) <= O(j) OBVIOUS
  <2>5. j - i \in 0..(n + 1 - i) /\ i + (j - i) = j BY <1>1
  <2>6. j - i \in T BY <2>4, <2>5
  <2> QED BY <2>5, <2>6
<1>7. \A i, j \in 1..(n + 1) : i <= j => O(i) <= O(j) BY <1>6
<1>8. 1 \in 1..(n + 1) /\ n + 1 \in 1..(n + 1) BY <1>1
<1>9. \A i \in 1..(n + 1) : 0 <= O(i) /\ O(i) <= O(n + 1)
  <2>1. \A i \in 1..(n + 1) : 1 <= i /\ i <= n + 1 BY <1>1
  <2> QED BY <1>4, <1>7, <1>8, <2>1
<1>10. \A i \in 1..(n + 1) : O(i) \in Nat BY <1>2, <1>9
<1> QED BY <1>5, <1>7, <1>8, <1>9, <1>10 DEF n, O

\* The heights of the rows that are there make the layout.
LEMMA LayoutIsOfItsRows ==
  ASSUME NEW R \in Viewport!Outlines, NEW h, NEW k,
         \A id \in Viewport!ToSet(R) : Viewport!HeightOf(h, id) = Viewport!HeightOf(k, id)
  PROVE  /\ \A i : Viewport!Offset(R, h, i) = Viewport!Offset(R, k, i)
         /\ Viewport!TotalHeight(R, h) = Viewport!TotalHeight(R, k)
         /\ Viewport!MaxTop(R, h) = Viewport!MaxTop(R, k)
         /\ \A y : Viewport!Clamped(R, h, y) = Viewport!Clamped(R, k, y)
<1>1. \A j \in DOMAIN R : Viewport!HeightOf(h, R[j]) = Viewport!HeightOf(k, R[j])
  BY DEF Viewport!ToSet
<1>2. [j \in DOMAIN R |-> Viewport!HeightOf(h, R[j])]
        = [j \in DOMAIN R |-> Viewport!HeightOf(k, R[j])]
  BY <1>1
<1>3. \A i : Viewport!Offset(R, h, i) = Viewport!Offset(R, k, i) BY <1>2 DEF Viewport!Offset
<1>4. Viewport!TotalHeight(R, h) = Viewport!TotalHeight(R, k) BY <1>3 DEF Viewport!TotalHeight
<1>5. Viewport!MaxTop(R, h) = Viewport!MaxTop(R, k) BY <1>4 DEF Viewport!MaxTop
<1> QED BY <1>3, <1>4, <1>5 DEF Viewport!Clamped

LEMMA IndexIs ==
  ASSUME NEW R \in Viewport!Outlines, NEW id \in Viewport!ToSet(R)
  PROVE  /\ Viewport!IndexOf(R, id) \in 1..Len(R) /\ R[Viewport!IndexOf(R, id)] = id
         /\ Len(R) >= 1 /\ id \in RowIds
<1>1. DOMAIN R = 1..Len(R) /\ Len(R) \in Nat /\ R \in [1..Len(R) -> RowIds] BY RowsAre
<1>2. PICK i \in DOMAIN R : R[i] = id BY DEF Viewport!ToSet
<1>3. Viewport!IndexOf(R, id) \in DOMAIN R /\ R[Viewport!IndexOf(R, id)] = id
  BY <1>2 DEF Viewport!IndexOf
<1> QED BY <1>1, <1>2, <1>3

LEMMA IndexOfRow ==
  ASSUME NEW R \in Viewport!Outlines, NEW i \in 1..Len(R)
  PROVE  R[i] \in Viewport!ToSet(R) /\ Viewport!IndexOf(R, R[i]) = i
<1>1. R[i] \in Viewport!ToSet(R) BY RowsAre DEF Viewport!ToSet
<1>2. Viewport!IndexOf(R, R[i]) \in 1..Len(R) /\ R[Viewport!IndexOf(R, R[i])] = R[i]
  BY <1>1, IndexIs
<1> QED BY <1>1, <1>2, RowsAre

\* The row at y is the first that ends behind it, or the last one.
LEMMA IndexAtIs ==
  ASSUME NEW R \in Viewport!Outlines, R # <<>>, NEW h, Measures(h), NEW y \in Int
  PROVE  /\ Viewport!IndexAt(R, h, y) \in 1..Len(R)
         /\ y < Viewport!TotalHeight(R, h)
             => y < Viewport!Offset(R, h, Viewport!IndexAt(R, h, y) + 1)
         /\ y >= Viewport!TotalHeight(R, h) => Viewport!IndexAt(R, h, y) = Len(R)
         /\ \A i \in 1..Len(R) :
              Viewport!Offset(R, h, i + 1) > y => Viewport!IndexAt(R, h, y) <= i
<1> DEFINE behind == {i \in DOMAIN R : Viewport!Offset(R, h, i + 1) > y}
           n == Len(R)
<1>1. n \in Nat /\ n >= 1 /\ DOMAIN R = 1..n BY RowsAre
<1>2. Viewport!IndexAt(R, h, y) = IF behind = {} THEN n ELSE Viewport!Min(behind)
  BY DEF Viewport!IndexAt
<1>3. behind \in SUBSET Nat BY <1>1
<1>4. Viewport!TotalHeight(R, h) = Viewport!Offset(R, h, n + 1) BY DEF Viewport!TotalHeight
<1>5. /\ Viewport!TotalHeight(R, h) \in Nat
      /\ \A i \in 1..n :
           Viewport!Offset(R, h, i + 1) <= Viewport!TotalHeight(R, h)
             /\ Viewport!Offset(R, h, i + 1) \in Nat
  <2>1. \A i \in 1..n : i + 1 \in 1..(n + 1) BY <1>1
  <2> QED BY <2>1, OffsetsGrow
<1>6. n \in behind <=> y < Viewport!TotalHeight(R, h) BY <1>1, <1>4, <1>5
<1>7. behind # {} => y < Viewport!TotalHeight(R, h) BY <1>1, <1>5
<1>8. \A i \in behind : i \in 1..n /\ Viewport!Offset(R, h, i + 1) > y BY <1>1
<1>9. \A i \in 1..n : Viewport!Offset(R, h, i + 1) > y => i \in behind BY <1>1
<1> HIDE DEF behind, n
<1>10. CASE behind = {}
  <2>1. Viewport!IndexAt(R, h, y) = n BY <1>2, <1>10
  <2>2. ~(y < Viewport!TotalHeight(R, h)) BY <1>6, <1>10
  <2> QED BY <1>1, <1>9, <1>10, <2>1, <2>2 DEF n
<1>11. CASE behind # {}
  <2> DEFINE i == Viewport!Min(behind)
  <2>1. i \in behind /\ \A j \in behind : i <= j BY <1>3, <1>11, FirstOfNumbers
  <2>2. Viewport!IndexAt(R, h, y) = i BY <1>2, <1>11
  <2>3. y < Viewport!TotalHeight(R, h) BY <1>7, <1>11
  <2>4. ~(y >= Viewport!TotalHeight(R, h)) BY <1>5, <2>3
  <2> HIDE DEF i
  <2> QED BY <1>8, <1>9, <2>1, <2>2, <2>3, <2>4 DEF n
<1> QED BY <1>10, <1>11

\* Where the browser can be.
LEMMA ClampedIs ==
  ASSUME NEW R \in Viewport!Outlines, NEW h, Measures(h)
  PROVE  /\ Viewport!MaxTop(R, h) \in Nat
         /\ \A y \in Int :
              Viewport!Clamped(R, h, y) \in Nat
                /\ Viewport!Clamped(R, h, y) <= Viewport!MaxTop(R, h)
         /\ \A y \in Nat : y <= Viewport!MaxTop(R, h) => Viewport!Clamped(R, h, y) = y
         /\ Viewport!MaxTop(R, h) <= Viewport!TotalHeight(R, h)
<1>1. Viewport!TotalHeight(R, h) \in Nat BY OffsetsGrow
<1>2. Viewport!MaxTop(R, h) \in Nat /\ Viewport!MaxTop(R, h) <= Viewport!TotalHeight(R, h)
  BY <1>1, RowsAssumption DEF Viewport!MaxTop, Viewport!Greatest
<1> QED BY <1>2 DEF Viewport!Clamped, Viewport!Least, Viewport!Greatest

\* Whoever sees the place at y is at y.
LEMMA PlaceIsThere ==
  ASSUME NEW R \in Viewport!Outlines, NEW h, Measures(h),
         NEW y \in Nat, y <= Viewport!MaxTop(R, h),
         Viewport!PlaceAt(R, h, y) # None
  PROVE  /\ Viewport!PlaceAt(R, h, y).id \in Viewport!ToSet(R)
         /\ Position(R, h, Viewport!PlaceAt(R, h, y)) = y
         /\ Viewport!Clamped(R, h, Position(R, h, Viewport!PlaceAt(R, h, y))) = y
<1> DEFINE i == Viewport!IndexAt(R, h, y)
           p == Viewport!PlaceAt(R, h, y)
<1>1. R # <<>> BY DEF Viewport!PlaceAt
<1>2. i \in 1..Len(R) /\ (y < Viewport!TotalHeight(R, h) => y < Viewport!Offset(R, h, i + 1))
      /\ (y >= Viewport!TotalHeight(R, h) => i = Len(R))
  BY <1>1, IndexAtIs
<1>3. p.id = R[i] /\ p.offset = y - Viewport!Offset(R, h, i) BY <1>1 DEF Viewport!PlaceAt
<1>4. R[i] \in Viewport!ToSet(R) /\ Viewport!IndexOf(R, R[i]) = i BY <1>2, IndexOfRow
<1>5. Viewport!Offset(R, h, i + 1) = Viewport!Offset(R, h, i) + Viewport!HeightOf(h, R[i])
      /\ Viewport!HeightOf(h, R[i]) \in Nat
  BY <1>2, OffsetsAre, HeightIs
<1>6. Viewport!Offset(R, h, i) \in Int /\ Viewport!TotalHeight(R, h) \in Nat
  <2>1. i \in 1..(Len(R) + 1) BY <1>2, RowsAre
  <2> QED BY <2>1, OffsetsAre, OffsetsGrow
<1>7. y <= Viewport!TotalHeight(R, h) BY <1>6, ClampedIs
<1>8. y >= Viewport!TotalHeight(R, h) => y = Viewport!Offset(R, h, i + 1)
  BY <1>2, <1>6, <1>7 DEF Viewport!TotalHeight
<1> HIDE DEF i, p
<1>9. y <= Viewport!Offset(R, h, i + 1) BY <1>2, <1>5, <1>6, <1>8
<1>10. Position(R, h, p)
         = Viewport!Offset(R, h, i)
             + Viewport!Least(y - Viewport!Offset(R, h, i), Viewport!HeightOf(h, R[i]))
  BY <1>3, <1>4 DEF Position
<1>11. Viewport!Least(y - Viewport!Offset(R, h, i), Viewport!HeightOf(h, R[i]))
         = y - Viewport!Offset(R, h, i)
  BY <1>5, <1>6, <1>9 DEF Viewport!Least
<1>12. Position(R, h, p) = y BY <1>6, <1>10, <1>11
<1> QED BY <1>3, <1>4, <1>12, ClampedIs DEF p

LEMMA PlaceIsAPlace ==
  ASSUME NEW R \in Viewport!Outlines, NEW h, Measures(h), NEW y \in Int
  PROVE  Viewport!PlaceAt(R, h, y) \in PlaceRecord \cup {None}
<1>1. CASE R = <<>> BY <1>1 DEF Viewport!PlaceAt
<1>2. CASE R # <<>>
  <2> DEFINE i == Viewport!IndexAt(R, h, y)
  <2>1. i \in 1..Len(R) /\ Len(R) \in Nat BY <1>2, IndexAtIs, RowsAre
  <2>2. R[i] \in RowIds /\ i \in Nat \ {0} BY <2>1, RowsAre
  <2>3. i \in 1..(Len(R) + 1) BY <2>1
  <2>4. Viewport!Offset(R, h, i) \in Int BY <2>3, OffsetsAre
  <2>5. Viewport!PlaceAt(R, h, y)
          = [id |-> R[i], index |-> i, offset |-> y - Viewport!Offset(R, h, i)]
    BY <1>2 DEF Viewport!PlaceAt
  <2> HIDE DEF i
  <2>6. y - Viewport!Offset(R, h, i) \in Int BY <2>4
  <2> QED BY <2>2, <2>5, <2>6 DEF PlaceRecord
<1> QED BY <1>1, <1>2

LEMMA PositionIs ==
  ASSUME NEW R \in Viewport!Outlines, NEW h, Measures(h),
         NEW p \in PlaceRecord, p.id \in Viewport!ToSet(R)
  PROVE  Position(R, h, p) \in Int
<1> DEFINE i == Viewport!IndexOf(R, p.id)
<1>1. i \in 1..Len(R) /\ Len(R) \in Nat BY IndexIs, RowsAre
<1>2. i \in 1..(Len(R) + 1) BY <1>1
<1>3. Viewport!Offset(R, h, i) \in Int BY <1>2, OffsetsAre
<1>4. Viewport!HeightOf(h, R[i]) \in Nat BY HeightIs
<1>5. p.offset \in Int BY DEF PlaceRecord
<1>6. Position(R, h, p)
        = Viewport!Offset(R, h, i) + Viewport!Least(p.offset, Viewport!HeightOf(h, R[i]))
  BY DEF Position
<1> HIDE DEF i
<1> QED BY <1>3, <1>4, <1>5, <1>6 DEF Viewport!Least

-----------------------------------------------------------------------------
(* What is drawn.                                                          *)

MetricsOK(m) == m \in [top : Nat, height : {0, ViewportHeight}] /\ (m.height = 0 => m.top = 0)

\* Where the window is.
LEMMA WindowIs ==
  ASSUME NEW R \in Viewport!Outlines, R # <<>>, NEW h, Measures(h), NEW m, MetricsOK(m)
  PROVE  \E y \in Nat, first \in 1..Len(R), last \in 1..Len(R) :
           /\ Viewport!Window(R, h, m)
                = Viewport!Greatest(1, first - OVERSCAN)..Viewport!Least(Len(R), last + OVERSCAN)
           /\ y <= m.top /\ (y < m.top => y + m.height >= Viewport!TotalHeight(R, h))
           /\ \A i \in 1..Len(R) : Viewport!Offset(R, h, i + 1) > y => first <= i
           /\ \A i \in first..Len(R) : Viewport!Offset(R, h, i) <= y + m.height => i <= last
<1> DEFINE n == Len(R)
           total == Viewport!TotalHeight(R, h)
           y == Viewport!Least(Viewport!Greatest(0, m.top),
                               Viewport!Greatest(0, total - m.height))
           first == Viewport!IndexAt(R, h, y)
           reached == {j \in first..n : Viewport!Offset(R, h, j) <= y + m.height}
           last == Viewport!Greatest(first, IF reached = {} THEN first ELSE Viewport!Max(reached))
<1>1. n \in Nat BY RowsAre
<1>2. total \in Nat BY OffsetsGrow
<1>3. m.top \in Nat /\ m.height \in {0, ViewportHeight} /\ ViewportHeight \in Nat \ {0}
  BY RowsAssumption DEF MetricsOK
<1>4. Viewport!Window(R, h, m)
        = Viewport!Greatest(1, first - OVERSCAN)..Viewport!Least(n, last + OVERSCAN)
  BY DEF Viewport!Window
<1>5. y \in Nat /\ y <= m.top /\ (y < m.top => y + m.height >= total)
  <2> HIDE DEF total
  <2> QED BY <1>2, <1>3 DEF Viewport!Least, Viewport!Greatest
<1> HIDE DEF y
<1>6. first \in 1..n /\ \A i \in 1..n : Viewport!Offset(R, h, i + 1) > y => first <= i
  <2>1. y \in Int BY <1>5
  <2> QED BY <2>1, IndexAtIs
<1> HIDE DEF first
<1>7. \A j \in reached : j \in 1..n BY <1>1, <1>6
<1>8. \A j \in first..n : Viewport!Offset(R, h, j) <= y + m.height => j \in reached OBVIOUS
<1>9. last = Viewport!Greatest(first, IF reached = {} THEN first ELSE Viewport!Max(reached))
  OBVIOUS
<1> HIDE DEF reached, last, n
<1>10. last \in 1..n /\ \A j \in reached : j <= last
  <2>1. CASE reached = {}
    <3>1. last = first BY <1>9, <2>1 DEF Viewport!Greatest
    <3> QED BY <1>6, <2>1, <3>1
  <2>2. CASE reached # {}
    <3>1. reached \subseteq 0..n BY <1>1, <1>7
    <3>2. Viewport!Max(reached) \in reached /\ \A j \in reached : j <= Viewport!Max(reached)
      BY <1>1, <2>2, <3>1, LastOfNumbers
    <3>3. last = Viewport!Greatest(first, Viewport!Max(reached)) BY <1>9, <2>2
    <3>4. Viewport!Max(reached) \in 1..n BY <1>7, <3>2
    <3> DEFINE x == Viewport!Max(reached)
    <3> HIDE DEF x
    <3>5. \A j \in reached : j <= x BY <3>2 DEF x
    <3>6. last = Viewport!Greatest(first, x) /\ x \in 1..n BY <3>3, <3>4 DEF x
    <3> QED BY ONLY <1>1, <1>6, <1>7, <3>5, <3>6 DEF Viewport!Greatest
  <2> QED BY <2>1, <2>2
<1> QED BY <1>4, <1>5, <1>6, <1>8, <1>10 DEF n, total

LEMMA DrawnAreRows ==
  ASSUME NEW R \in Viewport!Outlines, NEW h, Measures(h), NEW m, MetricsOK(m), NEW P
  PROVE  Viewport!Drawn(R, h, m, P) \subseteq 1..Len(R)
<1>1. Len(R) \in Nat /\ DOMAIN R = 1..Len(R) /\ (R = <<>> <=> Len(R) = 0) BY RowsAre
<1>2. 1..Viewport!Least(Len(R), OVERSCAN + 1) \subseteq 1..Len(R)
  BY <1>1, RowsAssumption DEF Viewport!Least
<1>3. R # <<>> => Viewport!Window(R, h, m) \subseteq 1..Len(R)
  <2> SUFFICES ASSUME R # <<>> PROVE Viewport!Window(R, h, m) \subseteq 1..Len(R) OBVIOUS
  <2>1. PICK first \in 1..Len(R), last \in 1..Len(R) :
          Viewport!Window(R, h, m)
            = Viewport!Greatest(1, first - OVERSCAN)..Viewport!Least(Len(R), last + OVERSCAN)
    BY WindowIs
  <2>2. OVERSCAN \in Nat BY RowsAssumption
  <2> QED BY <1>1, <2>1, <2>2 DEF Viewport!Greatest, Viewport!Least
<1>4. R = <<>> => Len(R) <= MIN_ROWS_THRESHOLD BY <1>1, RowsAssumption
<1> QED BY <1>1, <1>2, <1>3, <1>4 DEF Viewport!Drawn

\* Whatever is pinned is drawn.
LEMMA PinnedAreDrawn ==
  ASSUME NEW R \in Viewport!Outlines, NEW h, NEW m, NEW P, NEW id \in P \cap Viewport!ToSet(R)
  PROVE  Viewport!IndexOf(R, id) \in Viewport!Drawn(R, h, m, P) /\ R[Viewport!IndexOf(R, id)] = id
<1>1. Viewport!IndexOf(R, id) \in DOMAIN R /\ R[Viewport!IndexOf(R, id)] = id BY IndexIs, RowsAre
<1> QED BY <1>1 DEF Viewport!Drawn

\* The window has every row that reaches into the view.
LEMMA InViewIsDrawn ==
  ASSUME NEW R \in Viewport!Outlines, NEW h, Measures(h), NEW m, MetricsOK(m), NEW P,
         NEW i \in 1..Len(R),
         Viewport!Offset(R, h, i) < m.top + m.height, Viewport!Offset(R, h, i + 1) > m.top
  PROVE  i \in Viewport!Drawn(R, h, m, P)
<1> DEFINE n == Len(R)
           total == Viewport!TotalHeight(R, h)
           a == Viewport!Offset(R, h, i)
           b == Viewport!Offset(R, h, i + 1)
<1>1. n \in Nat /\ DOMAIN R = 1..n /\ R # <<>> BY RowsAre
<1>2. i \in 1..(n + 1) /\ i + 1 \in 1..(n + 1) BY <1>1
<1>3. total \in Nat /\ a \in Nat /\ b \in Nat /\ a <= total BY <1>2, OffsetsGrow
<1>4. m.top \in Nat /\ m.height \in Nat BY RowsAssumption DEF MetricsOK
<1>5. m.height # 0
  <2>1. m.height = 0 => m.top = 0 BY DEF MetricsOK
  <2> QED BY <1>3, <1>4, <2>1
<1>6. PICK y \in Nat, first \in 1..n, last \in 1..n :
        /\ Viewport!Window(R, h, m)
             = Viewport!Greatest(1, first - OVERSCAN)..Viewport!Least(n, last + OVERSCAN)
        /\ y <= m.top /\ (y < m.top => y + m.height >= total)
        /\ b > y => first <= i
        /\ i \in first..n => (a <= y + m.height => i <= last)
  BY <1>1, WindowIs
<1>7. a < m.top + m.height /\ b > m.top OBVIOUS
<1> HIDE DEF n, total, a, b
<1>8. first <= i BY <1>3, <1>4, <1>6, <1>7
<1>9. i <= last
  <2>1. i \in first..n BY <1>1, <1>8, i \in 1..Len(R) DEF n
  <2>2. a <= y + m.height BY SMTT(40), <1>3, <1>4, <1>6, <1>7
  <2> QED BY <1>6, <2>1, <2>2
<1>10. i \in Viewport!Window(R, h, m)
  <2>1. OVERSCAN \in Nat BY RowsAssumption
  <2>2. i \in 1..n BY DEF n
  <2> QED BY <1>1, <1>6, <1>8, <1>9, <2>1, <2>2 DEF Viewport!Greatest, Viewport!Least
<1> QED BY <1>1, <1>5, <1>10 DEF Viewport!Drawn

\* Where the drawing has come to after each row.
LEMMA CursorIs ==
  ASSUME rows \in Viewport!Outlines, Measures(heights), MetricsOK(metrics)
  PROVE  /\ Viewport!Cursor(1) = 0
         /\ \A i \in 1..(Len(rows) + 1) : Viewport!Cursor(i) \in Int
         /\ \A i \in 1..Len(rows) :
              Viewport!Cursor(i + 1) =
                IF i \in Viewport!entries THEN Viewport!Offset(rows, heights, i + 1)
                ELSE Viewport!Cursor(i)
<1> DEFINE n == Len(rows)
           E(i) == {j \in Viewport!entries : j < i}
<1>1. n \in Nat BY RowsAre
<1>2. \A j \in Viewport!entries : j \in 1..n BY DrawnAreRows DEF Viewport!entries
<1>3. \A i : Viewport!Cursor(i) =
              IF E(i) = {} THEN 0 ELSE Viewport!Offset(rows, heights, Viewport!Max(E(i)) + 1)
  BY DEF Viewport!Cursor
<1>4. \A i : \A j : j \in E(i) <=> j \in Viewport!entries /\ j < i OBVIOUS
<1>5. \A i \in 1..(n + 1) : Viewport!Offset(rows, heights, i) \in Int BY OffsetsAre
<1> HIDE DEF n, E
<1>6. Viewport!Cursor(1) = 0
  <2>1. \A j \in Viewport!entries : ~(j < 1) BY <1>1, <1>2
  <2>2. E(1) = {} BY <1>4, <2>1
  <2> QED BY <1>3, <2>2
<1>7. ASSUME NEW i PROVE E(i) \subseteq 0..n /\ E(i) \subseteq 1..n
  <2>1. \A j \in Viewport!entries : j \in 0..n BY <1>1, <1>2
  <2> QED BY <1>2, <1>4, <2>1
<1>8. ASSUME NEW i \in 1..(n + 1) PROVE Viewport!Cursor(i) \in Int
  <2>1. CASE E(i) = {}
    <3>1. Viewport!Cursor(i) = 0 BY <1>3, <2>1
    <3> QED BY <3>1
  <2>2. CASE E(i) # {}
    <3>1. Viewport!Max(E(i)) \in E(i) BY <1>1, <1>7, <2>2, LastOfNumbers
    <3>2. Viewport!Max(E(i)) \in 1..n BY <1>7, <3>1
    <3>3. Viewport!Max(E(i)) + 1 \in 1..(n + 1) BY <1>1, <3>2
    <3>4. Viewport!Offset(rows, heights, Viewport!Max(E(i)) + 1) \in Int BY <1>5, <3>3
    <3>5. Viewport!Cursor(i) = Viewport!Offset(rows, heights, Viewport!Max(E(i)) + 1)
      BY <1>3, <2>2
    <3> QED BY <3>4, <3>5
  <2> QED BY <2>1, <2>2
<1>9. ASSUME NEW i \in 1..n, i \in Viewport!entries
      PROVE  Viewport!Cursor(i + 1) = Viewport!Offset(rows, heights, i + 1)
  <2>1. i \in E(i + 1)
    <3>1. i < i + 1 BY <1>1
    <3> QED BY <1>4, <1>9, <3>1
  <2>2. Viewport!Max(E(i + 1)) \in E(i + 1) /\ i <= Viewport!Max(E(i + 1))
    <3>1. E(i + 1) # {} BY <2>1
    <3> QED BY <1>1, <1>7, <2>1, <3>1, LastOfNumbers
  <2>3. Viewport!Max(E(i + 1)) < i + 1 BY <1>4, <2>2
  <2>4. Viewport!Max(E(i + 1)) \in 1..n BY <1>7, <2>2
  <2>5. Viewport!Max(E(i + 1)) = i
    <3> DEFINE x == Viewport!Max(E(i + 1))
    <3>1. x \in 1..n /\ x < i + 1 /\ i <= x BY <2>2, <2>3, <2>4
    <3> HIDE DEF x
    <3>2. x = i BY <1>1, <3>1
    <3> QED BY <3>2 DEF x
  <2>6. E(i + 1) # {} BY <2>1
  <2> QED BY <1>3, <2>5, <2>6
<1>10. ASSUME NEW i \in 1..n, i \notin Viewport!entries
       PROVE  Viewport!Cursor(i + 1) = Viewport!Cursor(i)
  <2>1. \A j \in Viewport!entries : j < i + 1 <=> j < i BY <1>1, <1>2, <1>10
  <2>2. E(i + 1) = E(i) BY <1>4, <2>1
  <2> QED BY <1>3, <2>2
<1> QED BY <1>6, <1>8, <1>9, <1>10 DEF n

\* One below the other, gaps and rows come to where the layout has them.
LEMMA PageIsTheLayout ==
  ASSUME rows \in Viewport!Outlines, Measures(heights), MetricsOK(metrics)
  PROVE  Viewport!DrawnInPlace
<1> DEFINE n == Len(rows)
           s == [i \in DOMAIN rows |->
                   IF i \in Viewport!entries
                     THEN Viewport!gapBefore(i) + Viewport!HeightOf(heights, rows[i]) ELSE 0]
           O(i) == Viewport!Offset(rows, heights, i)
           H(i) == Viewport!HeightOf(heights, rows[i])
<1>1. n \in Nat /\ DOMAIN rows = 1..n BY RowsAre
<1>2. \A i \in 1..(n + 1) : Viewport!Cursor(i) \in Int /\ O(i) \in Int BY CursorIs, OffsetsAre
<1>3. \A i \in 1..n : H(i) \in Int /\ O(i + 1) = O(i) + H(i) BY HeightIs, OffsetsAre
<1>4. \A i : Viewport!gapBefore(i) = O(i) - Viewport!Cursor(i) BY DEF Viewport!gapBefore
<1>5. \A i \in 1..n :
        s[i] = IF i \in Viewport!entries THEN (O(i) - Viewport!Cursor(i)) + H(i) ELSE 0
  BY <1>1, <1>4
<1>6. Viewport!Bottoms = Viewport!Sums(s) BY DEF Viewport!Bottoms
<1>7. Viewport!TotalHeight(rows, heights) = O(n + 1)
      /\ Viewport!trailingGap = O(n + 1) - Viewport!Cursor(n + 1)
  BY DEF Viewport!TotalHeight, Viewport!trailingGap
<1>8. Viewport!Cursor(1) = 0 BY CursorIs
<1>9. \A i \in 1..n :
        Viewport!Cursor(i + 1) = IF i \in Viewport!entries THEN O(i + 1) ELSE Viewport!Cursor(i)
  BY CursorIs
<1>10. s = [i \in 1..n |-> s[i]] BY <1>1
<1>11. Viewport!entries \subseteq 1..n BY DrawnAreRows DEF Viewport!entries
<1> HIDE DEF n, s, O, H
<1>12. \A i \in 1..n : i \in 1..(n + 1) /\ i + 1 \in 1..(n + 1) BY <1>1
<1>13. \A i \in 1..n : s[i] \in Int BY <1>2, <1>3, <1>5, <1>12
<1>14. s \in [1..n -> Int] BY <1>10, <1>13
<1>15. /\ Viewport!Sums(s)[0] = 0
       /\ \A j \in 1..n : Viewport!Sums(s)[j] = Viewport!Sums(s)[j - 1] + s[j]
  BY <1>1, <1>14, SumsAre
<1> DEFINE T == {j \in 0..n : Viewport!Sums(s)[j] = Viewport!Cursor(j + 1)}
<1>16. 0 \in T
  <2>1. 0 + 1 = 1 OBVIOUS
  <2> QED BY <1>1, <1>8, <1>15, <2>1
<1>17. ASSUME NEW i \in 1..n, i - 1 \in T PROVE i \in T
  <2>1. (i - 1) + 1 = i BY <1>1
  <2>2. Viewport!Sums(s)[i] = Viewport!Cursor(i) + s[i] BY <1>15, <1>17, <2>1
  <2>3. Viewport!Cursor(i) \in Int /\ O(i) \in Int /\ H(i) \in Int /\ O(i + 1) = O(i) + H(i)
    BY <1>2, <1>3, <1>12
  <2>4. Viewport!Cursor(i + 1) = IF i \in Viewport!entries THEN O(i + 1) ELSE Viewport!Cursor(i)
    BY <1>9
  <2>5. s[i] = IF i \in Viewport!entries THEN (O(i) - Viewport!Cursor(i)) + H(i) ELSE 0 BY <1>5
  <2>6. Viewport!Sums(s)[i] = Viewport!Cursor(i + 1) BY ONLY <2>2, <2>3, <2>4, <2>5
  <2> QED BY <1>1, <2>6
<1>18. 0..n \subseteq T
  <2> HIDE DEF T
  <2> QED BY <1>1, <1>16, <1>17, CountingUp
<1>19. \A i \in Viewport!entries : Viewport!Bottoms[i - 1] + Viewport!gapBefore(i) = O(i)
  <2> SUFFICES ASSUME NEW i \in 1..n
        PROVE  Viewport!Sums(s)[i - 1] + (O(i) - Viewport!Cursor(i)) = O(i)
    BY <1>4, <1>6, <1>11
  <2>1. i - 1 \in 0..n /\ (i - 1) + 1 = i BY <1>1
  <2>2. Viewport!Sums(s)[i - 1] = Viewport!Cursor(i) BY <1>18, <2>1
  <2>3. Viewport!Cursor(i) \in Int /\ O(i) \in Int BY <1>2, <1>12
  <2> QED BY ONLY <2>2, <2>3
<1>20. Viewport!Bottoms[n] + Viewport!trailingGap = Viewport!TotalHeight(rows, heights)
  <2>1. n \in 0..n /\ n + 1 \in 1..(n + 1) BY <1>1
  <2>2. Viewport!Sums(s)[n] = Viewport!Cursor(n + 1) BY <1>18, <2>1
  <2>3. Viewport!Cursor(n + 1) \in Int /\ O(n + 1) \in Int BY <1>2, <2>1
  <2>4. Viewport!Sums(s)[n] + (O(n + 1) - Viewport!Cursor(n + 1)) = O(n + 1) BY ONLY <2>2, <2>3
  <2> QED BY <1>6, <1>7, <2>4
<1> QED BY <1>19, <1>20 DEF Viewport!DrawnInPlace, n, O

-----------------------------------------------------------------------------
(* Every step keeps the invariant.                                         *)

LEMMA WhatThereIs ==
  ASSUME ViewportInv
  PROVE  /\ rows \in Viewport!Outlines /\ Measures(heights) /\ MetricsOK(metrics)
         /\ metrics = [top |-> metrics.top, height |-> metrics.height]
         /\ metrics.top \in Nat /\ metrics.height \in {0, ViewportHeight}
         /\ ViewportHeight \in Nat \ {0} /\ top \in Nat
         /\ place \in PlaceRecord \cup {None} /\ pendingAnchor \in PlaceRecord \cup {None}
<1>1. ViewportTypeOK /\ NothingIsSeenBefore BY DEF ViewportInv
<1>2. metrics \in [top : Nat, height : {0, ViewportHeight}] BY <1>1 DEF ViewportTypeOK
<1>3. metrics.height = 0 => metrics.top = 0 BY <1>1 DEF NothingIsSeenBefore
<1>4. metrics = [top |-> metrics.top, height |-> metrics.height] BY <1>2
<1> QED BY <1>1, <1>2, <1>3, <1>4, RowsAssumption DEF ViewportTypeOK, MetricsOK

\* What is kept before a change is the place that is read.
LEMMA PreservedIs ==
  ASSUME ViewportInv
  PROVE  /\ Viewport!Preserved \in PlaceRecord \cup {None}
         /\ place # None => Viewport!Preserved = place
         /\ metrics.height = 0 /\ view = "away" => Viewport!Preserved = None
<1>1. scrollAnchor = place /\ (place # None => pendingAnchor \in {None, place})
  BY DEF ViewportInv, AnchorsAreThePlace
<1>2. rows \in Viewport!Outlines /\ Measures(heights) /\ metrics.top \in Int
      /\ place \in PlaceRecord \cup {None} /\ pendingAnchor \in PlaceRecord \cup {None}
  BY WhatThereIs
<1>3. Viewport!PlaceAt(rows, heights, metrics.top) \in PlaceRecord \cup {None}
  BY <1>2, PlaceIsAPlace
<1>4. metrics.height = 0 /\ view = "away" =>
        /\ place = None /\ pendingAnchor = None
        /\ Viewport!PlaceAt(rows, heights, metrics.top) = None
  BY DEF ViewportInv, NothingIsSeenBefore, Viewport!PlaceAt
<1> QED BY <1>1, <1>2, <1>3, <1>4 DEF Viewport!Preserved

AnchorsKept ==
  /\ {scrollAnchor', pendingAnchor', place'} \subseteq PlaceRecord \cup {None}
  /\ AnchorsAreThePlace' /\ PlaceIsWhereItWas'

\* A view that has come to m, and reads the place that is there.
LEMMA ObserveKeeps ==
  ASSUME ViewportInv, NEW y \in Nat, y <= Viewport!MaxTop(rows, heights), NEW p,
         Viewport!Observe(rows, heights, [top |-> y, height |-> ViewportHeight], p),
         p = pendingAnchor \/
           (p = None /\ (place # None /\ ~strayed =>
              y = Viewport!Clamped(rows, heights, Position(rows, heights, place)))),
         UNCHANGED <<rows, heights>>,
         IF metrics' = metrics THEN UNCHANGED <<place, strayed>>
         ELSE Viewport!Arrive(rows, heights, y)
  PROVE  AnchorsKept /\ metrics' = [top |-> y, height |-> ViewportHeight]
<1> DEFINE m == [top |-> y, height |-> ViewportHeight]
<1>1. rows \in Viewport!Outlines /\ Measures(heights) /\ metrics.top \in Nat
      /\ metrics = [top |-> metrics.top, height |-> metrics.height]
      /\ metrics.height \in {0, ViewportHeight} /\ place \in PlaceRecord \cup {None}
      /\ pendingAnchor \in PlaceRecord \cup {None}
  BY WhatThereIs
<1>2. AnchorsAreThePlace /\ PlaceIsWhereItWas /\ NothingIsSeenBefore BY DEF ViewportInv
<1>3. metrics' = m BY DEF Viewport!Observe
<1>4. p = pendingAnchor \/ p = None OBVIOUS
<1>5. scrollAnchor = place /\ (place # None => pendingAnchor \in {None, place})
      /\ (place # None /\ ~strayed => place.id \in Viewport!ToSet(rows))
  BY <1>2 DEF AnchorsAreThePlace
<1>6. CASE m = metrics
  <2>1. pendingAnchor' = p /\ scrollAnchor' = scrollAnchor BY <1>6 DEF Viewport!Observe
  <2>2. place' = place /\ strayed' = strayed BY <1>3, <1>6
  <2>3. metrics.top = y /\ metrics' = metrics BY <1>3, <1>6
  <2>4. place # None /\ ~strayed /\ p = None =>
          metrics.top = Viewport!Clamped(rows, heights, Position(rows, heights, place))
    <3>1. p = pendingAnchor =>
            (place # None /\ ~strayed /\ p = None =>
               metrics.top = Viewport!Clamped(rows, heights, Position(rows, heights, place)))
      BY <1>2 DEF PlaceIsWhereItWas
    <3> QED BY <2>3, <3>1
  <2>5. AnchorsAreThePlace' BY <1>4, <1>5, <2>1, <2>2 DEF AnchorsAreThePlace
  <2>6. PlaceIsWhereItWas' BY <2>1, <2>2, <2>3, <2>4 DEF PlaceIsWhereItWas
  <2> QED BY <1>1, <1>3, <1>4, <1>5, <2>1, <2>2, <2>5, <2>6 DEF AnchorsKept
<1>7. CASE m # metrics
  <2>1. pendingAnchor' = IF m.top # metrics.top THEN None ELSE p BY <1>7 DEF Viewport!Observe
  <2>2. scrollAnchor' = IF pendingAnchor' = None THEN Viewport!PlaceAt(rows, heights, m.top)
                        ELSE scrollAnchor
    BY <1>7 DEF Viewport!Observe
  <2>3. m.top = y OBVIOUS
  <2>4. pendingAnchor' = None
    <3>1. CASE m.top # metrics.top BY <2>1, <3>1
    <3>2. CASE m.top = metrics.top
      <4>1. metrics.height # ViewportHeight BY <1>1, <1>7, <2>3, <3>2
      <4>2. metrics.height = 0 BY <1>1, <4>1
      <4>3. pendingAnchor = None BY <1>2, <4>2 DEF NothingIsSeenBefore
      <4> QED BY <1>4, <2>1, <3>2, <4>3
    <3> QED BY <3>1, <3>2
  <2>5. scrollAnchor' = Viewport!PlaceAt(rows, heights, y) BY <2>2, <2>3, <2>4
  <2>6. place' = Viewport!PlaceAt(rows, heights, y) /\ strayed' = FALSE
    BY <1>3, <1>7 DEF Viewport!Arrive
  <2>7. Viewport!PlaceAt(rows, heights, y) \in PlaceRecord \cup {None} BY <1>1, PlaceIsAPlace
  <2>8. place' # None =>
          /\ place'.id \in Viewport!ToSet(rows)
          /\ Viewport!Clamped(rows, heights, Position(rows, heights, place')) = y
    BY <1>1, <2>6, PlaceIsThere
  <2>9. AnchorsAreThePlace' BY <2>4, <2>5, <2>6, <2>8 DEF AnchorsAreThePlace
  <2>10. PlaceIsWhereItWas' BY <1>3, <2>8 DEF PlaceIsWhereItWas
  <2> QED BY <1>3, <2>4, <2>5, <2>6, <2>7, <2>9, <2>10 DEF AnchorsKept
<1> QED BY <1>6, <1>7

LEMMA FocusKept ==
  ASSUME ViewportInv,
         UNCHANGED <<view, rows, owner, focusedIds, composingIds, pinned, focus>>
  PROVE  /\ owner' \cup focusedIds' \cup composingIds' \cup pinned' \subseteq RowIds
         /\ focus' \in RowIds \cup {None} /\ FocusIsPinned'
BY DEF ViewportInv, ViewportTypeOK, FocusIsPinned

\* Whoever has come to another place, there in the layout.
LEMMA ArrivalKeeps ==
  ASSUME ViewportInv, AnchorsKept, UNCHANGED <<rows, heights>>, view' = "connected",
         frame' \in BOOLEAN, strayed' \in BOOLEAN,
         metrics' = [top |-> top', height |-> ViewportHeight],
         top' \in Nat, top' <= Viewport!MaxTop(rows, heights),
         owner' \cup focusedIds' \cup composingIds' \cup pinned' \subseteq RowIds,
         focus' \in RowIds \cup {None}, FocusIsPinned'
  PROVE  ViewportInv'
<1>1. ViewportHeight # 0 BY RowsAssumption
<1>2. ViewportTypeOK' BY DEF ViewportInv, ViewportTypeOK, AnchorsKept
<1>3. NothingIsSeenBefore' BY <1>1 DEF NothingIsSeenBefore
<1>4. PositionIsKnown' BY DEF PositionIsKnown
<1> QED BY <1>2, <1>3, <1>4 DEF ViewportInv, AnchorsKept

LEMMA ScrollKeeps ==
  ASSUME ViewportInv, Viewport!Scroll
  PROVE  ViewportInv'
<1>1. rows \in Viewport!Outlines /\ Measures(heights) BY WhatThereIs
<1>2. Viewport!MaxTop(rows, heights) \in Nat BY <1>1, ClampedIs
<1>3. top' \in Nat /\ top' <= Viewport!MaxTop(rows, heights) /\ top' # metrics.top
  BY <1>2 DEF Viewport!Scroll
<1>4. Viewport!Observe(rows, heights, [top |-> top', height |-> ViewportHeight], pendingAnchor)
      /\ Viewport!Arrive(rows, heights, top') /\ UNCHANGED <<rows, heights>>
  BY DEF Viewport!Scroll
<1>5. metrics' # metrics BY <1>3, <1>4 DEF Viewport!Observe
<1>6. AnchorsKept /\ metrics' = [top |-> top', height |-> ViewportHeight]
  BY <1>3, <1>4, <1>5, ObserveKeeps
<1>7. strayed' \in BOOLEAN BY <1>4 DEF Viewport!Arrive
<1>8. view' = "connected" /\ frame' = frame /\ frame \in BOOLEAN
  BY DEF Viewport!Scroll, Viewport!Connected, ViewportInv, ViewportTypeOK
<1>9. UNCHANGED <<view, rows, owner, focusedIds, composingIds, pinned, focus>>
  BY DEF Viewport!Scroll
<1> QED BY <1>3, <1>4, <1>6, <1>7, <1>8, <1>9, FocusKept, ArrivalKeeps

LEMMA ScrollEventKeeps ==
  ASSUME ViewportInv, Viewport!ScrollEvent
  PROVE  ViewportInv'
<1>1. view = "connected" /\ view' = view /\ top' = top
  BY DEF Viewport!ScrollEvent, Viewport!Connected
<1>2. top' \in Nat /\ top' <= Viewport!MaxTop(rows, heights) /\ top' # metrics.top
  BY <1>1, WhatThereIs DEF ViewportInv, PositionIsKnown, Viewport!ScrollEvent
<1>3. Viewport!Observe(rows, heights, [top |-> top', height |-> ViewportHeight], pendingAnchor)
      /\ Viewport!Arrive(rows, heights, top') /\ UNCHANGED <<rows, heights>>
  BY <1>1 DEF Viewport!ScrollEvent, Viewport!Shows
<1>4. metrics' # metrics BY <1>2, <1>3 DEF Viewport!Observe
<1>5. AnchorsKept /\ metrics' = [top |-> top', height |-> ViewportHeight]
  BY <1>2, <1>3, <1>4, ObserveKeeps
<1>6. strayed' \in BOOLEAN BY <1>3 DEF Viewport!Arrive
<1>7. frame' = frame /\ frame \in BOOLEAN BY DEF Viewport!ScrollEvent, ViewportInv, ViewportTypeOK
<1>8. UNCHANGED <<view, rows, owner, focusedIds, composingIds, pinned, focus>>
  BY DEF Viewport!ScrollEvent
<1> QED BY <1>1, <1>2, <1>3, <1>5, <1>6, <1>7, <1>8, FocusKept, ArrivalKeeps

LEMMA ConnectKeeps ==
  ASSUME ViewportInv, Viewport!Connect
  PROVE  ViewportInv'
<1>1. view = "mounted" /\ view' = "connected" /\ top' = top /\ frame' = frame
      /\ UNCHANGED <<rows, heights, owner, focusedIds, composingIds, pinned, focus>>
  BY DEF Viewport!Connect
<1>2. top' = 0 BY <1>1 DEF ViewportInv, PositionIsKnown
<1>3. rows \in Viewport!Outlines /\ Measures(heights) BY WhatThereIs
<1>4. 0 <= Viewport!MaxTop(rows, heights) BY <1>3, ClampedIs
<1>5. Viewport!Observe(rows, heights, [top |-> 0, height |-> ViewportHeight], pendingAnchor)
  BY <1>1, <1>2 DEF Viewport!Connect, Viewport!Shows
<1>6. IF metrics' = metrics THEN UNCHANGED <<place, strayed>>
      ELSE Viewport!Arrive(rows, heights, 0)
  BY DEF Viewport!Connect
<1>7. AnchorsKept /\ metrics' = [top |-> 0, height |-> ViewportHeight]
  BY <1>1, <1>4, <1>5, <1>6, ObserveKeeps
<1>8. frame \in BOOLEAN /\ strayed \in BOOLEAN BY DEF ViewportInv, ViewportTypeOK
<1>9. strayed' \in BOOLEAN BY <1>6, <1>8 DEF Viewport!Arrive
<1>10. /\ owner' \cup focusedIds' \cup composingIds' \cup pinned' \subseteq RowIds
       /\ focus' \in RowIds \cup {None} /\ FocusIsPinned'
  BY <1>1 DEF ViewportInv, ViewportTypeOK, FocusIsPinned
<1> QED BY <1>1, <1>2, <1>4, <1>7, <1>8, <1>9, <1>10, ArrivalKeeps

LEMMA LeaveKeeps ==
  ASSUME ViewportInv, Viewport!Leave
  PROVE  ViewportInv'
<1>1. view = "connected" /\ view' = "away" BY DEF Viewport!Leave, Viewport!Connected
<1>2. /\ UNCHANGED <<rows, heights, metrics, scrollAnchor, pendingAnchor, top, place, strayed>>
      /\ frame' = FALSE /\ focus' = None
  BY DEF Viewport!Leave
<1>3. owner' = {} /\ focusedIds' = {} /\ composingIds' = {} /\ pinned' = {}
  BY DEF Viewport!Leave, Viewport!Publish
<1>4. metrics.height # 0 BY <1>1 DEF ViewportInv, NothingIsSeenBefore
<1>5. ViewportTypeOK' BY <1>1, <1>2, <1>3 DEF ViewportInv, ViewportTypeOK
<1>6. FocusIsPinned' BY <1>2, <1>3 DEF FocusIsPinned
<1>7. NothingIsSeenBefore' BY <1>2, <1>4 DEF NothingIsSeenBefore
<1>8. AnchorsAreThePlace' BY <1>2 DEF ViewportInv, AnchorsAreThePlace
<1>9. PositionIsKnown' BY <1>1 DEF PositionIsKnown, Viewport!Connected
<1>10. PlaceIsWhereItWas' BY <1>2 DEF ViewportInv, PlaceIsWhereItWas
<1> QED BY <1>5, <1>6, <1>7, <1>8, <1>9, <1>10 DEF ViewportInv

\* The correction that is due goes to the place that is read.
LEMMA AdjustmentIs ==
  ASSUME ViewportInv
  PROVE  /\ Viewport!anchorAdjustment \in Int
         /\ Viewport!Connected /\ place # None /\ ~strayed /\ pendingAnchor # None =>
              top + Viewport!anchorAdjustment = Position(rows, heights, place)
         /\ pendingAnchor = None => Viewport!anchorAdjustment = 0
<1> DEFINE q == pendingAnchor
           i == IF q.id \in Viewport!ToSet(rows) THEN Viewport!IndexOf(rows, q.id)
                ELSE Viewport!Least(q.index, Len(rows))
           a == Viewport!Offset(rows, heights, i)
           b == Viewport!HeightOf(heights, rows[i])
<1>1. rows \in Viewport!Outlines /\ Measures(heights) /\ metrics.top \in Nat
      /\ q \in PlaceRecord \cup {None} /\ place \in PlaceRecord \cup {None}
  BY WhatThereIs
<1>2. AnchorsAreThePlace /\ PositionIsKnown BY DEF ViewportInv
<1>3. Len(rows) \in Nat /\ (rows = <<>> <=> Len(rows) = 0) /\ DOMAIN rows = 1..Len(rows)
  BY <1>1, RowsAre
<1>4. q # None /\ rows # <<>> =>
        /\ Viewport!anchorAdjustment = a + (Viewport!Least(q.offset, b) - metrics.top)
        /\ a \in Int /\ b \in Nat /\ q.offset \in Int
  <2> SUFFICES
        ASSUME q # None, rows # <<>>
        PROVE  /\ Viewport!anchorAdjustment = a + (Viewport!Least(q.offset, b) - metrics.top)
               /\ a \in Int /\ b \in Nat /\ q.offset \in Int
    OBVIOUS
  <2>1. q.index \in Nat \ {0} /\ q.offset \in Int BY <1>1 DEF PlaceRecord
  <2>2. i \in 1..Len(rows)
    <3>1. CASE q.id \in Viewport!ToSet(rows)
      <4>1. Viewport!IndexOf(rows, q.id) \in 1..Len(rows) BY <1>1, <3>1, IndexIs
      <4> QED BY <3>1, <4>1
    <3>2. CASE q.id \notin Viewport!ToSet(rows)
      <4>1. i = Viewport!Least(q.index, Len(rows)) BY <3>2
      <4> HIDE DEF i, q
      <4> QED BY <1>3, <2>1, <4>1 DEF Viewport!Least
    <3> QED BY <3>1, <3>2
  <2>3. Viewport!anchorAdjustment = a + (Viewport!Least(q.offset, b) - metrics.top)
    BY DEF Viewport!anchorAdjustment
  <2> HIDE DEF i
  <2>4. i \in 1..(Len(rows) + 1) BY <1>3, <2>2
  <2>5. a \in Int BY <1>1, <2>4, OffsetsAre
  <2>6. b \in Nat BY <1>1, HeightIs
  <2> QED BY <2>1, <2>3, <2>5, <2>6
<1>5. Viewport!anchorAdjustment \in Int
  <2>1. CASE q = None BY <2>1 DEF Viewport!anchorAdjustment
  <2>2. CASE q # None /\ rows = <<>>
    <3>1. Viewport!anchorAdjustment = -metrics.top BY <2>2 DEF Viewport!anchorAdjustment
    <3> QED BY <1>1, <3>1
  <2>3. CASE q # None /\ rows # <<>>
    <3> HIDE DEF q, i, a, b
    <3> QED BY <1>1, <1>4, <2>3 DEF Viewport!Least
  <2> QED BY <2>1, <2>2, <2>3
<1>6. ASSUME Viewport!Connected, place # None, ~strayed, q # None
      PROVE  top + Viewport!anchorAdjustment = Position(rows, heights, place)
  <2>1. q = place /\ place.id \in Viewport!ToSet(rows) BY <1>2, <1>6 DEF AnchorsAreThePlace
  <2>2. top = metrics.top BY <1>2, <1>6 DEF PositionIsKnown
  <2>3. rows # <<>> BY <1>1, <1>3, <2>1, IndexIs
  <2>4. Position(rows, heights, place) = a + Viewport!Least(q.offset, b) BY <2>1 DEF Position
  <2> HIDE DEF q, i, a, b
  <2> DEFINE d == Viewport!Least(q.offset, b)
  <2>5. a \in Int /\ d \in Int BY <1>4, <1>6, <2>3 DEF Viewport!Least
  <2>6. Viewport!anchorAdjustment = a + (d - metrics.top) BY <1>4, <1>6, <2>3
  <2>7. Position(rows, heights, place) = a + d BY <2>4
  <2> HIDE DEF d
  <2> QED BY <1>1, <2>2, <2>5, <2>6, <2>7
<1>7. q = None => Viewport!anchorAdjustment = 0 BY DEF Viewport!anchorAdjustment
<1> QED BY <1>5, <1>6, <1>7

\* The frame that corrects the position goes to the place that is read.
LEMMA FrameGoesThere ==
  ASSUME ViewportInv, Viewport!Frame, place # None, ~strayed
  PROVE  top' = Viewport!Clamped(rows, heights, Position(rows, heights, place))
<1>1. Viewport!Connected BY DEF Viewport!Frame
<1>2. rows \in Viewport!Outlines /\ Measures(heights) /\ top \in Nat BY WhatThereIs
<1>3. top = metrics.top /\ top <= Viewport!MaxTop(rows, heights)
  BY <1>1 DEF ViewportInv, PositionIsKnown, Viewport!Connected
<1>4. CASE Viewport!anchorAdjustment # 0
  <2>1. pendingAnchor # None BY <1>4, AdjustmentIs
  <2>2. top + Viewport!anchorAdjustment = Position(rows, heights, place)
    BY <1>1, <2>1, AdjustmentIs
  <2>3. top' = Viewport!Clamped(rows, heights, top + Viewport!anchorAdjustment)
    BY <1>4 DEF Viewport!Frame
  <2> QED BY <2>2, <2>3
<1>5. CASE Viewport!anchorAdjustment = 0
  <2>1. top' = top BY <1>5 DEF Viewport!Frame
  <2>2. CASE pendingAnchor = None
    BY <1>3, <2>1, <2>2 DEF ViewportInv, PlaceIsWhereItWas
  <2>3. CASE pendingAnchor # None
    <3>1. top + Viewport!anchorAdjustment = Position(rows, heights, place)
      BY <1>1, <2>3, AdjustmentIs
    <3>2. Position(rows, heights, place) = top BY <1>2, <1>5, <3>1
    <3>3. Viewport!Clamped(rows, heights, top) = top BY <1>2, <1>3, ClampedIs
    <3> QED BY <2>1, <3>2, <3>3
  <2> QED BY <2>2, <2>3
<1> QED BY <1>4, <1>5

LEMMA FrameKeeps ==
  ASSUME ViewportInv, Viewport!Frame
  PROVE  ViewportInv'
<1>1. Viewport!Connected /\ view' = "connected" /\ view' = view /\ frame' = FALSE
      /\ UNCHANGED <<view, rows, heights, owner, focusedIds, composingIds, pinned, focus>>
  BY DEF Viewport!Frame, Viewport!Connected
<1>2. rows \in Viewport!Outlines /\ Measures(heights) /\ top \in Nat
      /\ metrics = [top |-> metrics.top, height |-> metrics.height]
      /\ place \in PlaceRecord \cup {None} /\ pendingAnchor \in PlaceRecord \cup {None}
  BY WhatThereIs
<1>3. IF metrics' = metrics THEN UNCHANGED <<place, strayed>>
      ELSE Viewport!Arrive(rows, heights, top')
  BY DEF Viewport!Frame
<1>4. strayed \in BOOLEAN BY DEF ViewportInv, ViewportTypeOK
<1>5. strayed' \in BOOLEAN BY <1>3, <1>4 DEF Viewport!Arrive
<1>6. place # None /\ ~strayed =>
        top' = Viewport!Clamped(rows, heights, Position(rows, heights, place))
  BY FrameGoesThere
<1>7. /\ owner' \cup focusedIds' \cup composingIds' \cup pinned' \subseteq RowIds
      /\ focus' \in RowIds \cup {None} /\ FocusIsPinned'
  BY <1>1, FocusKept
<1>8. CASE Viewport!anchorAdjustment # 0
  <2>1. top' = Viewport!Clamped(rows, heights, top + Viewport!anchorAdjustment)
        /\ Viewport!Observe(rows, heights, [top |-> top', height |-> ViewportHeight], None)
    BY <1>8 DEF Viewport!Frame
  <2>2. Viewport!anchorAdjustment \in Int BY AdjustmentIs
  <2>3. top + Viewport!anchorAdjustment \in Int BY <1>2, <2>2
  <2>4. top' \in Nat /\ top' <= Viewport!MaxTop(rows, heights) BY <1>2, <2>1, <2>3, ClampedIs
  <2>5. AnchorsKept /\ metrics' = [top |-> top', height |-> ViewportHeight]
    BY <1>1, <1>3, <1>6, <2>1, <2>4, ObserveKeeps
  <2> QED BY <1>1, <1>5, <1>7, <2>4, <2>5, ArrivalKeeps
<1>9. CASE Viewport!anchorAdjustment = 0
  <2>1. pendingAnchor' = None /\ UNCHANGED <<metrics, scrollAnchor, top>>
    BY <1>9 DEF Viewport!Frame
  <2>2. UNCHANGED <<place, strayed>> BY <1>3, <2>1
  <2>3. AnchorsAreThePlace' BY <1>1, <2>1, <2>2 DEF ViewportInv, AnchorsAreThePlace
  <2>4. Viewport!Connected /\ ~strayed => top = metrics.top BY DEF ViewportInv, PositionIsKnown
  <2>5. PlaceIsWhereItWas' BY <1>1, <1>6, <2>1, <2>2, <2>4 DEF PlaceIsWhereItWas
  <2>6. ViewportTypeOK' BY <1>1, <1>4, <1>7, <2>1, <2>2 DEF ViewportInv, ViewportTypeOK
  <2>7. NothingIsSeenBefore'
    BY <1>1, <2>1, <2>2 DEF ViewportInv, NothingIsSeenBefore, Viewport!Connected
  <2>8. PositionIsKnown' BY <1>1, <2>1, <2>2 DEF ViewportInv, PositionIsKnown, Viewport!Connected
  <2> QED BY <1>7, <2>3, <2>5, <2>6, <2>7, <2>8 DEF ViewportInv
<1> QED BY <1>8, <1>9

\* Other rows, or other heights: the place that is read is kept, wherever that is now.
LEMMA RelayoutKeeps ==
  ASSUME ViewportInv, rows' \in Viewport!Outlines, Measures(heights'),
         UNCHANGED <<metrics, scrollAnchor, place>>,
         \/ pendingAnchor' = Viewport!Preserved
         \/ /\ pendingAnchor' = pendingAnchor /\ rows' = rows
            /\ \A id \in Viewport!ToSet(rows) :
                 Viewport!HeightOf(heights', id) = Viewport!HeightOf(heights, id),
         ~strayed' => ~strayed /\ (place # None => place.id \in Viewport!ToSet(rows'))
  PROVE  AnchorsKept
<1>1. rows \in Viewport!Outlines /\ place \in PlaceRecord \cup {None}
      /\ pendingAnchor \in PlaceRecord \cup {None}
  BY WhatThereIs
<1>2. AnchorsAreThePlace /\ PlaceIsWhereItWas BY DEF ViewportInv
<1>3. scrollAnchor = place /\ (place # None => pendingAnchor \in {None, place})
      /\ (place # None /\ ~strayed => place.id \in Viewport!ToSet(rows))
  BY <1>2 DEF AnchorsAreThePlace
<1>4. scrollAnchor' = scrollAnchor /\ place' = place /\ metrics' = metrics OBVIOUS
<1>5. CASE pendingAnchor' = Viewport!Preserved
  <2>1. /\ Viewport!Preserved \in PlaceRecord \cup {None}
        /\ place # None => Viewport!Preserved = place
    BY PreservedIs
  <2>2. AnchorsAreThePlace' BY <1>3, <1>4, <1>5, <2>1 DEF AnchorsAreThePlace
  <2>3. PlaceIsWhereItWas' BY <1>4, <1>5, <2>1 DEF PlaceIsWhereItWas
  <2> QED BY <1>1, <1>3, <1>4, <1>5, <2>1, <2>2, <2>3 DEF AnchorsKept
<1>6. CASE /\ pendingAnchor' = pendingAnchor /\ rows' = rows
           /\ \A id \in Viewport!ToSet(rows) :
                Viewport!HeightOf(heights', id) = Viewport!HeightOf(heights, id)
  <2>1. \A id \in Viewport!ToSet(rows) :
          Viewport!HeightOf(heights', id) = Viewport!HeightOf(heights, id)
    BY <1>6
  <2>2. /\ \A i : Viewport!Offset(rows, heights', i) = Viewport!Offset(rows, heights, i)
        /\ \A y : Viewport!Clamped(rows, heights', y) = Viewport!Clamped(rows, heights, y)
    BY <1>1, <2>1, LayoutIsOfItsRows
  <2>3. ASSUME place # None, ~strayed
        PROVE  Position(rows, heights', place) = Position(rows, heights, place)
    <3>1. rows[Viewport!IndexOf(rows, place.id)] \in Viewport!ToSet(rows)
      BY <1>1, <1>3, <2>3, IndexIs
    <3> QED BY <2>1, <2>2, <3>1 DEF Position
  <2>4. AnchorsAreThePlace' BY <1>3, <1>4, <1>6 DEF AnchorsAreThePlace
  <2>5. PlaceIsWhereItWas'
    BY <1>2, <1>4, <1>6, <2>2, <2>3 DEF PlaceIsWhereItWas
  <2> QED BY <1>1, <1>3, <1>4, <1>6, <2>4, <2>5 DEF AnchorsKept
<1> QED BY <1>5, <1>6

\* What has become of the rows, the anchor and what is pinned.
RowsAreSet ==
  /\ rows' \in Viewport!Outlines /\ Measures(heights') /\ UNCHANGED <<metrics, scrollAnchor>>
  /\ \/ pendingAnchor' = Viewport!Preserved
     \/ /\ pendingAnchor' = pendingAnchor /\ rows' = rows
        /\ \A id \in Viewport!ToSet(rows) :
             Viewport!HeightOf(heights', id) = Viewport!HeightOf(heights, id)
  /\ owner' \cup focusedIds' \cup composingIds' \cup pinned' \subseteq RowIds
  /\ owner' \cup focusedIds' \cup composingIds' \subseteq pinned'
  /\ focusedIds \cap Viewport!ToSet(rows') \subseteq focusedIds'

LEMMA SettingRows ==
  ASSUME ViewportInv, NEW R \in Viewport!Outlines,
         NEW id \in RowIds \cup {None}, Viewport!SetRows(R, id)
  PROVE  RowsAreSet
<1> DEFINE S == Viewport!ToSet(R)
           h == [x \in DOMAIN heights \cap S |-> heights[x]]
           gone == (focusedIds \cup composingIds) \ S
<1>1. rows' = R /\ heights' = h /\ UNCHANGED <<metrics, scrollAnchor>>
      /\ pendingAnchor' = IF R = rows THEN pendingAnchor ELSE Viewport!Preserved
  BY DEF Viewport!SetRows
<1>2. Measures(heights) BY WhatThereIs
<1>3. Measures(heights') BY <1>1, <1>2 DEF Measures
<1>4. \A x \in S : Viewport!HeightOf(heights', x) = Viewport!HeightOf(heights, x)
  BY <1>1 DEF Viewport!HeightOf
<1>5. \/ pendingAnchor' = Viewport!Preserved
      \/ /\ pendingAnchor' = pendingAnchor /\ rows' = rows
         /\ \A x \in Viewport!ToSet(rows) :
              Viewport!HeightOf(heights', x) = Viewport!HeightOf(heights, x)
  <2>1. CASE R = rows BY <1>1, <1>4, <2>1
  <2>2. CASE R # rows BY <1>1, <2>2
  <2> QED BY <2>1, <2>2
<1>6. owner \cup focusedIds \cup composingIds \cup pinned \subseteq RowIds
      /\ owner \cup focusedIds \cup composingIds \subseteq pinned
  BY DEF ViewportInv, ViewportTypeOK, FocusIsPinned
<1>7. {id} \ {None} \subseteq RowIds OBVIOUS
<1>8. focusedIds' = focusedIds \ gone /\ composingIds' = composingIds \ gone
      /\ \/ owner' = owner /\ pinned' = pinned
         \/ owner' = {id} \ {None} /\ pinned' = owner' \cup focusedIds' \cup composingIds'
  BY DEF Viewport!SetRows, Viewport!Publish
<1>9. focusedIds \cap S \subseteq focusedIds' BY <1>8
<1>10. focusedIds' \subseteq focusedIds /\ composingIds' \subseteq composingIds BY <1>8
<1>11. owner' \cup focusedIds' \cup composingIds' \cup pinned' \subseteq RowIds
      /\ owner' \cup focusedIds' \cup composingIds' \subseteq pinned'
  <2> HIDE DEF gone
  <2>1. CASE owner' = owner /\ pinned' = pinned BY <1>6, <1>10, <2>1
  <2>2. CASE owner' = {id} \ {None} /\ pinned' = owner' \cup focusedIds' \cup composingIds'
    BY <1>6, <1>7, <1>10, <2>2
  <2> QED BY <1>8, <2>1, <2>2
<1> QED BY <1>1, <1>3, <1>5, <1>9, <1>11 DEF RowsAreSet

LEMMA RefreshKeeps ==
  ASSUME ViewportInv, Viewport!RefreshProjection
  PROVE  ViewportInv'
<1>1. RowsAreSet BY SettingRows DEF Viewport!RefreshProjection
<1>2. view = "connected" /\ view' = view /\ frame' = TRUE /\ place' = place
      /\ top' = Viewport!Clamped(rows', heights', top)
      /\ strayed' =
           (strayed \/ top' # top \/ (place # None /\ place.id \notin Viewport!ToSet(rows')))
      /\ focus' = (IF focus \in Viewport!ToSet(rows') THEN focus ELSE None)
  BY DEF Viewport!RefreshProjection, Viewport!Connected, Viewport!Relayout
<1>3. rows' \in Viewport!Outlines /\ Measures(heights') /\ metrics' = metrics
  BY <1>1 DEF RowsAreSet
<1>4. top \in Nat BY WhatThereIs
<1>5. top' \in Nat /\ top' <= Viewport!MaxTop(rows', heights') BY <1>2, <1>3, <1>4, ClampedIs
<1>6. strayed \in BOOLEAN BY DEF ViewportInv, ViewportTypeOK
<1>7. strayed' \in BOOLEAN
      /\ (~strayed' =>
            ~strayed /\ top' = top /\ (place # None => place.id \in Viewport!ToSet(rows')))
  BY <1>2, <1>6
<1>8. AnchorsKept BY <1>1, <1>2, <1>7, RelayoutKeeps DEF RowsAreSet
<1>9. focus' \in RowIds \cup {None} BY <1>2 DEF ViewportInv, ViewportTypeOK
<1>10. ViewportTypeOK'
  BY <1>1, <1>2, <1>3, <1>5, <1>7, <1>8, <1>9
  DEF ViewportInv, ViewportTypeOK, RowsAreSet, AnchorsKept
<1>11. FocusIsPinned' BY <1>1, <1>2 DEF ViewportInv, FocusIsPinned, RowsAreSet
<1>12. metrics.height # 0 BY <1>2 DEF ViewportInv, NothingIsSeenBefore
<1>13. NothingIsSeenBefore' BY <1>3, <1>12 DEF NothingIsSeenBefore
<1>14. PositionIsKnown'
  BY <1>2, <1>3, <1>5, <1>7 DEF ViewportInv, PositionIsKnown, Viewport!Connected
<1> QED BY <1>8, <1>10, <1>11, <1>13, <1>14 DEF ViewportInv, AnchorsKept

LEMMA MountKeeps ==
  ASSUME ViewportInv, Viewport!Mount
  PROVE  ViewportInv'
<1>1. RowsAreSet BY SettingRows DEF Viewport!Mount
<1>2. view = "away" /\ view' = "mounted" /\ frame' = TRUE /\ top' = 0 /\ place' = place
      /\ focus' = focus
      /\ strayed' = (strayed \/ (place # None /\ place.id \notin Viewport!ToSet(rows')))
  BY DEF Viewport!Mount
<1>3. rows' \in Viewport!Outlines /\ Measures(heights') /\ metrics' = metrics
  BY <1>1 DEF RowsAreSet
<1>4. 0 <= Viewport!MaxTop(rows', heights') BY <1>3, ClampedIs
<1>5. strayed \in BOOLEAN BY DEF ViewportInv, ViewportTypeOK
<1>6. strayed' \in BOOLEAN
      /\ (~strayed' => ~strayed /\ (place # None => place.id \in Viewport!ToSet(rows')))
  BY <1>2, <1>5
<1>7. AnchorsKept BY <1>1, <1>2, <1>6, RelayoutKeeps DEF RowsAreSet
<1>8. focus' = None BY <1>2 DEF ViewportInv, FocusIsPinned
<1>9. ViewportTypeOK'
  BY <1>1, <1>2, <1>3, <1>6, <1>7, <1>8
  DEF ViewportInv, ViewportTypeOK, RowsAreSet, AnchorsKept
<1>10. FocusIsPinned' BY <1>1, <1>8 DEF FocusIsPinned, RowsAreSet
<1>11. NothingIsSeenBefore'
  <2> SUFFICES ASSUME metrics.height = 0
               PROVE  metrics.top = 0 /\ place = None /\ pendingAnchor' = None
    BY <1>2, <1>3 DEF NothingIsSeenBefore
  <2>1. metrics.top = 0 /\ place = None /\ pendingAnchor = None
    BY DEF ViewportInv, NothingIsSeenBefore
  <2>2. Viewport!Preserved = None BY <1>2, PreservedIs
  <2> QED BY <1>1, <2>1, <2>2 DEF RowsAreSet
<1>12. PositionIsKnown' BY <1>2, <1>4 DEF PositionIsKnown, Viewport!Connected
<1> QED BY <1>7, <1>9, <1>10, <1>11, <1>12 DEF ViewportInv, AnchorsKept

\* The heights are others, the rows are the same.
LEMMA HeightsKeep ==
  ASSUME ViewportInv, Viewport!Connected, Measures(heights'), pendingAnchor' = Viewport!Preserved,
         frame' = TRUE, Viewport!Relayout(rows, heights'),
         UNCHANGED <<view, rows, metrics, scrollAnchor, owner, focusedIds, composingIds,
                     pinned, focus, place>>
  PROVE  ViewportInv'
<1>1. rows \in Viewport!Outlines /\ top \in Nat BY WhatThereIs
<1>2. top' = Viewport!Clamped(rows, heights', top)
      /\ strayed' =
           (strayed \/ top' # top \/ (place # None /\ place.id \notin Viewport!ToSet(rows)))
  BY DEF Viewport!Relayout
<1>3. top' \in Nat /\ top' <= Viewport!MaxTop(rows, heights') BY <1>1, <1>2, ClampedIs
<1>4. strayed \in BOOLEAN BY DEF ViewportInv, ViewportTypeOK
<1>5. strayed' \in BOOLEAN
      /\ (~strayed' =>
            ~strayed /\ top' = top /\ (place # None => place.id \in Viewport!ToSet(rows)))
  BY <1>2, <1>4
<1>6. AnchorsKept BY <1>1, <1>5, RelayoutKeeps
<1>7. /\ owner' \cup focusedIds' \cup composingIds' \cup pinned' \subseteq RowIds
      /\ focus' \in RowIds \cup {None} /\ FocusIsPinned'
  BY FocusKept
<1>8. ViewportTypeOK'
  BY <1>1, <1>3, <1>5, <1>6, <1>7 DEF ViewportInv, ViewportTypeOK, AnchorsKept
<1>9. metrics.height # 0 BY DEF ViewportInv, NothingIsSeenBefore, Viewport!Connected
<1>10. NothingIsSeenBefore' BY <1>9 DEF NothingIsSeenBefore
<1>11. PositionIsKnown' BY <1>3, <1>5 DEF ViewportInv, PositionIsKnown, Viewport!Connected
<1> QED BY <1>6, <1>7, <1>8, <1>10, <1>11 DEF ViewportInv, AnchorsKept

LEMMA MeasureKeeps ==
  ASSUME ViewportInv, Viewport!MeasureRow
  PROVE  ViewportInv'
<1>1. PICK i \in Viewport!entries, height \in Heights : Viewport!Measured(rows[i], height)
  BY DEF Viewport!MeasureRow
<1>2. Measures(heights) BY WhatThereIs
<1>3. height \in Nat BY RowsAssumption
<1>4. Measures(heights') BY <1>1, <1>2, <1>3 DEF Viewport!Measured, Measures
<1>5. pendingAnchor' = Viewport!Preserved BY <1>1 DEF Viewport!Measured
<1>6. Viewport!Connected /\ frame' = TRUE /\ Viewport!Relayout(rows, heights')
      /\ UNCHANGED <<view, rows, metrics, scrollAnchor, owner, focusedIds, composingIds,
                     pinned, focus, place>>
  BY DEF Viewport!MeasureRow
<1> QED BY <1>4, <1>5, <1>6, HeightsKeep

LEMMA WidthKeeps ==
  ASSUME ViewportInv, Viewport!ObserveWidth
  PROVE  ViewportInv'
<1>1. Measures(heights) BY WhatThereIs
<1>2. heights' = [id \in DOMAIN heights \cap {rows[i] : i \in Viewport!entries} |-> heights[id]]
  BY DEF Viewport!ObserveWidth
<1>3. Measures(heights') BY <1>1, <1>2 DEF Measures
<1>4. Viewport!Connected /\ frame' = TRUE /\ Viewport!Relayout(rows, heights')
      /\ pendingAnchor' = Viewport!Preserved
      /\ UNCHANGED <<view, rows, metrics, scrollAnchor, owner, focusedIds, composingIds,
                     pinned, focus, place>>
  BY DEF Viewport!ObserveWidth
<1> QED BY <1>3, <1>4, HeightsKeep

\* Only the focus has moved.
LEMMA FocusMoves ==
  ASSUME ViewportInv,
         UNCHANGED <<view, rows, heights, metrics, scrollAnchor, pendingAnchor, top, frame,
                     place, strayed>>,
         owner' \cup focusedIds' \cup composingIds' \cup pinned' \subseteq RowIds,
         focus' \in RowIds \cup {None}, FocusIsPinned'
  PROVE  ViewportInv'
<1>1. ViewportTypeOK' BY DEF ViewportInv, ViewportTypeOK
<1>2. NothingIsSeenBefore' BY DEF ViewportInv, NothingIsSeenBefore
<1>3. AnchorsAreThePlace' BY DEF ViewportInv, AnchorsAreThePlace
<1>4. PositionIsKnown' BY DEF ViewportInv, PositionIsKnown, Viewport!Connected
<1>5. PlaceIsWhereItWas' BY DEF ViewportInv, PlaceIsWhereItWas
<1> QED BY <1>1, <1>2, <1>3, <1>4, <1>5 DEF ViewportInv

LEMMA RowsAreThere ==
  ASSUME ViewportInv
  PROVE  \A i \in Viewport!entries : rows[i] \in Viewport!ToSet(rows) /\ rows[i] \in RowIds
<1>1. rows \in Viewport!Outlines /\ Measures(heights) /\ MetricsOK(metrics) BY WhatThereIs
<1>2. Viewport!entries \subseteq 1..Len(rows) BY <1>1, DrawnAreRows DEF Viewport!entries
<1>3. \A i \in 1..Len(rows) : rows[i] \in Viewport!ToSet(rows) /\ rows[i] \in RowIds
  BY <1>1, RowsAre, IndexOfRow
<1> QED BY <1>2, <1>3

LEMMA MoveFocusKeeps ==
  ASSUME ViewportInv, Viewport!MoveFocus
  PROVE  ViewportInv'
<1>1. /\ UNCHANGED <<view, rows, heights, metrics, scrollAnchor, pendingAnchor, top, frame,
                     place, strayed>>
      /\ view = "connected"
  BY DEF Viewport!MoveFocus, Viewport!Connected
<1>2. focus' = None \/ focus' \in Viewport!ToSet(rows) \cap RowIds
  <2>1. focus' \in {rows[i] : i \in Viewport!entries} \cup {None} BY DEF Viewport!MoveFocus
  <2> QED BY <2>1, RowsAreThere
<1>3. owner' = owner /\ focusedIds' = (focusedIds \ {focus}) \cup ({focus'} \ {None})
      /\ composingIds' = composingIds /\ pinned' = owner' \cup focusedIds' \cup composingIds'
  BY DEF Viewport!MoveFocus, Viewport!Publish
<1>4. owner \cup focusedIds \cup composingIds \subseteq RowIds
  BY DEF ViewportInv, ViewportTypeOK
<1>5. owner' \cup focusedIds' \cup composingIds' \cup pinned' \subseteq RowIds
  BY <1>2, <1>3, <1>4
<1>6. FocusIsPinned' BY <1>1, <1>2, <1>3 DEF FocusIsPinned
<1> QED BY <1>1, <1>2, <1>5, <1>6, FocusMoves

LEMMA ComposeKeeps ==
  ASSUME ViewportInv, Viewport!Compose
  PROVE  ViewportInv'
<1>1. UNCHANGED <<view, rows, heights, metrics, scrollAnchor, pendingAnchor, top, frame,
                  focus, place, strayed>>
  BY DEF Viewport!Compose
<1>2. owner' = owner /\ focusedIds' = focusedIds /\ composingIds' = composingIds \cup {focus}
      /\ pinned' = owner' \cup focusedIds' \cup composingIds' /\ focus # None
  BY DEF Viewport!Compose, Viewport!Publish
<1>3. owner \cup focusedIds \cup composingIds \subseteq RowIds /\ focus \in RowIds
  BY <1>2 DEF ViewportInv, ViewportTypeOK
<1>4. owner' \cup focusedIds' \cup composingIds' \cup pinned' \subseteq RowIds
  BY <1>2, <1>3
<1>5. FocusIsPinned' BY <1>1, <1>2 DEF ViewportInv, FocusIsPinned
<1> QED BY <1>1, <1>3, <1>4, <1>5, FocusMoves

LEMMA EndCompositionKeeps ==
  ASSUME ViewportInv, Viewport!EndComposition
  PROVE  ViewportInv'
<1>1. PICK keeps \in BOOLEAN :
        /\ focus' = IF keeps THEN focus ELSE None
        /\ Viewport!Publish(owner, IF keeps THEN focusedIds ELSE focusedIds \ {focus},
                   composingIds \ {focus})
        /\ UNCHANGED <<view, rows, heights, metrics, scrollAnchor, pendingAnchor, top, frame,
                       place, strayed>>
  BY DEF Viewport!EndComposition
<1>2. owner' = owner /\ focusedIds' = (IF keeps THEN focusedIds ELSE focusedIds \ {focus})
      /\ composingIds' = composingIds \ {focus}
      /\ pinned' = owner' \cup focusedIds' \cup composingIds'
  BY <1>1 DEF Viewport!Publish
<1>3. owner \cup focusedIds \cup composingIds \subseteq RowIds /\ focus \in RowIds \cup {None}
  BY DEF ViewportInv, ViewportTypeOK
<1>4. owner' \cup focusedIds' \cup composingIds' \cup pinned' \subseteq RowIds
      /\ focus' \in RowIds \cup {None}
  BY <1>1, <1>2, <1>3
<1>5. FocusIsPinned' BY <1>1, <1>2 DEF ViewportInv, FocusIsPinned
<1> QED BY <1>1, <1>4, <1>5, FocusMoves

LEMMA ScrollTopIs ==
  ASSUME ViewportInv, NEW i \in 1..Len(rows)
  PROVE  /\ Viewport!scrollTopFor(i) \in Nat
         /\ Viewport!scrollTopFor(i) <= Viewport!MaxTop(rows, heights)
         /\ Viewport!Clamped(rows, heights, Viewport!scrollTopFor(i)) = Viewport!scrollTopFor(i)
<1> DEFINE begins == Viewport!Offset(rows, heights, i)
           ends == Viewport!Offset(rows, heights, i + 1)
           target == IF begins < metrics.top THEN begins
                     ELSE IF ends > metrics.top + metrics.height THEN ends - metrics.height
                     ELSE metrics.top
<1>1. rows \in Viewport!Outlines /\ Measures(heights) /\ metrics.top \in Nat
      /\ metrics.height \in Int
  BY WhatThereIs
<1>2. Len(rows) \in Nat BY <1>1, RowsAre
<1>3. i \in 1..(Len(rows) + 1) /\ i + 1 \in 1..(Len(rows) + 1) BY <1>2
<1>4. begins \in Int /\ ends \in Int BY <1>1, <1>3, OffsetsAre
<1>5. Viewport!scrollTopFor(i) = Viewport!Clamped(rows, heights, target)
  BY DEF Viewport!scrollTopFor
<1>6. target \in Int
  <2> HIDE DEF begins, ends
  <2> QED BY <1>1, <1>4
<1> HIDE DEF target
<1> QED BY <1>1, <1>5, <1>6, ClampedIs

LEMMA EnsureMountedKeeps ==
  ASSUME ViewportInv, Viewport!EnsureMounted
  PROVE  ViewportInv'
<1>1. PICK i \in DOMAIN rows :
        LET m == [top |-> Viewport!Clamped(rows, heights, Viewport!scrollTopFor(i)),
                  height |-> ViewportHeight]
            mounted == i \in Viewport!Drawn(rows, heights, m, pinned)
        IN  /\ focus # rows[i]
            /\ IF Viewport!scrollTopFor(i) # metrics.top
                 THEN /\ top' = m.top /\ Viewport!Observe(rows, heights, m, pendingAnchor)
                      /\ Viewport!Arrive(rows, heights, m.top)
                 ELSE UNCHANGED <<top, metrics, scrollAnchor, pendingAnchor, place, strayed>>
            /\ focus' = IF mounted THEN rows[i] ELSE focus
            /\ IF mounted
                 THEN Viewport!Publish(owner, (focusedIds \ {focus}) \cup {rows[i]}, composingIds)
                 ELSE UNCHANGED <<owner, focusedIds, composingIds, pinned>>
  BY DEF Viewport!EnsureMounted
<1>2. rows \in Viewport!Outlines /\ Measures(heights) BY WhatThereIs
<1>3. i \in 1..Len(rows) /\ rows[i] \in Viewport!ToSet(rows) /\ rows[i] \in RowIds
  BY <1>2, RowsAre, IndexOfRow
<1> DEFINE y == Viewport!scrollTopFor(i)
<1>4. y \in Nat /\ y <= Viewport!MaxTop(rows, heights) /\ Viewport!Clamped(rows, heights, y) = y
  BY <1>3, ScrollTopIs
<1>5. view = "connected" /\ UNCHANGED <<view, rows, heights, frame>>
  BY DEF Viewport!EnsureMounted, Viewport!Connected
<1>6. owner \cup focusedIds \cup composingIds \cup pinned \subseteq RowIds
      /\ focus \in RowIds \cup {None} /\ FocusIsPinned
      /\ frame \in BOOLEAN
  BY DEF ViewportInv, ViewportTypeOK
<1>7. \/ /\ focus' = rows[i] /\ owner' = owner /\ composingIds' = composingIds
         /\ focusedIds' = (focusedIds \ {focus}) \cup {rows[i]}
         /\ pinned' = owner' \cup focusedIds' \cup composingIds'
      \/ UNCHANGED <<focus, owner, focusedIds, composingIds, pinned>>
  BY <1>1 DEF Viewport!Publish
<1>8. owner' \cup focusedIds' \cup composingIds' \cup pinned' \subseteq RowIds
      /\ focus' \in RowIds \cup {None}
  BY <1>3, <1>6, <1>7
<1>9. FocusIsPinned'
  <2>1. CASE /\ focus' = rows[i] /\ owner' = owner /\ composingIds' = composingIds
             /\ focusedIds' = (focusedIds \ {focus}) \cup {rows[i]}
             /\ pinned' = owner' \cup focusedIds' \cup composingIds'
    BY <1>3, <1>5, <2>1 DEF FocusIsPinned
  <2>2. CASE UNCHANGED <<focus, owner, focusedIds, composingIds, pinned>>
    BY <1>5, <1>6, <2>2 DEF FocusIsPinned
  <2> QED BY <1>7, <2>1, <2>2
<1>10. CASE y # metrics.top
  <2>1. /\ top' = y
        /\ Viewport!Observe(rows, heights, [top |-> y, height |-> ViewportHeight], pendingAnchor)
        /\ Viewport!Arrive(rows, heights, y)
    BY <1>1, <1>4, <1>10
  <2>2. metrics' # metrics BY <1>10, <2>1 DEF Viewport!Observe
  <2>3. AnchorsKept /\ metrics' = [top |-> y, height |-> ViewportHeight]
    <3> HIDE DEF y
    <3> QED BY <1>4, <1>5, <2>1, <2>2, ObserveKeeps
  <2>4. strayed' \in BOOLEAN BY <2>1 DEF Viewport!Arrive
  <2> HIDE DEF y
  <2> QED BY <1>4, <1>5, <1>6, <1>8, <1>9, <2>1, <2>3, <2>4, ArrivalKeeps
<1>11. CASE y = metrics.top
  <2>1. UNCHANGED <<top, metrics, scrollAnchor, pendingAnchor, place, strayed>>
    BY <1>1, <1>11
  <2> QED BY <1>5, <1>8, <1>9, <2>1, FocusMoves
<1> QED BY <1>10, <1>11

LEMMA ViewportStarts ==
  ASSUME Viewport!Init
  PROVE  ViewportInv
<1>1. rows = <<>> /\ heights = <<>> /\ metrics = [top |-> 0, height |-> 0]
      /\ scrollAnchor = None /\ pendingAnchor = None /\ place = None
      /\ owner = {} /\ focusedIds = {} /\ composingIds = {} /\ pinned = {}
      /\ view = "away" /\ top = 0 /\ frame = FALSE /\ focus = None /\ strayed = FALSE
  BY DEF Viewport!Init
<1>2. <<>> \in Viewport!Outlines
  <2>1. Cardinality(RowIds) \in Nat BY FS_CardinalityType, RowsAssumption
  <2>2. 0 \in 0..Cardinality(RowIds) BY <2>1
  <2>3. <<>> \in [1..0 -> RowIds] OBVIOUS
  <2>4. <<>> \in UNION {[1..n -> RowIds] : n \in 0..Cardinality(RowIds)} BY <2>2, <2>3
  <2>5. \A i, j \in DOMAIN <<>> : i < j => <<>>[i] < <<>>[j] OBVIOUS
  <2> QED BY <2>4, <2>5, RowsAreCounted DEF Viewport!Outlines
<1>3. Measures(heights) BY <1>1 DEF Measures
<1>4. metrics \in [top : Nat, height : {0, ViewportHeight}] BY <1>1
<1>5. ViewportTypeOK BY <1>1, <1>2, <1>3, <1>4 DEF ViewportTypeOK
<1>6. FocusIsPinned BY <1>1 DEF FocusIsPinned
<1>7. NothingIsSeenBefore BY <1>1 DEF NothingIsSeenBefore
<1>8. AnchorsAreThePlace BY <1>1 DEF AnchorsAreThePlace
<1>9. PositionIsKnown BY <1>1 DEF PositionIsKnown, Viewport!Connected
<1>10. PlaceIsWhereItWas BY <1>1 DEF PlaceIsWhereItWas
<1> QED BY <1>5, <1>6, <1>7, <1>8, <1>9, <1>10 DEF ViewportInv

LEMMA ViewportSteps ==
  ASSUME ViewportInv, [Viewport!Next]_Viewport!vars
  PROVE  ViewportInv'
<1>1. CASE Viewport!Mount BY <1>1, MountKeeps
<1>2. CASE Viewport!Connect BY <1>2, ConnectKeeps
<1>3. CASE Viewport!Leave BY <1>3, LeaveKeeps
<1>4. CASE Viewport!RefreshProjection BY <1>4, RefreshKeeps
<1>5. CASE Viewport!MeasureRow BY <1>5, MeasureKeeps
<1>6. CASE Viewport!ObserveWidth BY <1>6, WidthKeeps
<1>7. CASE Viewport!Scroll BY <1>7, ScrollKeeps
<1>8. CASE Viewport!ScrollEvent BY <1>8, ScrollEventKeeps
<1>9. CASE Viewport!Frame BY <1>9, FrameKeeps
<1>10. CASE Viewport!MoveFocus BY <1>10, MoveFocusKeeps
<1>11. CASE Viewport!Compose BY <1>11, ComposeKeeps
<1>12. CASE Viewport!EndComposition BY <1>12, EndCompositionKeeps
<1>13. CASE Viewport!EnsureMounted BY <1>13, EnsureMountedKeeps
<1>14. CASE UNCHANGED Viewport!vars
  <2>1. UNCHANGED <<view, rows, heights, metrics, scrollAnchor, pendingAnchor, top, frame,
                    place, strayed, owner, focusedIds, composingIds, pinned, focus>>
    BY <1>14 DEF Viewport!vars, Viewport!controller, Viewport!user
  <2>2. /\ owner' \cup focusedIds' \cup composingIds' \cup pinned' \subseteq RowIds
        /\ focus' \in RowIds \cup {None} /\ FocusIsPinned'
    BY <2>1, FocusKept
  <2> QED BY <2>1, <2>2, FocusMoves
<1> QED
  BY <1>1, <1>2, <1>3, <1>4, <1>5, <1>6, <1>7, <1>8, <1>9, <1>10, <1>11, <1>12, <1>13, <1>14
  DEF Viewport!Next

\* What is in use is drawn, where the layout has it.
LEMMA InUseIsDrawn ==
  ASSUME ViewportInv
  PROVE  Viewport!RowsInUseAreDrawn /\ Viewport!DrawnInPlace
<1>1. rows \in Viewport!Outlines /\ Measures(heights) /\ MetricsOK(metrics) BY WhatThereIs
<1>2. DOMAIN rows = 1..Len(rows) BY <1>1, RowsAre
<1>3. \A i \in DOMAIN rows :
        Viewport!Offset(rows, heights, i) < metrics.top + metrics.height
          /\ Viewport!Offset(rows, heights, i + 1) > metrics.top => i \in Viewport!entries
  BY <1>1, <1>2, InViewIsDrawn DEF Viewport!entries
<1>4. FocusIsPinned BY DEF ViewportInv
<1>5. ASSUME NEW id \in pinned \cap Viewport!ToSet(rows) PROVE Viewport!IsDrawn(id)
  BY <1>1, PinnedAreDrawn DEF Viewport!IsDrawn, Viewport!entries
<1>6. \A id \in owner \cap Viewport!ToSet(rows) : Viewport!IsDrawn(id)
  BY <1>4, <1>5 DEF FocusIsPinned
<1>7. focus # None => Viewport!IsDrawn(focus) BY <1>4, <1>5 DEF FocusIsPinned
<1>8. Viewport!RowsInUseAreDrawn BY <1>3, <1>6, <1>7 DEF Viewport!RowsInUseAreDrawn
<1> QED BY <1>1, <1>8, PageIsTheLayout

\* Only the frame ends with no frame requested and the view where it was.
LEMMA PlaceIsKeptByStep ==
  ASSUME ViewportInv, Viewport!Next
  PROVE  Viewport!PlaceIsKept
<1> SUFFICES ASSUME frame, ~frame', view' = view, ~strayed, place # None
             PROVE  top' = Viewport!Clamped(rows, heights, Position(rows, heights, place))
  BY DEF Viewport!PlaceIsKept, Position
<1>1. ~(UNCHANGED frame) OBVIOUS
<1>2. CASE Viewport!Frame BY <1>2, FrameGoesThere
<1>3. CASE Viewport!Leave BY <1>3 DEF Viewport!Leave, Viewport!Connected
<1>4. CASE Viewport!Mount BY <1>4 DEF Viewport!Mount
<1>5. CASE Viewport!Connect BY <1>1, <1>5 DEF Viewport!Connect
<1>6. CASE Viewport!RefreshProjection BY <1>6 DEF Viewport!RefreshProjection
<1>7. CASE Viewport!MeasureRow BY <1>7 DEF Viewport!MeasureRow
<1>8. CASE Viewport!ObserveWidth BY <1>8 DEF Viewport!ObserveWidth
<1>9. CASE Viewport!Scroll BY <1>1, <1>9 DEF Viewport!Scroll
<1>10. CASE Viewport!ScrollEvent BY <1>1, <1>10 DEF Viewport!ScrollEvent
<1>11. CASE Viewport!MoveFocus BY <1>1, <1>11 DEF Viewport!MoveFocus
<1>12. CASE Viewport!Compose BY <1>1, <1>12 DEF Viewport!Compose
<1>13. CASE Viewport!EndComposition BY <1>1, <1>13 DEF Viewport!EndComposition
<1>14. CASE Viewport!EnsureMounted BY <1>1, <1>14 DEF Viewport!EnsureMounted
<1> QED
  BY <1>2, <1>3, <1>4, <1>5, <1>6, <1>7, <1>8, <1>9, <1>10, <1>11, <1>12, <1>13, <1>14
  DEF Viewport!Next

-----------------------------------------------------------------------------
(* The window: in each of its scenes the invariant of that scene.          *)

ViewsInv ==
  /\ scene = "row" => RInv
  /\ scene = "files" => FInv
  /\ scene = "selection" => SInv
  /\ scene = "manuscript" => LInv
  /\ scene = "panel" => PInv
  /\ scene = "viewport" => ViewportInv

\* Each scene begins with its invariant.
LEMMA ViewsStart == ASSUME MCInit PROVE ViewsInv
<1>1. CASE RowBegins BY <1>1, RowInitial DEF RowBegins, ViewsInv
<1>2. CASE FilesBegin BY <1>2, FilesInitial DEF FilesBegin, ViewsInv
<1>3. CASE SelectionBegins BY <1>3, SelInitial DEF SelectionBegins, ViewsInv
<1>4. CASE ManuscriptBegins BY <1>4, FormInitial DEF ManuscriptBegins, ViewsInv
<1>5. CASE PanelBegins BY <1>5, PanelInitial DEF PanelBegins, ViewsInv
<1>6. CASE ViewportBegins BY <1>6, ViewportStarts DEF ViewportBegins, ViewsInv
<1> QED BY <1>1, <1>2, <1>3, <1>4, <1>5, <1>6 DEF MCInit

\* A step is one of the scene, or changes nothing of it.
LEMMA ViewsStep ==
  ASSUME ViewsInv, [MCNext]_mcvars
  PROVE  /\ ViewsInv'
         /\ scene = "selection" => [Selecting!DraftIsKept]_mcvars
         /\ scene = "panel" => scene' = "panel" /\ Panel!ShownGoesForward
         /\ scene = "viewport" => [Viewport!PlaceIsKept]_mcvars
<1>1. CASE Row
  <2>1. scene = "row" /\ scene' = "row" /\ Next BY <1>1 DEF Row
  <2>2. RInv' BY <2>1, RowStep DEF ViewsInv
  <2> QED BY <2>1, <2>2 DEF ViewsInv
<1>2. CASE Exchanges
  <2>1. scene = "files" /\ scene' = "files" /\ Files!Next BY <1>2 DEF Exchanges
  <2>2. FInv' BY <2>1, FilesStep DEF ViewsInv
  <2> QED BY <2>1, <2>2 DEF ViewsInv
<1>3. CASE Selects
  <2>1. scene = "selection" /\ scene' = "selection" /\ Selecting!Next BY <1>3 DEF Selects
  <2>2. SInv' /\ Selecting!DraftIsKept BY <2>1, SelStep DEF ViewsInv
  <2> QED BY <2>1, <2>2 DEF ViewsInv
<1>4. CASE Writes
  <2>1. scene = "manuscript" /\ scene' = "manuscript" /\ Manuscript!Next BY <1>4 DEF Writes
  <2>2. LInv' BY <2>1, FormStep DEF ViewsInv
  <2> QED BY <2>1, <2>2 DEF ViewsInv
<1>5. CASE Panelled
  <2>1. scene = "panel" /\ scene' = "panel" /\ Panel!Next BY <1>5 DEF Panelled
  <2>2. PInv' /\ Panel!ShownGoesForward BY <2>1, PanelsStep DEF ViewsInv
  <2> QED BY <2>1, <2>2 DEF ViewsInv
<1>6. CASE Scrolls
  <2>1. scene = "viewport" /\ scene' = "viewport" /\ Viewport!Next BY <1>6 DEF Scrolls
  <2>2. ViewportInv' /\ Viewport!PlaceIsKept
    BY <2>1, ViewportSteps, PlaceIsKeptByStep DEF ViewsInv
  <2> QED BY <2>1, <2>2 DEF ViewsInv
<1>7. CASE UNCHANGED mcvars
  <2>1. /\ scene' = scene /\ UNCHANGED vars /\ UNCHANGED Files!vars
        /\ UNCHANGED Selecting!vars /\ UNCHANGED Manuscript!vars /\ UNCHANGED Panel!vars
        /\ UNCHANGED Viewport!vars
    BY <1>7
    DEF mcvars, vars, Files!vars, Selecting!vars, Manuscript!vars, Panel!vars, onlyRow,
        onlySelection, onlyManuscript, onlyFiles, onlyPanel, onlyViewport, Viewport!vars,
        Viewport!controller, Viewport!user
  <2>2. CASE scene = "row"
    <3>1. RInv' BY <2>1, <2>2, RowStep DEF ViewsInv
    <3> QED BY <2>1, <2>2, <3>1 DEF ViewsInv
  <2>3. CASE scene = "files"
    <3>1. FInv' BY <2>1, <2>3, FilesStep DEF ViewsInv
    <3> QED BY <2>1, <2>3, <3>1 DEF ViewsInv
  <2>4. CASE scene = "selection"
    <3>1. SInv' BY <2>1, <2>4, SelStep DEF ViewsInv
    <3> QED BY <1>7, <2>1, <2>4, <3>1 DEF ViewsInv
  <2>5. CASE scene = "manuscript"
    <3>1. LInv' BY <2>1, <2>5, FormStep DEF ViewsInv
    <3> QED BY <2>1, <2>5, <3>1 DEF ViewsInv
  <2>6. CASE scene = "panel"
    <3>1. PInv' /\ Panel!ShownGoesForward BY <2>1, <2>6, PanelsStep DEF ViewsInv
    <3> QED BY <2>1, <2>6, <3>1 DEF ViewsInv
  <2>7. CASE scene = "viewport"
    <3>1. ViewportInv' BY <2>1, <2>7, ViewportSteps DEF ViewsInv
    <3> QED BY <1>7, <2>1, <2>7, <3>1 DEF ViewsInv
  <2>8. CASE scene \notin {"row", "files", "selection", "manuscript", "panel", "viewport"}
    BY <2>1, <2>8 DEF ViewsInv
  <2> QED BY <2>2, <2>3, <2>4, <2>5, <2>6, <2>7, <2>8
<1> QED BY <1>1, <1>2, <1>3, <1>4, <1>5, <1>6, <1>7 DEF MCNext

\* Each scene keeps its invariant, with any numbers of edits, calls and operations.
THEOREM ViewsInvariance == MCSpec => []ViewsInv
<1>1. MCInit => ViewsInv BY ViewsStart
<1>2. ViewsInv /\ [MCNext]_mcvars => ViewsInv' BY ViewsStep
<1> QED BY <1>1, <1>2, PTL DEF MCSpec

\* However a row is typed in, saved, collapsed and reloaded while navigations come and go,
\* the text typed last stays on screen, the collapse shown is the stored one once nothing
\* is under way, and a navigation that commits leaves nothing unsaved
\* (outline_controller.svelte.ts, outline_operations_controller.svelte.ts:toggle,
\* screen_navigation_workspace.svelte.ts).
THEOREM RowStaysUpToDate == MCSpec => []RowIsUpToDate
<1>1. ViewsInv => RowIsUpToDate BY RowIsRight DEF ViewsInv, RowIsUpToDate
<1> QED BY <1>1, ViewsInvariance, PTL

\* The notice of an export says that the file has what was saved when it was asked for, and
\* that of an import that the outline on screen shows it (file_operation_state.svelte.ts,
\* json_backup_controller.svelte.ts, opml_controller.svelte.ts).
THEOREM NoticesStayTrue == MCSpec => []NoticesAreTrue
<1>1. ViewsInv => NoticesAreTrue BY DEF ViewsInv, FInv, NoticesAreTrue
<1> QED BY <1>1, ViewsInvariance, PTL

\* Whatever is selected, navigated to, saved, reloaded or deleted elsewhere meanwhile, the
\* active pane of the outline is where the selection is, and the form and a save of it
\* are about the selected work (occurrence_selection_workspace.svelte.ts,
\* historical_time_controller.svelte.ts:reconcileSelection).
THEOREM SelectionStaysConsistent == MCSpec => []SelectionIsConsistent
<1>1. SInv => Selecting!SelectionIsBrowsed /\ Selecting!FormIsOfSelection
  BY DEF SInv, FormFits, Selecting!FormIsOfSelection
<1>2. ViewsInv => SelectionIsConsistent BY <1>1 DEF ViewsInv, SelectionIsConsistent
<1> QED BY <1>2, ViewsInvariance, PTL

\* Unsaved input leaves the form only in a step of the user's own, an edit or a discard,
\* or when it was saved (historical_time_controller.svelte.ts:commitSelection).
THEOREM DraftsStay == MCSpec => DraftsAreKept
<1>1. ViewsInv /\ [MCNext]_mcvars => [scene = "selection" => Selecting!DraftIsKept]_mcvars
  BY ViewsStep
<1> QED BY <1>1, ViewsInvariance, PTL DEF MCSpec, DraftsAreKept

\* As long as no manuscript is closed in the middle of a save of it, the text typed last
\* is in the store, or unsaved in the manuscript: with any number of works, edits and calls
\* of save, waiting for each other, and navigations (long_form_controller.svelte.ts:save).
THEOREM ManuscriptsStay == MCSpec => []ManuscriptsAreKept
<1>1. ViewsInv => ManuscriptsAreKept BY DEF ViewsInv, LInv, ManuscriptsAreKept
<1> QED BY <1>1, ViewsInvariance, PTL

\* Whatever is selected, typed, opened, reloaded and changed, in whatever order requests
\* are answered and effects run: when nothing is outstanding and nothing failed, a panel
\* shows the answer for what is selected or typed then, and an answer is never replaced by
\* an older one for the same subject (history_controller.svelte.ts, editor_controller.svelte.ts,
\* emergence_controller.svelte.ts, tree_controller.svelte.ts, bookmark_controller.svelte.ts,
\* omni_search_controller.svelte.ts, link_editor_controller.svelte.ts,
\* editor_completion_controller.svelte.ts, licenses_controller.svelte.ts).
THEOREM PanelsStayUpToDate == MCSpec => PanelsAreUpToDate
<1>1. ViewsInv => (scene = "panel" => Panel!PanelsShowTheirSubject)
  BY PanelIsRight DEF ViewsInv
<1>2. ViewsInv /\ [MCNext]_mcvars
        => [scene = "panel" => (scene = "panel")' /\ Panel!ShownGoesForward]_mcvars
  BY ViewsStep
<1> QED BY <1>1, <1>2, ViewsInvariance, PTL DEF MCSpec, PanelsAreUpToDate

\* Whatever rows are shown, hidden, measured and narrowed, whoever scrolls and whatever the
\* browser cuts off: the rows in view, the one selected or dragged and the one with the focus
\* are drawn, each where the layout has it (virtual_outline_viewport.ts:
\* calculateVirtualOutlineWindow, OutlineVirtualViewportController).
THEOREM WhatIsUsedIsDrawn == MCSpec => []ViewportShowsWhatIsUsed
<1>1. ViewsInv => ViewportShowsWhatIsUsed
  BY InUseIsDrawn DEF ViewsInv, ViewportShowsWhatIsUsed
<1> QED BY <1>1, ViewsInvariance, PTL

\* The frame that corrects the scroll position brings the place that was being read back to
\* where it was, however many changes of rows, heights and width came before it
\* (outline_virtual_viewport_controller.svelte.ts:preserveAnchor, takeAnchorAdjustment).
THEOREM ThePlaceStays == MCSpec => PlaceStays
<1>1. ViewsInv /\ [MCNext]_mcvars => [scene = "viewport" => Viewport!PlaceIsKept]_mcvars
  BY ViewsStep
<1> QED BY <1>1, ViewsInvariance, PTL DEF MCSpec, PlaceStays
=============================================================================
