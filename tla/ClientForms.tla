------------------------------ MODULE ClientForms ------------------------------
(***************************************************************************)
(* The dialogs and forms that change something: those of the browser, and  *)
(* the item screen and the settings of the phone.  A form makes its server *)
(* calls one after the other; a call that fails or runs out of time is     *)
(* reported, the form stays, and the user may submit it again, while the   *)
(* backend may still do what was given up.  Meanwhile the list of areas is *)
(* read again on every realtime event, and takes the selection with it, and *)
(* a reload or a scan takes the dialog of an item away or gives it another. *)
(* Pages share nothing but the quick dialogs of the browser, so a          *)
(* behaviour follows one page.                                             *)
(***************************************************************************)
EXTENDS Naturals, Sequences, FiniteSets

CONSTANTS Areas,         \* the ids areas get, never used twice
          Nothing,       \* no dialog, no area selected
          MaxDialogs, MaxDisturbances, MaxReports, MaxCopies   \* bounds of the model

VARIABLES page,      \* the page that is shown
          areas,     \* the areas in the database
          used,      \* the ids given out so far
          listed,    \* areas of the page
          selected,  \* selectedAreaId
          loads,     \* answers of listAreas on their way to the page
          dialog,    \* the dialog that is open, or the form that is being filled in
          jobs,      \* submissions in flight, also of dialogs that were dismissed
          opened,    \* the dialogs opened so far: rows created, failures reported,
                     \* creations that were given up and may still happen
          spent      \* what has happened around the forms so far

vars == <<page, areas, used, listed, selected, loads, dialog, jobs, opened, spent>>

\* The component that holds the saving flag of the form, whether the form stays
\* open while that flag is set, and the calls a submission makes, in order.
Form(host, held, plans) == [host |-> host, held |-> held, plans |-> plans]

\* The dialogs of LocationsView; "list" reads the areas again, "read" the rest.
AreaForms == {Form("locations", TRUE, {<<"create-area", "list">>}),
              Form("locations", TRUE, {<<"update-area">>}),
              Form("locations", TRUE, {<<"delete-area", "list">>})}

ZoneForms == {Form("locations", TRUE, {<<"create", "read">>}),
              Form("locations", TRUE, {<<"update">>})}

\* With or without an image, with or without a parent.
ContainerForms ==
  {Form("locations", TRUE, {<<"create", "read">>,
                            <<"create", "update", "read">>,
                            <<"create", "put-container-image", "read">>,
                            <<"create", "put-container-image", "update", "read">>}),
   Form("locations", TRUE, {<<"update", "update", "read">>, <<"update", "read">>})}

RemoveForms == {Form("locations", TRUE, {<<"update", "read">>})}

\* The form for an item in the open container is shown as long as that is open.
NestedForms == {Form("nested", TRUE, {<<"create", "read">>,
                                      <<"create", "put-item-image", "read">>})}

\* The dialog of one item, where it is edited or archived, and the one of ItemsView
\* that adds an item, which can be dismissed while it saves.
DetailForm == Form("item-details", TRUE, {<<"update">>, <<"delete-item">>})

DetailForms == {DetailForm}

ItemForms == {Form("items", FALSE, {<<"create", "read">>,
                                    <<"create", "put-item-image", "read">>})}

\* GlobalFeatureHost, over any page.
QuickForms == {Form("quick", FALSE, {<<"create">>, <<"create", "put-item-image">>}),
               Form("quick", FALSE, {<<"create">>})}

\* The sections of the settings; a form that is not held is left with its section.
\* Erasing a drive and moving the data to it are two calls.
StorageForms == {Form("storage", FALSE, {<<"update", "update">>})}

SharingForms == {Form("sharing", held, {<<"update">>}) : held \in BOOLEAN}

SystemForms == {Form("update", TRUE, {<<"update">>}), Form("ssh", FALSE, {<<"update">>})}

\* Dropbox is disconnected in a dialog; a backup is made by a button of the panel.
BackupForms == {Form("disconnect", TRUE, {<<"update">>}), Form("backup", FALSE, {<<"create">>})}

HouseholdForms == {Form("household", FALSE, {<<"create", "read">>}),
                   Form("devices", TRUE, {<<"update", "read">>})}

SettingsForms ==
  StorageForms \cup SharingForms \cup SystemForms \cup BackupForms \cup HouseholdForms

\* Without an account or a household there is one form in place of the dashboard.
\* Registering makes an account, signing in a session, unless the server refuses.
SignInForms == {Form("auth", FALSE, {<<"create">>})}

SetupForms == {Form("setup", FALSE, {<<"update", "update", "read">>}),
               Form("setup", FALSE, {<<"update">>}), Form("setup", FALSE, {<<"create">>})}

\* The dialogs of CheckoutsView keep no flag, and show none of the failures that
\* are counted for them.  A new borrower is also chosen for the session, after
\* the dialog has closed.
BorrowerForms == {Form("new-borrower", FALSE, {<<"create">>}),
                  Form("edit-borrower", FALSE, {<<"update">>})}

\* SettingsScreen of the phone asks before it revokes a device, and keeps no flag.
RevokeForms == {Form("revoke", FALSE, {<<"update", "read">>})}

\* EditItemScreen of the phone can be closed at any time; what it does when it is
\* done, App does for it, also after the screen has gone.
ItemPlans == {<<"update", "read">>, <<"update", "put-item-image", "read">>, <<"archive">>}

EditForms == {Form("edit-item", FALSE, ItemPlans)}

FormsOf(p) ==
  CASE p = "locations" -> AreaForms \cup ZoneForms \cup ContainerForms \cup RemoveForms
                            \cup NestedForms \cup DetailForms \cup QuickForms
    [] p = "items"     -> DetailForms \cup ItemForms \cup QuickForms
    [] p = "settings"  -> SettingsForms \cup QuickForms
    [] p = "checkouts" -> BorrowerForms \cup QuickForms
    [] p = "auth"      -> SignInForms
    [] p = "setup"     -> SetupForms
    [] p = "phone"     -> EditForms
    [] p = "phone-settings" -> RevokeForms

Pages == {"locations", "items", "settings", "checkouts", "auth", "setup", "phone",
          "phone-settings"}

Forms == UNION {FormsOf(p) : p \in Pages}

Unflagged == {"new-borrower", "edit-borrower", "revoke"}

\* The flag of LocationsView is also that of its form for an item in a container.
Flag(host) == IF host = "nested" THEN "locations" ELSE host

\* Requests of one kind that no property tells apart have one name.
Calls == {"create-area", "update-area", "delete-area", "list", "create", "update", "read",
          "put-item-image", "put-container-image", "archive", "delete-item"}

Hosts == {form.host : form \in Forms}

\* Forms whose subject is whatever area is selected when they are submitted.
OnSelection(form) == \E plan \in form.plans : Head(plan) \in {"update-area", "delete-area"}

\* moved says that the selection was changed under the dialog.
Dialog == [form : Forms, id : Nat, moved : BOOLEAN, subject : Areas \cup {Nothing}]

ASSUME NothingAssumption == Nothing \notin Dialog

\* What a submission has still to do, and the answer of its first call once it is
\* done; it goes on when its component has been left, or its dialog was cut off: taken
\* away or given another item while its page stays.
Job == [host : Hosts, held : BOOLEAN, id : Nat, subject : Areas \cup {Nothing},
        moved : BOOLEAN, target : Areas \cup {Nothing}, todo : Seq(Calls),
        done : BOOLEAN, answer : SUBSET Areas, left : BOOLEAN, cut : BOOLEAN]

Opened == [host : Hosts, rows : Nat, reported : Nat, strays : Nat]

\* Fault: no upload has a time limit (SubmissionsEnd).
UploadsUntimed(call) == call \notin {"put-item-image", "put-container-image"}

\* The calls that apiRequest, or uploadItemImage, aborts after a while.
Timed(call) == call # "put-container-image"
-----------------------------------------------------------------------------
Init == /\ page \in Pages
        /\ areas \in SUBSET Areas
        /\ page # "locations" => areas = {}
        /\ used = areas
        /\ listed = areas
        /\ selected \in IF areas = {} THEN {Nothing} ELSE areas
        /\ loads = {}
        /\ dialog = Nothing
        /\ jobs = {}
        /\ opened = <<>>
        /\ spent = 0

Disturb == spent < MaxDisturbances /\ spent' = spent + 1

\* setAreas and setSelectedAreaId: keep the candidate if it is listed, else take the first.
Take(list, candidate) ==
  /\ listed' = list
  /\ IF candidate \in list THEN selected' = candidate
     ELSE IF list = {} THEN selected' = Nothing
     ELSE \E first \in list : selected' = first

\* Fault: the list starts from its first area each time (ActsOnItsSubject).
NoCandidate(preferred) == Nothing

Candidate(preferred) == IF preferred # Nothing THEN preferred ELSE selected

Overtaken == {[l EXCEPT !.superseded = TRUE] : l \in loads}

\* refreshKey changes: loadAreas reads ...
Refresh ==
  /\ page = "locations"
  /\ Disturb
  /\ loads' = Overtaken \cup {[list |-> areas, superseded |-> FALSE]}
  /\ UNCHANGED <<page, areas, used, listed, selected, dialog, jobs, opened>>

\* What is under way for a dialog of this host is cut off, and loses its component if
\* that is gone.
CutOff(js, host, gone) ==
  {IF j.host = host /\ ~ j.left THEN [j EXCEPT !.cut = TRUE, !.left = gone] ELSE j : j \in js}

ShownFor(host) == dialog # Nothing /\ dialog.form.host = host

\* setOpenContainerId(null): the form for an item in the container goes with it.
Outside == IF ShownFor("nested") THEN Nothing ELSE dialog

Moved(d) == IF d # Nothing /\ OnSelection(d.form) THEN [d EXCEPT !.moved = TRUE] ELSE d

\* ... and its answer is taken, whatever has been asked or answered since.  Where the
\* selection changes no container is open any more.
ArriveList(l) ==
  /\ loads' = loads \ {l}
  /\ Take(l.list, Candidate(Nothing))
  /\ LET d == IF selected' = selected THEN dialog ELSE Outside
     IN  dialog' = IF l.superseded THEN Moved(d) ELSE d
  /\ jobs' = IF selected' = selected THEN jobs ELSE CutOff(jobs, "nested", FALSE)
  /\ UNCHANGED <<page, areas, used, opened, spent>>

\* A reload no longer lists the item whose dialog is open, which goes with its flag,
\* or the container whose form is open.
Vanish ==
  /\ page \in {"items", "locations"}
  /\ Disturb
  /\ \E host \in {"item-details", "nested"} :
       /\ ShownFor(host)
       /\ jobs' = CutOff(jobs, host, host = "item-details")
  /\ dialog' = Nothing
  /\ UNCHANGED <<page, areas, used, listed, selected, loads, opened>>

\* Somebody else adds or deletes an area.
OtherAdds(a) ==
  /\ page = "locations"
  /\ Disturb
  /\ a \notin used
  /\ used' = used \cup {a}
  /\ areas' = areas \cup {a}
  /\ UNCHANGED <<page, listed, selected, loads, dialog, jobs, opened>>

OtherDeletes(a) ==
  /\ Disturb
  /\ a \in areas
  /\ areas' = areas \ {a}
  /\ UNCHANGED <<page, used, listed, selected, loads, dialog, jobs, opened>>

\* A scan on the phone, or a search result, shows its area, and may open one of the
\* containers there, in which a form then goes on.
Reveal(a) ==
  /\ page = "locations"
  /\ Disturb
  /\ a \in areas
  /\ selected' = a
  /\ \/ /\ dialog' = Moved(Outside)
        /\ jobs' = CutOff(jobs, "nested", FALSE)
     \/ /\ a = selected
        /\ dialog' = Moved(dialog)
        /\ UNCHANGED jobs
  /\ UNCHANGED <<page, areas, used, listed, loads, opened>>

\* Or it shows an item, in the dialog that is open for another one: that keeps its
\* flag, and the fields the user has filled in.
RevealItem ==
  /\ page \in {"items", "locations"}
  /\ Disturb
  /\ ShownFor("item-details")
  /\ jobs' = CutOff(jobs, "item-details", FALSE)
  /\ UNCHANGED <<page, areas, used, listed, selected, loads, dialog, opened>>

\* The page, or the section, goes with its dialog and the state of its forms,
\* and is opened again: the user goes back, the phone scans an item for the
\* browser, or, for the item it edits, a location.
Leave ==
  /\ Disturb
  /\ dialog' = IF dialog # Nothing /\ dialog.form.host = "quick" THEN dialog ELSE Nothing
  /\ jobs' = {IF j.host = "quick" THEN j ELSE [j EXCEPT !.left = TRUE, !.cut = FALSE] : j \in jobs}
  /\ listed' = {}
  /\ selected' = Nothing
  /\ loads' = IF page = "locations" THEN {[list |-> areas, superseded |-> FALSE]} ELSE {}
  /\ UNCHANGED <<page, areas, used, opened>>

\* The user selects an area; behind a dialog nothing can be clicked.
SelectArea(a) ==
  /\ dialog = Nothing
  /\ a \in listed \ {selected}
  /\ selected' = a
  /\ UNCHANGED <<page, areas, used, listed, loads, dialog, jobs, opened, spent>>

\* Of the dialogs of the locations, all but the creation of an area need a selected one.
Offered(form) ==
  form.host \in {"locations", "nested"} /\ form.plans # {<<"create-area", "list">>} =>
    selected \in listed

Open(form) ==
  /\ dialog = Nothing
  /\ Len(opened) < MaxDialogs
  /\ Offered(form)
  /\ dialog' = [form |-> form, id |-> Len(opened) + 1, moved |-> FALSE,
                subject |-> IF OnSelection(form) THEN selected ELSE Nothing]
  /\ opened' = Append(opened, [host |-> form.host, rows |-> 0, reported |-> 0, strays |-> 0])
  /\ UNCHANGED <<page, areas, used, listed, selected, loads, jobs, spent>>

\* saving, busy, creating: the flag of a component that has been left is gone.
Saving(host) == \E j \in jobs : Flag(j.host) = Flag(host) /\ ~ j.left

\* Fault: the dialog closes whatever it is doing (HeldDialogsStay).
AlwaysDismissable == TRUE

Dismissable == dialog.form.held => ~ Saving(dialog.form.host)

Dismiss ==
  /\ dialog # Nothing
  /\ Dismissable
  /\ dialog' = Nothing
  /\ UNCHANGED <<page, areas, used, listed, selected, loads, jobs, opened, spent>>

\* Fault: the button is not disabled while a submission runs (CopiesAreReported).
AlwaysSubmittable(plan) == TRUE

\* The button is disabled while the component saves, if it keeps a flag; but the
\* phone's question whether to archive the item can be answered again.
Submittable(plan) ==
  \A j \in jobs :
    Flag(j.host) = Flag(dialog.form.host) /\ ~ j.left =>
      j.host \in Unflagged \/ (plan = <<"archive">> /\ j.todo = plan)

Submit(plan) ==
  /\ dialog # Nothing
  /\ plan \in dialog.form.plans
  /\ Submittable(plan)
  /\ opened[dialog.id].reported < MaxReports
  /\ opened[dialog.id].rows + opened[dialog.id].strays < MaxCopies
  /\ OnSelection(dialog.form) => selected \in listed
  /\ jobs' = jobs \cup {[host |-> dialog.form.host, held |-> dialog.form.held, id |-> dialog.id,
                         subject |-> dialog.subject, moved |-> dialog.moved,
                         target |-> IF OnSelection(dialog.form) THEN selected ELSE Nothing,
                         todo |-> plan, done |-> FALSE, answer |-> {}, left |-> FALSE, cut |-> FALSE]}
  /\ UNCHANGED <<page, areas, used, listed, selected, loads, dialog, opened, spent>>

Creates(call) == call \in {"create", "create-area"}

Done(j) == jobs' = (jobs \ {j}) \cup {[j EXCEPT !.done = TRUE]}

\* The backend does the next call of a submission.
Perform(j) ==
  /\ ~ j.done
  /\ LET call == Head(j.todo) IN
       /\ \/ /\ call = "create-area"
             /\ \E a \in Areas \ used :
                  /\ used' = used \cup {a}
                  /\ areas' = areas \cup {a}
                  /\ jobs' = (jobs \ {j}) \cup {[j EXCEPT !.done = TRUE, !.target = a]}
             /\ UNCHANGED loads
          \/ /\ call \in {"update-area", "delete-area"}
             /\ j.target \in areas
             /\ areas' = IF call = "delete-area" THEN areas \ {j.target} ELSE areas
             /\ Done(j)
             /\ UNCHANGED <<used, loads>>
          \/ /\ call = "list"
             /\ jobs' = (jobs \ {j}) \cup {[j EXCEPT !.done = TRUE, !.answer = areas]}
             /\ loads' = Overtaken
             /\ UNCHANGED <<areas, used>>
          \/ /\ call \notin {"create-area", "update-area", "delete-area", "list"}
             /\ Done(j)
             /\ UNCHANGED <<areas, used, loads>>
       /\ opened' = IF Creates(call) THEN [opened EXCEPT ![j.id].rows = @ + 1] ELSE opened
  /\ UNCHANGED <<page, listed, selected, dialog, spent>>

\* After the last answer the form of this host closes, whichever it is by now;
\* but the form of the household is only ever reached forward from the one for NAS.
Closes(j) ==
  /\ dialog # Nothing
  /\ dialog.form.host = j.host
  /\ j.left => j.host = "edit-item"
  /\ j.host = "setup" /\ j.todo = <<"update">> => dialog.id = j.id

\* An account or a session leads on to the setup or to the dashboard, a household
\* to the dashboard.
Follows(j) ==
  CASE j.left -> {page}
    [] j.host = "auth" -> {"setup", "items"}
    [] j.host = "setup" /\ j.todo = <<"create">> -> {"items"}
    [] OTHER -> {page}

\* The dialog of the item was taken away, and its page is still there.
Late(j) == j.host = "item-details" /\ j.left /\ j.cut

\* onUpdated and onDeleted call that page: what they show or take away is the dialog
\* of an item, whichever is open by now.
Intrude(j) ==
  LET deleted == j.todo = <<"delete-item">>
  IN  /\ jobs' = CutOff(jobs \ {j}, "item-details", deleted)
      /\ dialog' = IF deleted /\ ShownFor("item-details") THEN Nothing
                   ELSE IF ~ deleted /\ dialog = Nothing
                        THEN [form |-> DetailForm, id |-> j.id, moved |-> FALSE,
                              subject |-> Nothing]
                   ELSE dialog

\* The browser gets the answer and goes on.
Answer(j) ==
  /\ j.done
  /\ IF Head(j.todo) = "list" /\ ~ j.left
     THEN Take(j.answer, Candidate(IF j.subject = Nothing THEN j.target ELSE Nothing))
     ELSE UNCHANGED <<listed, selected>>
  /\ \/ /\ Len(j.todo) > 1
        /\ jobs' = (jobs \ {j}) \cup {[j EXCEPT !.todo = Tail(@), !.done = FALSE]}
        /\ UNCHANGED <<page, dialog>>
     \/ /\ Len(j.todo) = 1
        /\ Late(j)
        /\ Intrude(j)
        /\ UNCHANGED page
     \/ /\ Len(j.todo) = 1
        /\ ~ Late(j)
        /\ jobs' = jobs \ {j}
        /\ dialog' = IF Closes(j) THEN Nothing ELSE dialog
        /\ page' \in Follows(j)
  /\ UNCHANGED <<areas, used, loads, opened, spent>>

\* The call fails or runs out of time, before or after the backend has done it.
GiveUp(j) ==
  /\ jobs' = jobs \ {j}
  /\ opened' = [opened EXCEPT
       ![j.id].reported = IF j.left THEN @ ELSE @ + 1,
       ![j.id].strays = IF ~ j.done /\ Creates(Head(j.todo)) THEN @ + 1 ELSE @]
  /\ UNCHANGED <<page, areas, used, listed, selected, loads, dialog, spent>>

\* The backend does a creation that the browser has given up.
Stray(i) ==
  /\ opened[i].strays > 0
  /\ opened' = [opened EXCEPT ![i].strays = @ - 1, ![i].rows = @ + 1]
  /\ UNCHANGED <<page, areas, used, listed, selected, loads, dialog, jobs, spent>>

Next == \/ Refresh \/ Vanish \/ RevealItem \/ Leave \/ Dismiss
        \/ \E l \in loads : ArriveList(l)
        \/ \E a \in Areas : OtherAdds(a) \/ OtherDeletes(a) \/ Reveal(a) \/ SelectArea(a)
        \/ \E form \in FormsOf(page) : Open(form)
        \/ \E plan \in UNION {form.plans : form \in FormsOf(page)} : Submit(plan)
        \/ \E j \in jobs : Perform(j) \/ Answer(j) \/ GiveUp(j)
        \/ \E i \in DOMAIN opened : Stray(i)

Spec == Init /\ [][Next]_vars
-----------------------------------------------------------------------------
TypeOK ==
  /\ page \in Pages
  /\ areas \subseteq used
  /\ used \subseteq Areas
  /\ listed \subseteq Areas
  /\ selected \in Areas \cup {Nothing}
  /\ loads \subseteq [list : SUBSET Areas, superseded : BOOLEAN]
  /\ dialog \in Dialog \cup {Nothing}
  /\ jobs \subseteq Job
  /\ opened \in Seq(Opened)
  /\ spent \in Nat

\* One filled-in form makes one row, and one more at most for each failure it
\* has shown: the user is never the last to learn of a duplicate.  The exception
\* is the dialog for a new borrower, which keeps no flag.
CopiesAreReported ==
  \A i \in DOMAIN opened :
    opened[i].host \notin Unflagged =>
      opened[i].rows + opened[i].strays <= 1 + opened[i].reported

\* An area is renamed or deleted from a dialog that was opened for it.  The
\* exceptions are those of the code: the area was gone, or a scan or an answer
\* that was overtaken has moved the selection under the open dialog.
ActsOnItsSubject ==
  \A j \in jobs :
    j.subject # Nothing => j.target = j.subject \/ j.moved \/ j.subject \notin areas

\* A submission whose form is held finds it open at its end, so no error goes
\* unseen and no other dialog is closed in its place; unless the page was left.  The
\* exceptions are two dialogs that the code takes away: that of an item, when a reload
\* no longer lists the item, or it is shown another one by a scan or by the late answer
\* of a submission that had lost its dialog so, which may also take it away; and the
\* form for an item in a container, when that is no longer open or listed.
HeldDialogsStay ==
  \A j \in jobs : j.held /\ ~ j.left /\ ~ j.cut => dialog # Nothing /\ dialog.id = j.id

\* Time limits are the only thing the browser can rely on.
FairSpec == Spec /\ WF_vars(\E j \in jobs : Timed(Head(j.todo)) /\ GiveUp(j))

\* Every submission ends, so its form can be used again, unless it waits for
\* the upload of a container's image, which has no time limit.
SubmissionsEnd ==
  \A i \in 1..MaxDialogs :
    (\E j \in jobs : j.id = i)
      ~> (\A j \in jobs : j.id = i => Head(j.todo) = "put-container-image")
=============================================================================
