-------------------------- MODULE ClientFormsProofs --------------------------
(***************************************************************************)
(* Proofs about ClientForms, for any number of areas, of dialogs, of        *)
(* failures and of disturbances.                                            *)
(*                                                                          *)
(* Shape says which submissions may run beside each other, and to which     *)
(* dialog they belong: two of one component that has not been left, or two  *)
(* of one dialog, are copies only where the code keeps no flag.  From it    *)
(* follow HeldDialogsStay, and Counted, which is CopiesAreReported with what *)
(* a submission may still create.                                           *)
(***************************************************************************)
EXTENDS ClientForms, TLAPS

\* Only the first call of a plan creates anything.
PlanOK(plan) ==
  /\ plan \in Seq(Calls)
  /\ plan # <<>>
  /\ \A n \in 2..Len(plan) : ~ Creates(plan[n])

Keeps(plan) == \A n \in 1..Len(plan) : plan[n] # "archive"

AreaCalls == {"create-area", "update-area", "delete-area", "list"}

\* A plan without the calls that are about the list of areas.
Plain(plan) == \A n \in 1..Len(plan) : plan[n] \notin AreaCalls

\* A plan that creates nothing.
Barren(plan) == \A n \in 1..Len(plan) : ~ Creates(plan[n])

\* A form that is held keeps a flag, is on a page, and archives nothing; three
\* forms are about the list of areas; the dialog of an item creates nothing.
FormOK(form) ==
  /\ form.held \in BOOLEAN
  /\ form \in AreaForms \/ \A plan \in form.plans : Plain(plan)
  /\ \A plan \in form.plans : PlanOK(plan)
  /\ form.held => /\ form.host \notin Unflagged \cup {"quick", "edit-item"}
                  /\ \A plan \in form.plans : Keeps(plan)
  /\ form.host = "item-details" => form.held /\ \A plan \in form.plans : Barren(plan)

\* A plan of one call.
LEMMA OneCall ==
  ASSUME NEW a \in Calls
  PROVE  /\ PlanOK(<<a>>)
         /\ "archive" \notin {a} => Keeps(<<a>>)
         /\ {a} \cap AreaCalls = {} => Plain(<<a>>)
<1>1. PlanOK(<<a>>)
  BY DEF PlanOK
<1>2. "archive" \notin {a} => Keeps(<<a>>)
  BY DEF Keeps
<1>3. {a} \cap AreaCalls = {} => Plain(<<a>>)
  BY DEF Plain
<1>4. QED
  BY <1>1, <1>2, <1>3

\* A plan of two calls.
LEMMA TwoCalls ==
  ASSUME NEW a \in Calls, NEW b \in Calls,
         ~ Creates(b)
  PROVE  /\ PlanOK(<<a, b>>)
         /\ "archive" \notin {a, b} => Keeps(<<a, b>>)
         /\ {a, b} \cap AreaCalls = {} => Plain(<<a, b>>)
<1>1. PlanOK(<<a, b>>)
  BY DEF PlanOK
<1>2. "archive" \notin {a, b} => Keeps(<<a, b>>)
  BY DEF Keeps
<1>3. {a, b} \cap AreaCalls = {} => Plain(<<a, b>>)
  BY DEF Plain
<1>4. QED
  BY <1>1, <1>2, <1>3

\* A plan of three calls.
LEMMA ThreeCalls ==
  ASSUME NEW a \in Calls, NEW b \in Calls, NEW c \in Calls,
         ~ Creates(b), ~ Creates(c)
  PROVE  /\ PlanOK(<<a, b, c>>)
         /\ "archive" \notin {a, b, c} => Keeps(<<a, b, c>>)
         /\ {a, b, c} \cap AreaCalls = {} => Plain(<<a, b, c>>)
<1>1. PlanOK(<<a, b, c>>)
  BY DEF PlanOK
<1>2. "archive" \notin {a, b, c} => Keeps(<<a, b, c>>)
  BY DEF Keeps
<1>3. {a, b, c} \cap AreaCalls = {} => Plain(<<a, b, c>>)
  BY DEF Plain
<1>4. QED
  BY <1>1, <1>2, <1>3

\* A plan of four calls.
LEMMA FourCalls ==
  ASSUME NEW a \in Calls, NEW b \in Calls, NEW c \in Calls, NEW d \in Calls,
         ~ Creates(b), ~ Creates(c), ~ Creates(d)
  PROVE  /\ PlanOK(<<a, b, c, d>>)
         /\ "archive" \notin {a, b, c, d} => Keeps(<<a, b, c, d>>)
         /\ {a, b, c, d} \cap AreaCalls = {} => Plain(<<a, b, c, d>>)
<1>1. PlanOK(<<a, b, c, d>>)
  BY DEF PlanOK
<1>2. "archive" \notin {a, b, c, d} => Keeps(<<a, b, c, d>>)
  BY DEF Keeps
<1>3. {a, b, c, d} \cap AreaCalls = {} => Plain(<<a, b, c, d>>)
  BY DEF Plain
<1>4. QED
  BY <1>1, <1>2, <1>3

\* A form is as good as its plans.
LEMMA FormIsOK ==
  ASSUME NEW host, NEW held \in BOOLEAN, NEW plans,
         \A plan \in plans : PlanOK(plan) /\ Plain(plan),
         held => /\ host \notin Unflagged \cup {"quick", "edit-item"}
                 /\ \A plan \in plans : Keeps(plan),
         host = "item-details" => held /\ \A plan \in plans : Barren(plan)
  PROVE  FormOK(Form(host, held, plans))
BY DEF Form, FormOK

\* The dialogs of the locations.
LEMMA LocationFormsOK ==
  \A form \in AreaForms \cup ZoneForms \cup ContainerForms \cup RemoveForms \cup NestedForms :
    FormOK(form)
<1>1. \A host \in {"locations", "nested"} : host \notin Unflagged \cup {"quick", "edit-item"}
  BY DEF Unflagged
<1>2. \A form \in AreaForms : FormOK(form)
  <2>1. \A plan \in {<<"create-area", "list">>, <<"update-area">>, <<"delete-area", "list">>} :
          PlanOK(plan) /\ Keeps(plan)
    BY OneCall, TwoCalls DEF Calls, Creates, AreaCalls
  <2>2. \A form \in AreaForms :
          /\ form.host = "locations" /\ form.held = TRUE
          /\ form.plans \subseteq {<<"create-area", "list">>, <<"update-area">>,
                                   <<"delete-area", "list">>}
    BY DEF AreaForms, Form
  <2>3. QED
    BY <1>1, <2>1, <2>2 DEF FormOK
<1>3. \A form \in ZoneForms : FormOK(form)
  <2>1. \A plan \in {<<"create", "read">>, <<"update">>} :
           PlanOK(plan) /\ Plain(plan) /\ Keeps(plan)
    BY OneCall, TwoCalls DEF Calls, Creates, AreaCalls
  <2>2. QED
    BY <1>1, <2>1, FormIsOK DEF ZoneForms
<1>4. \A form \in ContainerForms : FormOK(form)
  <2>1. \A plan \in {<<"create", "read">>, <<"update", "read">>} :
           PlanOK(plan) /\ Plain(plan) /\ Keeps(plan)
    BY TwoCalls DEF Calls, Creates, AreaCalls
  <2>2. \A plan \in {<<"create", "update", "read">>, <<"create", "put-container-image", "read">>,
                     <<"update", "update", "read">>} : PlanOK(plan) /\ Plain(plan) /\ Keeps(plan)
    <3> DEFINE some == {"create", "update", "put-container-image", "read"}
    <3>1. some \subseteq Calls /\ some \cap AreaCalls = {} /\ "archive" \notin some
      BY DEF Calls, AreaCalls
    <3>2. ~ Creates("update") /\ ~ Creates("put-container-image") /\ ~ Creates("read")
      BY DEF Creates
    <3>3. ASSUME NEW a \in some, NEW b \in some, ~ Creates(b)
          PROVE  /\ PlanOK(<<a, b, "read">>)
                 /\ Plain(<<a, b, "read">>)
                 /\ Keeps(<<a, b, "read">>)
      <4>1. a \in Calls /\ b \in Calls /\ "read" \in Calls /\ ~ Creates("read")
        BY <3>1, <3>2
      <4>2. {a, b, "read"} \cap AreaCalls = {} /\ "archive" \notin {a, b, "read"}
        BY <3>1
      <4>3. QED
        BY <3>3, <4>1, <4>2, ThreeCalls
    <3>4. QED
      BY <3>2, <3>3
  <2>3. \A plan \in {<<"create", "put-container-image", "update", "read">>} :
          PlanOK(plan) /\ Plain(plan) /\ Keeps(plan)
    <3>1. /\ {"create", "put-container-image", "update", "read"} \subseteq Calls
          /\ ~ Creates("put-container-image") /\ ~ Creates("update") /\ ~ Creates("read")
      BY DEF Calls, Creates
    <3>2. {"create", "put-container-image", "update", "read"} \cap AreaCalls = {}
      BY DEF AreaCalls
    <3>3. "archive" \notin {"create", "put-container-image", "update", "read"}
      OBVIOUS
    <3>4. QED
      BY <3>1, <3>2, <3>3, FourCalls
  <2>4. QED
    BY <1>1, <2>1, <2>2, <2>3, FormIsOK DEF ContainerForms
<1>5. /\ \A form \in RemoveForms : FormOK(form)
      /\ \A form \in NestedForms : FormOK(form)
  <2>1. \A plan \in {<<"update", "read">>, <<"create", "read">>} :
           PlanOK(plan) /\ Plain(plan) /\ Keeps(plan)
    BY TwoCalls DEF Calls, Creates, AreaCalls
  <2>2. \A plan \in {<<"create", "put-item-image", "read">>} :
           PlanOK(plan) /\ Plain(plan) /\ Keeps(plan)
    BY ThreeCalls DEF Calls, Creates, AreaCalls
  <2>3. \A form \in RemoveForms : FormOK(form)
    BY <1>1, <2>1, FormIsOK DEF RemoveForms
  <2>4. \A form \in NestedForms : FormOK(form)
    BY <1>1, <2>1, <2>2, FormIsOK DEF NestedForms
  <2>5. QED
    BY <2>3, <2>4
<1>6. QED
  BY <1>2, <1>3, <1>4, <1>5

\* The dialogs of items and the quick dialogs.
LEMMA ItemFormsOK == \A form \in DetailForms \cup ItemForms \cup QuickForms : FormOK(form)
<1>1. \A plan \in {<<"update">>, <<"create">>} : PlanOK(plan) /\ Plain(plan) /\ Keeps(plan)
  BY OneCall DEF Calls, Creates, AreaCalls
<1>2. \A plan \in {<<"create", "read">>, <<"create", "put-item-image">>} :
         PlanOK(plan) /\ Plain(plan)
  BY TwoCalls DEF Calls, Creates, AreaCalls
<1>3. \A plan \in {<<"create", "put-item-image", "read">>} : PlanOK(plan) /\ Plain(plan)
  BY ThreeCalls DEF Calls, Creates, AreaCalls
<1>4. "item-details" \notin Unflagged \cup {"quick", "edit-item"}
  BY DEF Unflagged
<1>5. \A form \in DetailForms : FormOK(form)
  <2>1. \A plan \in {<<"update">>, <<"delete-item">>} :
           PlanOK(plan) /\ Plain(plan) /\ Keeps(plan)
    BY OneCall DEF Calls, Creates, AreaCalls
  <2>2. \A plan \in {<<"update">>, <<"delete-item">>} : Barren(plan)
    BY DEF Barren, Creates
  <2>3. QED
    BY <1>4, <2>1, <2>2, FormIsOK DEF DetailForms, DetailForm
<1>6. \A form \in ItemForms : FormOK(form)
  BY <1>2, <1>3, FormIsOK DEF ItemForms
<1>7. \A form \in QuickForms : FormOK(form)
  BY <1>1, <1>2, FormIsOK DEF QuickForms
<1>8. QED
  BY <1>5, <1>6, <1>7

\* The sections of the settings.
LEMMA SettingsFormsOK == \A form \in SettingsForms : FormOK(form)
<1>1. \A plan \in {<<"update">>, <<"create">>} : PlanOK(plan) /\ Plain(plan) /\ Keeps(plan)
  BY OneCall DEF Calls, Creates, AreaCalls
<1>2. \A plan \in {<<"update", "update">>, <<"create", "read">>, <<"update", "read">>} :
        PlanOK(plan) /\ Plain(plan) /\ Keeps(plan)
  BY TwoCalls DEF Calls, Creates, AreaCalls
<1>3. \A host \in {"sharing", "update", "disconnect", "devices"} :
        host \notin Unflagged \cup {"quick", "edit-item"}
  BY DEF Unflagged
<1>4. \A form \in StorageForms : FormOK(form)
  BY <1>2, FormIsOK DEF StorageForms
<1>5. \A form \in HouseholdForms : FormOK(form)
  BY <1>2, <1>3, FormIsOK DEF HouseholdForms
<1>6. \A form \in SharingForms : FormOK(form)
  BY <1>1, <1>3, FormIsOK DEF SharingForms
<1>7. \A form \in SystemForms : FormOK(form)
  BY <1>1, <1>3, FormIsOK DEF SystemForms
<1>8. \A form \in BackupForms : FormOK(form)
  BY <1>1, <1>3, FormIsOK DEF BackupForms
<1>9. QED
  BY <1>4, <1>5, <1>6, <1>7, <1>8 DEF SettingsForms

\* The forms before the dashboard, those of the borrowers and those of the phone.
LEMMA LooseFormsOK ==
  \A form \in SignInForms \cup SetupForms \cup BorrowerForms \cup RevokeForms \cup EditForms :
    FormOK(form)
<1>1. \A plan \in {<<"update">>, <<"create">>, <<"archive">>} : PlanOK(plan) /\ Plain(plan)
  BY OneCall DEF Calls, Creates, AreaCalls
<1>2. \A plan \in {<<"update", "read">>} : PlanOK(plan) /\ Plain(plan)
  BY TwoCalls DEF Calls, Creates, AreaCalls
<1>3. \A plan \in {<<"update", "update", "read">>, <<"update", "put-item-image", "read">>} :
        PlanOK(plan) /\ Plain(plan)
  BY ThreeCalls DEF Calls, Creates, AreaCalls
<1>4. \A form \in SignInForms \cup SetupForms : FormOK(form)
  BY <1>1, <1>3, FormIsOK DEF SignInForms, SetupForms
<1>5. \A form \in BorrowerForms \cup RevokeForms : FormOK(form)
  BY <1>1, <1>2, FormIsOK DEF BorrowerForms, RevokeForms
<1>6. \A form \in EditForms : FormOK(form)
  BY <1>1, <1>2, <1>3, FormIsOK DEF EditForms, ItemPlans
<1>7. QED
  BY <1>4, <1>5, <1>6

\* The forms of all pages.
LEMMA FormsOK == \A p \in Pages : \A form \in FormsOf(p) : FormOK(form)
BY LocationFormsOK, ItemFormsOK, SettingsFormsOK, LooseFormsOK DEF Pages, FormsOf
-----------------------------------------------------------------------------
(* Which submissions there are.                                            *)

Archives(j) == j.todo = <<"archive">>

\* Two submissions that the code lets run beside each other.
Beside(j, k) == j.host \in Unflagged \/ (Archives(j) /\ Archives(k))

JobsOK ==
  \A j \in jobs :
    /\ PlanOK(j.todo)
    /\ j.id \in 1..Len(opened)
    /\ j.host = opened[j.id].host
    /\ j.held => j.host \notin Unflagged \cup {"quick", "edit-item"} /\ Keeps(j.todo)
    /\ j.host = "item-details" => j.held /\ Barren(j.todo)
    /\ j.cut => j.host \in {"nested", "item-details"}

\* The dialog and its own submissions agree on the form.
DialogOK ==
  dialog # Nothing =>
    /\ dialog.id \in 1..Len(opened)
    /\ dialog.form.host = opened[dialog.id].host
    /\ \A j \in jobs : j.id = dialog.id => j.held = dialog.form.held /\ ~ j.left

OneSaves ==
  \A j, k \in jobs :
    Flag(j.host) = Flag(k.host) /\ ~ j.left /\ ~ k.left => j = k \/ Beside(j, k)

OnePerDialog == \A j, k \in jobs : j.id = k.id => j = k \/ Beside(j, k)

Parts == JobsOK /\ DialogOK /\ OneSaves /\ OnePerDialog

Shape == TypeOK /\ Parts

\* Nothing has been opened at first.
LEMMA InitShape == Init => Shape
<1> SUFFICES ASSUME Init PROVE Shape
  OBVIOUS
<1>1. opened \in Seq(Opened)
  BY DEF Init
<1>2. TypeOK
  BY <1>1 DEF Init, TypeOK
<1>3. Parts
  BY DEF Init, Parts, JobsOK, DialogOK, OneSaves, OnePerDialog
<1>4. QED
  BY <1>2, <1>3 DEF Shape

\* The dialog that is open has a form, and is not Nothing.
LEMMA DialogTyped ==
  ASSUME TypeOK, dialog # Nothing
  PROVE  /\ dialog \in Dialog
         /\ dialog.form \in Forms
         /\ dialog.form.host \in Hosts
         /\ dialog.id \in Nat
         /\ dialog.moved \in BOOLEAN
         /\ dialog.subject \in Areas \cup {Nothing}
         /\ FormOK(dialog.form)
<1>1. dialog \in Dialog
  BY DEF TypeOK
<1>2. dialog.form \in Forms
  BY <1>1 DEF Dialog
<1>3. FormOK(dialog.form)
  BY <1>2, FormsOK DEF Forms
<1>4. QED
  BY <1>1, <1>2, <1>3 DEF Dialog, Hosts

\* A dialog under which the selection moves is still the same dialog.
LEMMA MovedIsTheSame ==
  ASSUME TypeOK
  PROVE  /\ Moved(dialog) \in Dialog \cup {Nothing}
         /\ Moved(dialog) = Nothing <=> dialog = Nothing
         /\ dialog # Nothing => Moved(dialog).id = dialog.id /\ Moved(dialog).form = dialog.form
<1>1. CASE dialog = Nothing
  BY <1>1 DEF Moved
<1>2. CASE dialog # Nothing
  <2>1. /\ dialog \in Dialog
        /\ [dialog EXCEPT !.moved = TRUE] \in Dialog
    BY <1>2, DialogTyped DEF Dialog
  <2>2. [dialog EXCEPT !.moved = TRUE] # Nothing
    BY <2>1, NothingAssumption
  <2>3. QED
    BY <1>2, <2>1, <2>2 DEF Moved, Dialog
<1>3. QED
  BY <1>1, <1>2

\* What a step may do to one of the opened dialogs.
LEMMA OpenedChanges ==
  ASSUME opened \in Seq(Opened), NEW i \in 1..Len(opened), NEW r \in Opened,
         r.host = opened[i].host
  PROVE  LET new == [opened EXCEPT ![i] = r] IN
         /\ new \in Seq(Opened)
         /\ Len(new) = Len(opened)
         /\ new[i] = r
         /\ \A n \in 1..Len(opened) : n # i => new[n] = opened[n]
         /\ \A n \in 1..Len(opened) : new[n].host = opened[n].host
OBVIOUS

\* Take keeps the selection among the areas.
LEMMA TakeTyped ==
  ASSUME TypeOK, NEW list \in SUBSET Areas, NEW c, Take(list, c)
  PROVE  listed' \subseteq Areas /\ selected' \in Areas \cup {Nothing}
BY DEF Take

\* The marks of a submission are all that changes; one that is left stays so, and one
\* that is cut off stays so or is left.
SameWork(k, j) ==
  /\ k \in Job
  /\ \A field \in {"host", "held", "id", "subject", "moved", "target", "todo", "done", "answer"} :
       k[field] = j[field]
  /\ j.left => k.left
  /\ j.cut => k.cut \/ k.left
  /\ k.cut => j.cut \/ j.host \in {"nested", "item-details"}

\* A step that marks some submissions, and ends the others.
Marks(f, js) ==
  /\ f \in [js -> Job]
  /\ jobs' = {f[j] : j \in js}
  /\ \A j \in js : SameWork(f[j], j)

\* The fields of a submission that is marked.
LEMMA SameFields ==
  ASSUME NEW k, NEW j, SameWork(k, j)
  PROVE  /\ k \in Job
         /\ k.host = j.host /\ k.held = j.held /\ k.id = j.id /\ k.subject = j.subject
         /\ k.moved = j.moved /\ k.target = j.target /\ k.todo = j.todo /\ k.done = j.done
         /\ k.answer = j.answer
BY DEF SameWork, Job

\* One submission that is cut off.
Cut(j, host, gone) ==
  IF j.host = host /\ ~ j.left THEN [j EXCEPT !.cut = TRUE, !.left = gone] ELSE j

\* It is the same but for its marks.
LEMMA CutTyped ==
  ASSUME NEW j \in Job, NEW host \in {"nested", "item-details"}, NEW gone \in BOOLEAN
  PROVE  LET k == Cut(j, host, gone) IN
         /\ SameWork(k, j)
         /\ k.left = (j.left \/ (j.host = host /\ gone))
         /\ j.host = host => k.cut \/ k.left
<1>1. CASE j.host = host /\ ~ j.left
  <2>1. LET k == [j EXCEPT !.cut = TRUE, !.left = gone] IN
        /\ k \in Job
        /\ k.host = j.host /\ k.held = j.held /\ k.id = j.id /\ k.subject = j.subject
        /\ k.moved = j.moved /\ k.target = j.target /\ k.todo = j.todo /\ k.done = j.done
        /\ k.answer = j.answer /\ k.cut /\ k.left = gone
    BY DEF Job
  <2>2. QED
    BY <1>1, <2>1 DEF Cut, SameWork
<1>2. CASE ~ (j.host = host /\ ~ j.left)
  BY <1>2 DEF Cut, SameWork, Job
<1>3. QED
  BY <1>1, <1>2

\* Some submissions are cut off.
LEMMA CutMarks ==
  ASSUME TypeOK, NEW js \in SUBSET jobs, NEW host \in {"nested", "item-details"},
         NEW gone \in BOOLEAN, jobs' = CutOff(js, host, gone)
  PROVE  \E f : /\ Marks(f, js)
                /\ \A j \in js : /\ f[j].left = (j.left \/ (j.host = host /\ gone))
                                 /\ j.host = host => f[j].cut \/ f[j].left
<1> DEFINE f == [j \in js |-> Cut(j, host, gone)]
<1>1. \A j \in js : /\ f[j] = Cut(j, host, gone)
                    /\ j \in Job
  BY DEF TypeOK
<1>2. \A j \in js : /\ SameWork(f[j], j)
                    /\ f[j].left = (j.left \/ (j.host = host /\ gone))
                    /\ j.host = host => f[j].cut \/ f[j].left
  BY <1>1, CutTyped
<1>3. f \in [js -> Job]
  BY <1>1, <1>2 DEF SameWork
<1>4. jobs' = {f[j] : j \in js}
  BY <1>1 DEF CutOff, Cut
<1>5. Marks(f, js)
  BY <1>2, <1>3, <1>4 DEF Marks
<1> HIDE DEF f
<1>6. QED
  BY <1>2, <1>5

\* Nothing is marked.
LEMMA NoMarks ==
  ASSUME TypeOK, UNCHANGED jobs
  PROVE  \E f : Marks(f, jobs) /\ \A j \in jobs : f[j].left = j.left
<1> DEFINE f == [j \in jobs |-> j]
<1>1. f \in [jobs -> Job] /\ jobs' = {f[j] : j \in jobs} /\ \A j \in jobs : f[j] = j /\ j \in Job
  BY DEF TypeOK
<1> HIDE DEF f
<1>2. \A j \in jobs : SameWork(f[j], j)
  BY <1>1 DEF SameWork
<1>3. QED
  BY <1>1, <1>2 DEF Marks

\* Submissions that are marked or have ended run beside no more than before.
LEMMA MarksParts ==
  ASSUME Shape, NEW js \in SUBSET jobs, NEW f, Marks(f, js), UNCHANGED opened, DialogOK'
  PROVE  Parts'
<1>1. \A k \in jobs' : \E j \in js : k = f[j] /\ SameWork(k, j)
  BY DEF Marks
<1>2. JobsOK'
  <2>1. ASSUME NEW k \in jobs'
        PROVE  /\ PlanOK(k.todo)
               /\ k.id \in 1..Len(opened)
               /\ k.host = opened[k.id].host
               /\ k.held => k.host \notin Unflagged \cup {"quick", "edit-item"} /\ Keeps(k.todo)
               /\ k.host = "item-details" => k.held /\ Barren(k.todo)
               /\ k.cut => k.host \in {"nested", "item-details"}
    <3>1. PICK j \in js : SameWork(k, j)
      BY <1>1
    <3>2. k.host = j.host /\ k.held = j.held /\ k.id = j.id /\ k.todo = j.todo
      BY <3>1, SameFields
    <3>3. k.cut => j.cut \/ j.host \in {"nested", "item-details"}
      BY <3>1 DEF SameWork
    <3>4. QED
      BY <3>2, <3>3 DEF Shape, Parts, JobsOK
  <2>2. QED
    BY <2>1 DEF JobsOK
<1>3. OneSaves' /\ OnePerDialog'
  <2>1. ASSUME NEW k \in jobs', NEW m \in jobs',
               \/ Flag(k.host) = Flag(m.host) /\ ~ k.left /\ ~ m.left
               \/ k.id = m.id
        PROVE  k = m \/ Beside(k, m)
    <3>1. PICK j \in js : k = f[j] /\ SameWork(k, j)
      BY <1>1
    <3>2. PICK i \in js : m = f[i] /\ SameWork(m, i)
      BY <1>1
    <3>3. /\ k.host = j.host /\ k.id = j.id /\ k.todo = j.todo /\ (j.left => k.left)
          /\ m.host = i.host /\ m.id = i.id /\ m.todo = i.todo /\ (i.left => m.left)
      BY <3>1, <3>2, SameFields DEF SameWork
    <3>4. j = i \/ Beside(j, i)
      BY <2>1, <3>3 DEF Shape, Parts, OneSaves, OnePerDialog
    <3>5. QED
      BY <3>1, <3>2, <3>3, <3>4 DEF Beside, Archives
  <2>2. QED
    BY <2>1 DEF OneSaves, OnePerDialog, Beside, Archives
<1>4. QED
  BY <1>2, <1>3 DEF Parts

SameDialog == /\ dialog # Nothing
              /\ dialog'.id = dialog.id
              /\ dialog'.form = dialog.form

\* What happens around the dialog and its submissions.
Around == \/ Refresh \/ Vanish \/ RevealItem
          \/ \E l \in loads : ArriveList(l)
          \/ \E a \in Areas : OtherAdds(a) \/ OtherDeletes(a) \/ Reveal(a) \/ SelectArea(a)

\* The dialog stays, or its submissions are cut off.
Spared(f) ==
  /\ Marks(f, jobs)
  /\ dialog' # Nothing => SameDialog /\ \A j \in jobs : f[j].left = j.left
  /\ dialog' = Nothing /\ dialog # Nothing =>
       \A j \in jobs : j.host = dialog.form.host => f[j].cut \/ f[j].left

\* The dialog stays, under whatever area is selected now.
LEMMA StaysSpared ==
  ASSUME TypeOK, dialog' = dialog \/ dialog' = Moved(dialog), UNCHANGED jobs
  PROVE  dialog' \in Dialog \cup {Nothing} /\ \E f : Spared(f)
<1>1. PICK f : Marks(f, jobs) /\ \A j \in jobs : f[j].left = j.left
  BY NoMarks
<1>2. /\ dialog' \in Dialog \cup {Nothing}
      /\ dialog' = Nothing <=> dialog = Nothing
      /\ dialog # Nothing => SameDialog
  BY MovedIsTheSame DEF TypeOK, SameDialog
<1>3. Spared(f)
  BY <1>1, <1>2 DEF Spared
<1>4. QED
  BY <1>2, <1>3

\* Or it was the form for an item in a container that is no longer open.
LEMMA OutsideSpared ==
  ASSUME TypeOK, dialog' = Outside \/ dialog' = Moved(Outside),
         jobs' = CutOff(jobs, "nested", FALSE)
  PROVE  dialog' \in Dialog \cup {Nothing} /\ \E f : Spared(f)
<1>1. PICK f : /\ Marks(f, jobs)
               /\ \A j \in jobs : /\ f[j].left = (j.left \/ (j.host = "nested" /\ FALSE))
                                  /\ j.host = "nested" => f[j].cut \/ f[j].left
  BY CutMarks
<1>2. Moved(Nothing) = Nothing
  BY DEF Moved
<1>3. CASE ShownFor("nested")
  <2>1. dialog' = Nothing /\ dialog.form.host = "nested"
    BY <1>2, <1>3 DEF Outside, ShownFor
  <2>2. Spared(f)
    BY <1>1, <2>1 DEF Spared
  <2>3. QED
    BY <2>1, <2>2
<1>4. CASE ~ ShownFor("nested")
  <2>1. dialog' = dialog \/ dialog' = Moved(dialog)
    BY <1>4 DEF Outside
  <2>2. /\ dialog' \in Dialog \cup {Nothing}
        /\ dialog' = Nothing <=> dialog = Nothing
        /\ dialog # Nothing => SameDialog
    BY <2>1, MovedIsTheSame DEF TypeOK, SameDialog
  <2>3. \A j \in jobs : f[j].left = (j.left \/ FALSE)
    BY <1>1
  <2>4. \A j \in jobs : f[j].left = j.left
    BY <1>1, <2>3 DEF TypeOK, Job
  <2>5. Spared(f)
    BY <1>1, <2>2, <2>4 DEF Spared
  <2>6. QED
    BY <2>2, <2>5
<1>5. QED
  BY <1>3, <1>4

\* Marked submissions are submissions.
LEMMA MarksTyped ==
  ASSUME NEW f, Spared(f)
  PROVE  jobs' \subseteq Job
BY DEF Spared, Marks

\* The list, the selection, scans and the other users change nothing but what they are,
\* and the dialogs that the code takes away.
LEMMA AroundTyped ==
  ASSUME TypeOK, Around
  PROVE  TypeOK' /\ UNCHANGED opened /\ \E f : Spared(f)
<1> DEFINE Goal == TypeOK' /\ UNCHANGED opened /\ \E f : Spared(f)
<1>1. CASE Refresh
  <2>1. Overtaken \subseteq [list : SUBSET Areas, superseded : BOOLEAN]
    BY DEF TypeOK, Overtaken
  <2>2. [list |-> areas, superseded |-> FALSE] \in [list : SUBSET Areas, superseded : BOOLEAN]
    BY DEF TypeOK
  <2>3. loads' \subseteq [list : SUBSET Areas, superseded : BOOLEAN]
    BY <1>1, <2>1, <2>2 DEF Refresh
  <2>4. UNCHANGED <<page, areas, used, listed, selected, dialog, jobs, opened>> /\ spent' \in Nat
    BY <1>1 DEF Refresh, Disturb, TypeOK
  <2>5. TypeOK'
    BY <2>3, <2>4 DEF TypeOK
  <2>6. QED
    BY <2>4, <2>5, StaysSpared
<1>2. ASSUME NEW l \in loads, ArriveList(l)
      PROVE  Goal
  <2>1. l.list \in SUBSET Areas
    BY DEF TypeOK
  <2>2. listed' \subseteq Areas /\ selected' \in Areas \cup {Nothing}
    BY <1>2, <2>1, TakeTyped DEF ArriveList
  <2>3. dialog' \in Dialog \cup {Nothing} /\ \E f : Spared(f)
    <3>1. CASE selected' = selected
      <4>1. UNCHANGED jobs /\ (dialog' = dialog \/ dialog' = Moved(dialog))
        BY <1>2, <3>1 DEF ArriveList
      <4>2. QED
        BY <4>1, StaysSpared
    <3>2. CASE selected' # selected
      <4>1. /\ jobs' = CutOff(jobs, "nested", FALSE)
            /\ dialog' = Outside \/ dialog' = Moved(Outside)
        BY <1>2, <3>2 DEF ArriveList
      <4>2. QED
        BY <4>1, OutsideSpared
    <3>3. QED
      BY <3>1, <3>2
  <2>4. jobs' \subseteq Job
    BY <2>3, MarksTyped
  <2>5. QED
    BY <1>2, <2>2, <2>3, <2>4 DEF ArriveList, TypeOK
<1>3. CASE Vanish
  <2>1. PICK host \in {"item-details", "nested"} :
          ShownFor(host) /\ jobs' = CutOff(jobs, host, host = "item-details")
    BY <1>3 DEF Vanish
  <2>2. PICK f : /\ Marks(f, jobs)
                 /\ \A j \in jobs : j.host = host => f[j].cut \/ f[j].left
    <3>1. PICK gone \in BOOLEAN : gone = (host = "item-details")
      OBVIOUS
    <3>2. jobs' = CutOff(jobs, host, gone) /\ jobs \in SUBSET jobs
      BY <2>1, <3>1
    <3>3. QED
      BY <3>2, CutMarks
  <2>3. dialog' = Nothing /\ dialog.form.host = host
    BY <1>3, <2>1 DEF Vanish, ShownFor
  <2>4. Spared(f)
    BY <2>2, <2>3 DEF Spared
  <2>5. jobs' \subseteq Job
    BY <2>4, MarksTyped
  <2>6. QED
    BY <1>3, <2>3, <2>4, <2>5 DEF Vanish, Disturb, TypeOK
<1>4. CASE RevealItem
  <2>1. PICK f : /\ Marks(f, jobs)
                 /\ \A j \in jobs :
                      /\ f[j].left = (j.left \/ (j.host = "item-details" /\ FALSE))
                      /\ j.host = "item-details" => f[j].cut \/ f[j].left
    <3>1. jobs' = CutOff(jobs, "item-details", FALSE) /\ jobs \in SUBSET jobs
      BY <1>4 DEF RevealItem
    <3>2. QED
      BY <3>1, CutMarks
  <2>2. \A j \in jobs : f[j].left = j.left
    BY <2>1 DEF TypeOK, Job
  <2>3. Spared(f)
    BY <1>4, <2>1, <2>2 DEF Spared, RevealItem, ShownFor, SameDialog
  <2>4. jobs' \subseteq Job
    BY <2>3, MarksTyped
  <2>5. /\ UNCHANGED <<page, areas, used, listed, selected, loads, dialog, opened>>
        /\ spent' \in Nat
    BY <1>4 DEF RevealItem, Disturb, TypeOK
  <2>6. TypeOK'
    BY <2>4, <2>5 DEF TypeOK
  <2>7. QED
    BY <2>3, <2>5, <2>6
<1>5. ASSUME NEW a \in Areas, OtherAdds(a)
      PROVE  Goal
  BY <1>5, StaysSpared DEF OtherAdds, Disturb, TypeOK
<1>6. ASSUME NEW a \in Areas, OtherDeletes(a)
      PROVE  Goal
  BY <1>6, StaysSpared DEF OtherDeletes, Disturb, TypeOK
<1>7. ASSUME NEW a \in Areas, Reveal(a)
      PROVE  Goal
  <2>1. dialog' \in Dialog \cup {Nothing} /\ \E f : Spared(f)
    BY <1>7, StaysSpared, OutsideSpared DEF Reveal
  <2>2. jobs' \subseteq Job
    BY <2>1, MarksTyped
  <2>3. QED
    BY <1>7, <2>1, <2>2 DEF Reveal, Disturb, TypeOK
<1>8. ASSUME NEW a \in Areas, SelectArea(a)
      PROVE  Goal
  BY <1>8, StaysSpared DEF SelectArea, TypeOK
<1>9. QED
  BY <1>1, <1>2, <1>3, <1>4, <1>5, <1>6, <1>7, <1>8 DEF Around

\* The form of a dialog's submission is the form of the dialog.
LEMMA OwnForm ==
  ASSUME Shape, dialog # Nothing, NEW j \in jobs, j.id = dialog.id
  PROVE  j.host = dialog.form.host /\ j.held = dialog.form.held /\ ~ j.left
BY DEF Shape, Parts, JobsOK, DialogOK

\* The forms and their submissions keep their shape.
LEMMA AroundShape ==
  ASSUME Shape, Around
  PROVE  Shape'
<1>1. TypeOK' /\ UNCHANGED opened
  BY AroundTyped DEF Shape
<1>2. PICK f : Spared(f)
  BY AroundTyped DEF Shape
<1>3. DialogOK'
  <2>1. SUFFICES ASSUME dialog' # Nothing PROVE DialogOK'
    BY DEF DialogOK
  <2>2. SameDialog /\ Marks(f, jobs) /\ \A j \in jobs : f[j].left = j.left
    BY <1>2, <2>1 DEF Spared
  <2>3. /\ dialog.id \in 1..Len(opened)
        /\ dialog.form.host = opened[dialog.id].host
        /\ \A j \in jobs : j.id = dialog.id => j.held = dialog.form.held /\ ~ j.left
    BY <2>2 DEF Shape, Parts, DialogOK, SameDialog
  <2>4. \A k \in jobs' : k.id = dialog.id => k.held = dialog.form.held /\ ~ k.left
    <3>1. SUFFICES ASSUME NEW k \in jobs', k.id = dialog.id
                   PROVE  k.held = dialog.form.held /\ ~ k.left
      OBVIOUS
    <3>2. PICK j \in jobs : k = f[j] /\ SameWork(k, j)
      BY <2>2 DEF Marks
    <3>3. k.id = j.id /\ k.held = j.held
      BY <3>2, SameFields
    <3>4. QED
      BY <2>2, <2>3, <3>1, <3>2, <3>3
  <2>5. QED
    BY <1>1, <2>2, <2>3, <2>4 DEF DialogOK, SameDialog
<1>4. Parts'
  BY <1>1, <1>2, <1>3, MarksParts DEF Spared
<1>5. QED
  BY <1>1, <1>4 DEF Shape

\* A dialog goes, and its submissions stay.
LEMMA DismissShape ==
  ASSUME Shape, Dismiss
  PROVE  Shape'
<1>1. TypeOK'
  BY DEF Shape, Dismiss, TypeOK
<1>2. JobsOK' /\ OneSaves' /\ OnePerDialog'
  BY DEF Dismiss, Shape, Parts, JobsOK, OneSaves, OnePerDialog, Beside, Archives
<1>3. DialogOK'
  BY DEF Dismiss, DialogOK
<1>4. QED
  BY <1>1, <1>2, <1>3 DEF Shape, Parts

\* A submission goes on when its component is left.
Left(j) == IF j.host = "quick" THEN j ELSE [j EXCEPT !.left = TRUE, !.cut = FALSE]

\* Nothing else of a submission changes when it is left.
LEMMA LeftTyped ==
  ASSUME NEW j \in Job
  PROVE  SameWork(Left(j), j) /\ Left(j).left = (j.left \/ j.host # "quick")
<1>1. CASE j.host = "quick"
  BY <1>1 DEF Left, SameWork, Job
<1>2. CASE j.host # "quick"
  <2>1. LET k == [j EXCEPT !.left = TRUE, !.cut = FALSE] IN
        /\ k \in Job
        /\ k.host = j.host /\ k.held = j.held /\ k.id = j.id /\ k.subject = j.subject
        /\ k.moved = j.moved /\ k.target = j.target /\ k.todo = j.todo /\ k.done = j.done
        /\ k.answer = j.answer /\ k.left /\ ~ k.cut
    BY DEF Job
  <2>2. QED
    BY <1>2, <2>1 DEF Left, SameWork
<1>3. QED
  BY <1>1, <1>2

\* The submissions of the components that are left are marked.
LEMMA LeaveMarks ==
  ASSUME TypeOK, Leave
  PROVE  \E f : /\ Marks(f, jobs)
                /\ \A j \in jobs : f[j].left = (j.left \/ j.host # "quick")
<1> DEFINE f == [j \in jobs |-> Left(j)]
<1>1. \A j \in jobs : f[j] = Left(j) /\ j \in Job
  BY DEF TypeOK
<1>2. \A j \in jobs : SameWork(f[j], j) /\ f[j].left = (j.left \/ j.host # "quick")
  BY <1>1, LeftTyped
<1>3. f \in [jobs -> Job]
  BY <1>1, <1>2 DEF SameWork
<1>4. jobs' = {f[j] : j \in jobs}
  BY <1>1 DEF Leave, Left
<1>5. Marks(f, jobs)
  BY <1>2, <1>3, <1>4 DEF Marks
<1> HIDE DEF f
<1>6. QED
  BY <1>2, <1>5

\* The submissions stay when the page is left, but for the mark.
LEMMA LeaveShape ==
  ASSUME Shape, Leave
  PROVE  Shape'
<1> USE DEF Shape
<1>1. PICK f : Marks(f, jobs) /\ \A j \in jobs : f[j].left = (j.left \/ j.host # "quick")
  BY LeaveMarks
<1>2. UNCHANGED opened
  BY DEF Leave
<1>3. TypeOK'
  <2>1. jobs' \subseteq Job
    BY <1>1 DEF Marks
  <2>2. loads' \subseteq [list : SUBSET Areas, superseded : BOOLEAN]
    <3>1. [list |-> areas, superseded |-> FALSE] \in [list : SUBSET Areas, superseded : BOOLEAN]
      BY DEF TypeOK
    <3>2. QED
      BY <3>1 DEF Leave
  <2>3. /\ UNCHANGED <<page, areas, used, opened>>
        /\ listed' = {} /\ selected' = Nothing /\ (dialog' = dialog \/ dialog' = Nothing)
    BY DEF Leave
  <2>4. Disturb
    BY DEF Leave
  <2>5. spent' \in Nat
    BY <2>4 DEF Disturb, TypeOK
  <2>6. QED
    BY <2>1, <2>2, <2>3, <2>5 DEF TypeOK
<1>4. DialogOK'
  <2>1. SUFFICES ASSUME dialog' # Nothing PROVE DialogOK'
    BY DEF DialogOK
  <2>2. dialog' = dialog /\ dialog # Nothing /\ dialog.form.host = "quick"
    BY <2>1 DEF Leave
  <2>3. dialog.id \in 1..Len(opened) /\ dialog.form.host = opened[dialog.id].host
    BY <2>2 DEF Parts, DialogOK
  <2>4. \A k \in jobs' : k.id = dialog.id => k.held = dialog.form.held /\ ~ k.left
    <3>1. SUFFICES ASSUME NEW k \in jobs', k.id = dialog.id
                   PROVE  k.held = dialog.form.held /\ ~ k.left
      OBVIOUS
    <3>2. PICK j \in jobs : k = f[j] /\ SameWork(k, j)
      BY <1>1 DEF Marks
    <3>3. k.id = j.id /\ k.held = j.held
      BY <3>2, SameFields
    <3>4. j.host = "quick" /\ j.held = dialog.form.held /\ ~ j.left
      BY <2>2, <3>1, <3>3, OwnForm
    <3>5. QED
      BY <1>1, <3>2, <3>3, <3>4
  <2>5. QED
    BY <1>2, <2>2, <2>3, <2>4 DEF DialogOK
<1>5. Parts'
  BY <1>1, <1>2, <1>4, MarksParts
<1>6. QED
  BY <1>3, <1>5

\* A new dialog has a number of its own, and no submission.
LEMMA OpenShape ==
  ASSUME Shape, NEW form \in FormsOf(page), Open(form)
  PROVE  Shape'
<1> DEFINE new == [host |-> form.host, rows |-> 0, reported |-> 0, strays |-> 0]
<1>0. TypeOK /\ opened \in Seq(Opened)
  BY DEF Shape, TypeOK
<1>1. form \in Forms
  BY <1>0 DEF TypeOK, Forms
<1>2. new \in Opened
  BY <1>1 DEF Opened, Hosts
<1>3. opened' = Append(opened, new)
  BY DEF Open
<1>4. /\ opened' \in Seq(Opened)
      /\ Len(opened') = Len(opened) + 1
      /\ opened'[Len(opened) + 1] = new
      /\ \A n \in 1..Len(opened) : opened'[n] = opened[n]
  BY <1>0, <1>2, <1>3
<1>5. /\ dialog' \in Dialog
      /\ dialog'.id = Len(opened) + 1
      /\ dialog'.form = form
  <2>1. (IF OnSelection(form) THEN selected ELSE Nothing) \in Areas \cup {Nothing}
    BY <1>0 DEF TypeOK
  <2>2. Len(opened) + 1 \in Nat
    BY <1>0
  <2>3. QED
    BY <1>1, <2>1, <2>2 DEF Open, Dialog
<1>6. TypeOK'
  BY <1>0, <1>4, <1>5 DEF Open, TypeOK
<1>7. JobsOK' /\ OneSaves' /\ OnePerDialog'
  <2>1. JobsOK'
    BY <1>0, <1>4 DEF Open, Shape, Parts, JobsOK
  <2>2. QED
    BY <2>1 DEF Open, Shape, Parts, OneSaves, OnePerDialog, Beside, Archives
<1>8. DialogOK'
  <2>1. \A j \in jobs : j.id # Len(opened) + 1
    BY <1>0 DEF Shape, Parts, JobsOK
  <2>2. dialog'.id \in 1..Len(opened') /\ dialog'.form.host = opened'[dialog'.id].host
    BY <1>0, <1>4, <1>5
  <2>3. QED
    BY <1>5, <2>1, <2>2 DEF Open, DialogOK
<1>9. QED
  BY <1>6, <1>7, <1>8 DEF Shape, Parts

\* A submission starts beside another one only where the code keeps no flag.
LEMMA SubmitShape ==
  ASSUME Shape, NEW plan, Submit(plan)
  PROVE  Shape'
<1> DEFINE new == [host |-> dialog.form.host, held |-> dialog.form.held, id |-> dialog.id,
                   subject |-> dialog.subject, moved |-> dialog.moved,
                   target |-> IF OnSelection(dialog.form) THEN selected ELSE Nothing,
                   todo |-> plan, done |-> FALSE, answer |-> {}, left |-> FALSE, cut |-> FALSE]
<1>0. TypeOK /\ dialog # Nothing /\ plan \in dialog.form.plans
  BY DEF Shape, Submit
<1>1. /\ dialog.form.host \in Hosts
      /\ dialog.id \in Nat
      /\ dialog.moved \in BOOLEAN
      /\ dialog.subject \in Areas \cup {Nothing}
      /\ dialog.form.held \in BOOLEAN
      /\ PlanOK(plan)
      /\ dialog.form.held => /\ dialog.form.host \notin Unflagged \cup {"quick", "edit-item"}
                             /\ Keeps(plan)
      /\ dialog.form.host = "item-details" => dialog.form.held /\ Barren(plan)
  BY <1>0, DialogTyped DEF FormOK
<1>2. new \in Job
  <2>1. (IF OnSelection(dialog.form) THEN selected ELSE Nothing) \in Areas \cup {Nothing}
    BY <1>0 DEF TypeOK
  <2>2. QED
    BY <1>1, <2>1 DEF Job, PlanOK
<1>3. jobs' = jobs \cup {new} /\ UNCHANGED <<opened, dialog>>
  BY DEF Submit
<1>4. TypeOK'
  BY <1>0, <1>2, <1>3 DEF Submit, TypeOK
<1>5. /\ dialog.id \in 1..Len(opened)
      /\ dialog.form.host = opened[dialog.id].host
      /\ \A j \in jobs : j.id = dialog.id => j.held = dialog.form.held /\ ~ j.left
  BY <1>0 DEF Shape, Parts, DialogOK
<1>6. JobsOK'
  BY <1>1, <1>3, <1>5 DEF Shape, Parts, JobsOK
<1>7. DialogOK'
  BY <1>3, <1>5 DEF DialogOK
<1>8. \A j \in jobs :
        Flag(j.host) = Flag(new.host) /\ ~ j.left => Beside(j, new) /\ Beside(new, j)
  <2>1. \A host \in Unflagged : \A other : Flag(host) = Flag(other) => host = other
    BY DEF Unflagged, Flag
  <2>2. QED
    BY <2>1 DEF Submit, Submittable, Beside, Archives
<1>9. \A j \in jobs : j.id = new.id => j.host = new.host /\ ~ j.left
  BY <1>5 DEF Shape, Parts, JobsOK
<1>10. ~ new.left
  OBVIOUS
<1>11. OneSaves'
  <2>1. ASSUME NEW j \in jobs', NEW k \in jobs', Flag(j.host) = Flag(k.host), ~ j.left, ~ k.left
        PROVE  j = k \/ Beside(j, k)
    <3>1. CASE j = new /\ k \in jobs
      BY <1>8, <2>1, <3>1
    <3>2. CASE k = new /\ j \in jobs
      BY <1>8, <2>1, <3>2
    <3>3. CASE j \in jobs /\ k \in jobs
      BY <2>1, <3>3 DEF Shape, Parts, OneSaves
    <3>4. QED
      BY <1>3, <2>1, <3>1, <3>2, <3>3
  <2>2. QED
    BY <2>1 DEF OneSaves, Beside, Archives
<1>12. OnePerDialog'
  <2>1. ASSUME NEW j \in jobs', NEW k \in jobs', j.id = k.id
        PROVE  j = k \/ Beside(j, k)
    <3>1. CASE j = new /\ k \in jobs
      BY <1>8, <1>9, <2>1, <3>1
    <3>2. CASE k = new /\ j \in jobs
      BY <1>8, <1>9, <2>1, <3>2
    <3>3. CASE j \in jobs /\ k \in jobs
      BY <2>1, <3>3 DEF Shape, Parts, OnePerDialog
    <3>4. QED
      BY <1>3, <2>1, <3>1, <3>2, <3>3
  <2>2. QED
    BY <2>1 DEF OnePerDialog, Beside, Archives
<1>13. QED
  BY <1>4, <1>6, <1>7, <1>11, <1>12 DEF Shape, Parts

\* A step that changes what is counted for the dialogs, and not which they are.
SameHosts == /\ Len(opened') = Len(opened)
             /\ \A n \in 1..Len(opened) : opened'[n].host = opened[n].host

\* A submission goes on as another state of itself.
LEMMA GoesOnParts ==
  ASSUME Parts, SameHosts, UNCHANGED dialog, NEW j \in jobs, NEW k,
         jobs' = (jobs \ {j}) \cup {k},
         k.host = j.host, k.held = j.held, k.id = j.id, k.left = j.left, k.cut = j.cut,
         PlanOK(k.todo), Keeps(j.todo) => Keeps(k.todo), Barren(j.todo) => Barren(k.todo),
         Archives(j) => Archives(k)
  PROVE  Parts'
<1> USE DEF Parts
<1>1. JobsOK'
  BY DEF JobsOK, SameHosts
<1>2. DialogOK'
  BY DEF DialogOK, SameHosts
<1>3. \A i \in jobs : /\ Beside(i, j) => Beside(i, k)
                      /\ Beside(j, i) => Beside(k, i)
  BY DEF Beside
<1>4. OneSaves'
  BY <1>3 DEF OneSaves, Beside, Archives
<1>5. OnePerDialog'
  BY <1>3 DEF OnePerDialog, Beside, Archives
<1>6. QED
  BY <1>1, <1>2, <1>4, <1>5

\* A submission ends, and with it perhaps the dialog.
LEMMA EndsParts ==
  ASSUME Parts, SameHosts, dialog' = dialog \/ dialog' = Nothing, NEW j \in jobs,
         jobs' = jobs \ {j}
  PROVE  Parts'
<1> USE DEF Parts
<1>1. JobsOK'
  BY DEF JobsOK, SameHosts
<1>2. DialogOK'
  BY DEF DialogOK, SameHosts
<1>3. OneSaves' /\ OnePerDialog'
  BY DEF OneSaves, OnePerDialog, Beside, Archives
<1>4. QED
  BY <1>1, <1>2, <1>3

\* The first call of a submission is one of the calls.
LEMMA HeadIsCall ==
  ASSUME Shape, NEW j \in jobs
  PROVE  /\ j \in Job
         /\ Head(j.todo) \in Calls
         /\ j.todo \in Seq(Calls)
         /\ Len(j.todo) \in Nat \ {0}
         /\ j.id \in 1..Len(opened)
         /\ opened \in Seq(Opened)
         /\ opened[j.id] \in Opened
<1>1. j \in Job /\ opened \in Seq(Opened)
  BY DEF Shape, TypeOK
<1>2. j.todo \in Seq(Calls) /\ j.todo # <<>> /\ j.id \in 1..Len(opened)
  BY DEF Shape, Parts, JobsOK, PlanOK
<1>3. QED
  BY <1>1, <1>2

\* What the backend's part of a submission changes of it.
Performed(j, k) ==
  /\ k \in Job
  /\ k.done
  /\ k.host = j.host /\ k.held = j.held /\ k.id = j.id /\ k.todo = j.todo
  /\ k.left = j.left /\ k.cut = j.cut

\* The backend changes the areas and the submission, and what the pages have asked for.
LEMMA PerformTyped ==
  ASSUME Shape, NEW j \in jobs, Perform(j)
  PROVE  /\ \E k : Performed(j, k) /\ jobs' = (jobs \ {j}) \cup {k}
         /\ areas' \subseteq used'
         /\ used' \subseteq Areas
         /\ loads' \subseteq [list : SUBSET Areas, superseded : BOOLEAN]
<1> DEFINE call == Head(j.todo)
           Goal == /\ \E k : Performed(j, k) /\ jobs' = (jobs \ {j}) \cup {k}
                   /\ areas' \subseteq used'
                   /\ used' \subseteq Areas
                   /\ loads' \subseteq [list : SUBSET Areas, superseded : BOOLEAN]
<1>0. TypeOK /\ j \in Job
  BY DEF Shape, TypeOK
<1>1. ASSUME call = "create-area",
             \E a \in Areas \ used :
               /\ used' = used \cup {a}
               /\ areas' = areas \cup {a}
               /\ jobs' = (jobs \ {j}) \cup {[j EXCEPT !.done = TRUE, !.target = a]},
             UNCHANGED loads
      PROVE  Goal
  <2>1. PICK a \in Areas \ used :
          /\ used' = used \cup {a}
          /\ areas' = areas \cup {a}
          /\ jobs' = (jobs \ {j}) \cup {[j EXCEPT !.done = TRUE, !.target = a]}
    BY <1>1
  <2>2. Performed(j, [j EXCEPT !.done = TRUE, !.target = a])
    BY <1>0 DEF Job, Performed
  <2>3. QED
    BY <1>0, <1>1, <2>1, <2>2 DEF TypeOK
<1>2. Performed(j, [j EXCEPT !.done = TRUE])
  BY <1>0 DEF Job, Performed
<1>3. ASSUME areas' = (IF call = "delete-area" THEN areas \ {j.target} ELSE areas),
             Done(j), UNCHANGED <<used, loads>>
      PROVE  Goal
  BY <1>0, <1>2, <1>3 DEF TypeOK, Done
<1>4. ASSUME jobs' = (jobs \ {j}) \cup {[j EXCEPT !.done = TRUE, !.answer = areas]},
             loads' = Overtaken, UNCHANGED <<areas, used>>
      PROVE  Goal
  <2>1. Performed(j, [j EXCEPT !.done = TRUE, !.answer = areas])
    BY <1>0 DEF Job, Performed, TypeOK
  <2>2. Overtaken \subseteq [list : SUBSET Areas, superseded : BOOLEAN]
    BY <1>0 DEF TypeOK, Overtaken
  <2>3. QED
    BY <1>0, <1>4, <2>1, <2>2 DEF TypeOK
<1>5. ASSUME Done(j), UNCHANGED <<areas, used, loads>>
      PROVE  Goal
  BY <1>0, <1>2, <1>5 DEF TypeOK, Done
<1>6. QED
  BY <1>1, <1>3, <1>4, <1>5 DEF Perform

\* One row more.
LEMMA OneMore ==
  ASSUME NEW o \in Opened
  PROVE  LET r == [o EXCEPT !.rows = o.rows + 1] IN
         /\ r \in Opened
         /\ r.host = o.host
         /\ r.rows = o.rows + 1
         /\ r.reported = o.reported
         /\ r.strays = o.strays
BY DEF Opened

\* Only the count of the rows changes, and only by a creation.
LEMMA PerformCounts ==
  ASSUME Shape, NEW j \in jobs, Perform(j)
  PROVE  /\ opened' \in Seq(Opened)
         /\ SameHosts
         /\ \A n \in 1..Len(opened) :
              /\ opened'[n].reported = opened[n].reported
              /\ opened'[n].strays = opened[n].strays
              /\ opened'[n].rows = IF n = j.id /\ Creates(Head(j.todo))
                                   THEN opened[n].rows + 1 ELSE opened[n].rows
<1>0. j.id \in 1..Len(opened) /\ opened \in Seq(Opened) /\ opened[j.id] \in Opened
  BY HeadIsCall
<1>1. CASE Creates(Head(j.todo))
  <2> DEFINE r == [opened[j.id] EXCEPT !.rows = opened[j.id].rows + 1]
  <2>1. opened' = [opened EXCEPT ![j.id] = r]
    BY <1>0, <1>1 DEF Perform, Opened
  <2>2. /\ r \in Opened /\ r.host = opened[j.id].host /\ r.rows = opened[j.id].rows + 1
        /\ r.reported = opened[j.id].reported /\ r.strays = opened[j.id].strays
    BY <1>0, OneMore
  <2> HIDE DEF r
  <2>3. /\ opened' \in Seq(Opened) /\ Len(opened') = Len(opened)
        /\ opened'[j.id] = r
        /\ \A n \in 1..Len(opened) : n # j.id => opened'[n] = opened[n]
        /\ \A n \in 1..Len(opened) : opened'[n].host = opened[n].host
    BY <1>0, <2>1, <2>2, OpenedChanges
  <2>4. QED
    BY <1>1, <2>2, <2>3 DEF SameHosts
<1>2. CASE ~ Creates(Head(j.todo))
  BY <1>0, <1>2 DEF Perform, SameHosts
<1>3. QED
  BY <1>1, <1>2

\* The submission is the same but for its answer.
LEMMA PerformShape ==
  ASSUME Shape, NEW j \in jobs, Perform(j)
  PROVE  Shape'
<1>1. PICK k : Performed(j, k) /\ jobs' = (jobs \ {j}) \cup {k}
  BY PerformTyped
<1>2. /\ areas' \subseteq used'
      /\ used' \subseteq Areas
      /\ loads' \subseteq [list : SUBSET Areas, superseded : BOOLEAN]
  BY PerformTyped
<1>3. opened' \in Seq(Opened) /\ SameHosts
  BY PerformCounts
<1>4. UNCHANGED <<page, listed, selected, dialog, spent>>
  BY DEF Perform
<1>5. TypeOK'
  BY <1>1, <1>2, <1>3, <1>4 DEF Shape, TypeOK, Performed
<1>6. PlanOK(j.todo)
  BY DEF Shape, Parts, JobsOK
<1>7. Parts'
  BY <1>1, <1>3, <1>4, <1>6, GoesOnParts DEF Shape, Performed, Archives
<1>8. QED
  BY <1>5, <1>7 DEF Shape

\* After an answer the rest of a plan creates nothing, and archives nothing that
\* it did not archive before.
LEMMA RestOK ==
  ASSUME NEW plan, PlanOK(plan), Len(plan) > 1
  PROVE  /\ PlanOK(Tail(plan))
         /\ Keeps(plan) => Keeps(Tail(plan))
         /\ Barren(Tail(plan))
         /\ plan # <<"archive">>
         /\ ~ Creates(Head(Tail(plan)))
<1>1. plan \in Seq(Calls) /\ plan # <<>> /\ \A n \in 2..Len(plan) : ~ Creates(plan[n])
  BY DEF PlanOK
<1>2. /\ Tail(plan) \in Seq(Calls)
      /\ Len(Tail(plan)) = Len(plan) - 1
      /\ \A n \in 1..Len(Tail(plan)) : Tail(plan)[n] = plan[n + 1]
  BY <1>1
<1>3. Len(<<"archive">>) = 1
  OBVIOUS
<1>4. \A n \in 1..Len(Tail(plan)) : ~ Creates(Tail(plan)[n])
  BY <1>1, <1>2
<1>5. Tail(plan) # <<>>
  <2>1. Len(Tail(plan)) # Len(<<>>)
    BY <1>1, <1>2
  <2>2. QED
    BY <2>1
<1>6. PlanOK(Tail(plan))
  BY <1>2, <1>4, <1>5 DEF PlanOK
<1>7. Keeps(plan) => Keeps(Tail(plan))
  BY <1>1, <1>2 DEF Keeps
<1>8. Head(Tail(plan)) = Tail(plan)[1]
  BY <1>2, <1>5
<1>9. QED
  BY <1>1, <1>2, <1>3, <1>4, <1>6, <1>7, <1>8 DEF Barren

\* A submission that goes on after an answer.
Continued(j) == [j EXCEPT !.todo = Tail(@), !.done = FALSE]

\* It is the same but for its plan.
LEMMA ContinuedTyped ==
  ASSUME Shape, NEW j \in jobs, Len(j.todo) > 1
  PROVE  LET k == Continued(j) IN
         /\ k \in Job
         /\ k.host = j.host /\ k.held = j.held /\ k.id = j.id
         /\ k.left = j.left /\ k.cut = j.cut
         /\ k.todo = Tail(j.todo)
         /\ PlanOK(k.todo)
         /\ Keeps(j.todo) => Keeps(k.todo)
         /\ Barren(k.todo)
         /\ ~ Archives(j)
         /\ ~ Creates(Head(k.todo))
<1>1. j \in Job /\ PlanOK(j.todo)
  BY DEF Shape, TypeOK, Parts, JobsOK
<1>2. /\ PlanOK(Tail(j.todo))
      /\ Keeps(j.todo) => Keeps(Tail(j.todo))
      /\ Barren(Tail(j.todo))
      /\ j.todo # <<"archive">>
      /\ ~ Creates(Head(Tail(j.todo)))
  BY <1>1, RestOK
<1>3. Tail(j.todo) \in Seq(Calls)
  BY <1>2 DEF PlanOK
<1>4. LET k == Continued(j) IN
      /\ k \in Job
      /\ k.host = j.host /\ k.held = j.held /\ k.id = j.id
      /\ k.left = j.left /\ k.cut = j.cut
      /\ k.todo = Tail(j.todo)
  BY <1>1, <1>3 DEF Job, Continued
<1>5. QED
  BY <1>2, <1>4 DEF Archives

\* The submission of a dialog that was taken away is the only one of that dialog.
LEMMA LateIsAlone ==
  ASSUME Shape, NEW j \in jobs, Late(j)
  PROVE  /\ \A k \in jobs : k.id = j.id => k = j
         /\ dialog # Nothing => dialog.id # j.id
<1>1. j.host = "item-details" /\ j.left /\ Keeps(j.todo)
  BY DEF Late, Shape, Parts, JobsOK
<1>2. ~ Archives(j)
  BY <1>1 DEF Archives, Keeps
<1>3. \A k \in jobs : ~ Beside(j, k)
  BY <1>1, <1>2 DEF Beside, Unflagged
<1>4. QED
  BY <1>1, <1>3 DEF Shape, Parts, OnePerDialog, DialogOK

\* The dialog of an item that is opened again.
LEMMA DetailTyped ==
  ASSUME NEW id \in Nat
  PROVE  LET d == [form |-> DetailForm, id |-> id, moved |-> FALSE, subject |-> Nothing] IN
         d \in Dialog /\ d # Nothing
<1>1. DetailForm \in FormsOf("items") /\ "items" \in Pages
  BY DEF FormsOf, DetailForms, Pages
<1>2. DetailForm \in Forms
  BY <1>1 DEF Forms
<1> DEFINE d == [form |-> DetailForm, id |-> id, moved |-> FALSE, subject |-> Nothing]
<1>3. d \in Dialog
  BY <1>2 DEF Dialog
<1> HIDE DEF d
<1>4. d # Nothing
  BY <1>3, NothingAssumption
<1>5. QED
  BY <1>3, <1>4 DEF d

\* After an answer that is not the last nothing else changes.
LEMMA GoesOn ==
  ASSUME Shape, NEW j \in jobs, Answer(j), Len(j.todo) > 1
  PROVE  /\ jobs' = (jobs \ {j}) \cup {Continued(j)}
         /\ UNCHANGED <<page, dialog>>
<1> DEFINE n == Len(j.todo)
<1>1. n \in Nat /\ n > 1
  BY HeadIsCall
<1> HIDE DEF n
<1>2. n # 1
  BY <1>1
<1>3. QED
  BY <1>2 DEF n, Answer, Continued

\* What the late answer of a submission leaves: the submissions it cuts off, and the
\* dialog that was open, none, or that of its own item.
LEMMA Intruded ==
  ASSUME Shape, NEW j \in jobs, Late(j), Intrude(j)
  PROVE  /\ \E f : /\ Marks(f, jobs \ {j})
                   /\ \A k \in jobs \ {j} :
                        /\ f[k].left =
                             (k.left \/ (k.host = "item-details" /\ j.todo = <<"delete-item">>))
                        /\ k.host = "item-details" => f[k].cut \/ f[k].left
         /\ \/ /\ dialog' = dialog
               /\ j.todo = <<"delete-item">> => ~ ShownFor("item-details")
            \/ dialog' = Nothing /\ ShownFor("item-details")
            \/ /\ dialog = Nothing
               /\ dialog' = [form |-> DetailForm, id |-> j.id, moved |-> FALSE,
                             subject |-> Nothing]
<1>1. PICK deleted \in BOOLEAN : deleted = (j.todo = <<"delete-item">>)
  OBVIOUS
<1>2. PICK js \in SUBSET jobs : js = jobs \ {j}
  OBVIOUS
<1>3. jobs' = CutOff(js, "item-details", deleted) /\ TypeOK
  BY <1>1, <1>2 DEF Intrude, Shape
<1>4. \E f : /\ Marks(f, js)
             /\ \A k \in js :
                  /\ f[k].left = (k.left \/ (k.host = "item-details" /\ deleted))
                  /\ k.host = "item-details" => f[k].cut \/ f[k].left
  BY <1>3, CutMarks
<1>5. QED
  BY <1>1, <1>2, <1>4 DEF Intrude

\* The late answer of a submission cuts off others, and may open its dialog again.
LEMMA IntrudeShape ==
  ASSUME Shape, NEW j \in jobs, Late(j), Intrude(j), UNCHANGED opened
  PROVE  dialog' \in Dialog \cup {Nothing} /\ jobs' \subseteq Job /\ Parts'
<1>1. PICK f : /\ Marks(f, jobs \ {j})
               /\ \A k \in jobs \ {j} :
                    f[k].left =
                      (k.left \/ (k.host = "item-details" /\ j.todo = <<"delete-item">>))
  BY Intruded
<1> DEFINE new == [form |-> DetailForm, id |-> j.id, moved |-> FALSE, subject |-> Nothing]
<1>2. \/ dialog' = dialog /\ (j.todo = <<"delete-item">> => ~ ShownFor("item-details"))
      \/ dialog' = Nothing
      \/ dialog' = new
  BY Intruded
<1>3. /\ j.id \in 1..Len(opened) /\ j.id \in Nat
      /\ j.host = "item-details" /\ j.host = opened[j.id].host
  BY HeadIsCall DEF Shape, Parts, JobsOK, Late, Job
<1>4. new \in Dialog /\ new # Nothing /\ new.id = j.id /\ new.form = DetailForm
  BY <1>3, DetailTyped
<1> HIDE DEF new
<1>5. dialog' \in Dialog \cup {Nothing}
  BY <1>2, <1>4 DEF Shape, TypeOK
<1>6. jobs' \subseteq Job
  BY <1>1 DEF Marks
<1>7. DialogOK'
  <2>1. CASE dialog' = dialog /\ dialog # Nothing
    <3>1. /\ dialog.id \in 1..Len(opened)
          /\ dialog.form.host = opened[dialog.id].host
      BY <2>1 DEF Shape, Parts, DialogOK
    <3>2. dialog.form.host = "item-details" => j.todo # <<"delete-item">>
      BY <1>2, <1>4, <2>1, LateIsAlone DEF ShownFor
    <3>3. \A k \in jobs' : k.id = dialog.id => k.held = dialog.form.held /\ ~ k.left
      <4>1. SUFFICES ASSUME NEW k \in jobs', k.id = dialog.id
                     PROVE  k.held = dialog.form.held /\ ~ k.left
        OBVIOUS
      <4>2. PICK i \in jobs \ {j} : k = f[i] /\ SameWork(k, i)
        BY <1>1 DEF Marks
      <4>3. k.id = i.id /\ k.held = i.held
        BY <4>2, SameFields
      <4>4. i.host = dialog.form.host /\ i.held = dialog.form.held /\ ~ i.left
        BY <2>1, <4>1, <4>3, OwnForm
      <4>5. QED
        BY <1>1, <3>2, <4>2, <4>3, <4>4
    <3>4. QED
      BY <2>1, <3>1, <3>3 DEF DialogOK
  <2>2. CASE dialog' = Nothing
    BY <2>2 DEF DialogOK
  <2>3. CASE dialog' = new
    <3>1. DetailForm.host = "item-details"
      BY DEF DetailForm, Form
    <3>2. \A k \in jobs' : k.id # j.id
      <4>1. SUFFICES ASSUME NEW k \in jobs', k.id = j.id PROVE FALSE
        OBVIOUS
      <4>2. PICK i \in jobs \ {j} : k = f[i] /\ SameWork(k, i)
        BY <1>1 DEF Marks
      <4>3. i.id = j.id
        BY <4>1, <4>2, SameFields
      <4>4. QED
        BY <4>3, LateIsAlone
    <3>3. QED
      BY <1>3, <1>4, <2>3, <3>1, <3>2 DEF DialogOK
  <2>4. QED
    BY <1>2, <2>1, <2>2, <2>3
<1>8. Parts'
  BY <1>1, <1>7, MarksParts
<1>9. QED
  BY <1>5, <1>6, <1>8

\* An answer is taken by the page, and the submission goes on or ends.
LEMMA AnswerShape ==
  ASSUME Shape, NEW j \in jobs, Answer(j)
  PROVE  Shape'
<1>0. TypeOK /\ j \in Job
  BY DEF Shape, TypeOK
<1>1. listed' \subseteq Areas /\ selected' \in Areas \cup {Nothing}
  <2>1. j.answer \in SUBSET Areas
    BY <1>0 DEF Job
  <2>2. CASE Head(j.todo) = "list" /\ ~ j.left
    BY <1>0, <2>1, <2>2, TakeTyped DEF Answer
  <2>3. CASE ~ (Head(j.todo) = "list" /\ ~ j.left)
    BY <1>0, <2>3 DEF Answer, TypeOK
  <2>4. QED
    BY <2>2, <2>3
<1>2. UNCHANGED <<areas, used, loads, opened, spent>> /\ SameHosts
  BY DEF Answer, SameHosts
<1>3. CASE Len(j.todo) > 1
  <2>1. jobs' = (jobs \ {j}) \cup {Continued(j)} /\ UNCHANGED <<page, dialog>>
    BY <1>3, GoesOn
  <2>2. /\ Continued(j) \in Job
        /\ Continued(j).host = j.host /\ Continued(j).held = j.held
        /\ Continued(j).id = j.id /\ Continued(j).left = j.left /\ Continued(j).cut = j.cut
        /\ PlanOK(Continued(j).todo)
        /\ Keeps(j.todo) => Keeps(Continued(j).todo)
        /\ Barren(Continued(j).todo)
        /\ ~ Archives(j)
    BY <1>3, ContinuedTyped
  <2>3. TypeOK'
    BY <1>0, <1>1, <1>2, <2>1, <2>2 DEF TypeOK
  <2>4. Parts'
    BY <1>2, <2>1, <2>2, GoesOnParts DEF Shape
  <2>5. QED
    BY <2>3, <2>4 DEF Shape
<1>4. CASE ~ (Len(j.todo) > 1) /\ Late(j)
  <2>1. UNCHANGED page /\ Intrude(j)
    BY <1>4 DEF Answer
  <2>2. dialog' \in Dialog \cup {Nothing} /\ jobs' \subseteq Job /\ Parts'
    BY <1>2, <1>4, <2>1, IntrudeShape
  <2>3. TypeOK'
    BY <1>0, <1>1, <1>2, <2>1, <2>2 DEF TypeOK
  <2>4. QED
    BY <2>2, <2>3 DEF Shape
<1>5. CASE ~ (Len(j.todo) > 1) /\ ~ Late(j)
  <2>1. jobs' = jobs \ {j} /\ (dialog' = dialog \/ dialog' = Nothing)
    BY <1>5 DEF Answer
  <2>2. page' \in Pages
    BY <1>0, <1>5 DEF Answer, Follows, TypeOK, Pages
  <2>3. TypeOK'
    BY <1>0, <1>1, <1>2, <2>1, <2>2 DEF TypeOK
  <2>4. Parts'
    BY <1>2, <2>1, EndsParts DEF Shape
  <2>5. QED
    BY <2>3, <2>4 DEF Shape
<1>6. QED
  BY <1>3, <1>4, <1>5

\* A failure is counted for the dialog of the submission.
LEMMA GiveUpCounts ==
  ASSUME Shape, NEW j \in jobs, GiveUp(j)
  PROVE  /\ opened' \in Seq(Opened)
         /\ SameHosts
         /\ \A n \in 1..Len(opened) :
              /\ opened'[n].rows = opened[n].rows
              /\ opened'[n].reported = IF n = j.id /\ ~ j.left
                                       THEN opened[n].reported + 1 ELSE opened[n].reported
              /\ opened'[n].strays = IF n = j.id /\ ~ j.done /\ Creates(Head(j.todo))
                                     THEN opened[n].strays + 1 ELSE opened[n].strays
<1> DEFINE o == opened[j.id]
           pending == ~ j.done /\ Creates(Head(j.todo))
           reported == IF ~ j.left THEN o.reported + 1 ELSE o.reported
           strays == IF pending THEN o.strays + 1 ELSE o.strays
           r == [o EXCEPT !.reported = reported, !.strays = strays]
<1>0. j \in Job /\ j.id \in 1..Len(opened) /\ opened \in Seq(Opened) /\ o \in Opened
  BY HeadIsCall
<1>1. opened' = [opened EXCEPT ![j.id] = r]
  BY <1>0 DEF GiveUp, Opened
<1>2. /\ r \in Opened
      /\ r.host = o.host
      /\ r.rows = o.rows
      /\ r.reported = reported
      /\ r.strays = strays
  <2>1. o.reported \in Nat /\ o.strays \in Nat
    BY <1>0 DEF Opened
  <2>2. reported \in Nat /\ strays \in Nat
    BY <2>1
  <2> HIDE DEF reported, strays, o
  <2>3. QED
    BY <1>0, <2>2 DEF Opened
<1> HIDE DEF r
<1>3. /\ opened' \in Seq(Opened) /\ Len(opened') = Len(opened)
      /\ opened'[j.id] = r
      /\ \A n \in 1..Len(opened) : n # j.id => opened'[n] = opened[n]
      /\ \A n \in 1..Len(opened) : opened'[n].host = opened[n].host
  BY <1>0, <1>1, <1>2, OpenedChanges
<1>4. QED
  BY <1>2, <1>3 DEF SameHosts

\* A submission that fails ends, and leaves the dialog alone.
LEMMA GiveUpShape ==
  ASSUME Shape, NEW j \in jobs, GiveUp(j)
  PROVE  Shape'
<1>1. opened' \in Seq(Opened) /\ SameHosts
  BY GiveUpCounts
<1>2. /\ jobs' = jobs \ {j}
      /\ UNCHANGED <<page, areas, used, listed, selected, loads, dialog, spent>>
  BY DEF GiveUp
<1>3. TypeOK'
  BY <1>1, <1>2 DEF Shape, TypeOK
<1>4. Parts'
  BY <1>1, <1>2, EndsParts DEF Shape
<1>5. QED
  BY <1>3, <1>4 DEF Shape

\* One creation that was given up becomes a row.
LEMMA OneStrays ==
  ASSUME NEW o \in Opened, o.strays > 0
  PROVE  LET r == [o EXCEPT !.strays = o.strays - 1, !.rows = o.rows + 1] IN
         /\ r \in Opened
         /\ r.host = o.host
         /\ r.reported = o.reported
         /\ r.rows + r.strays = o.rows + o.strays
<1> DEFINE rows == o.rows + 1
           strays == o.strays - 1
<1>1. o.rows \in Nat /\ o.reported \in Nat /\ o.strays \in Nat
  BY DEF Opened
<1>2. rows \in Nat /\ strays \in Nat /\ rows + strays = o.rows + o.strays
  BY <1>1
<1> HIDE DEF rows, strays
<1>3. LET r == [o EXCEPT !.strays = strays, !.rows = rows] IN
      /\ r \in Opened
      /\ r.host = o.host
      /\ r.reported = o.reported
      /\ r.rows = rows
      /\ r.strays = strays
  BY <1>1, <1>2 DEF Opened
<1>4. QED
  BY <1>2, <1>3 DEF rows, strays

\* It is a row of the dialog that it was given up for.
LEMMA StrayCounts ==
  ASSUME Shape, NEW i \in DOMAIN opened, Stray(i)
  PROVE  /\ opened' \in Seq(Opened)
         /\ SameHosts
         /\ \A n \in 1..Len(opened) :
              /\ opened'[n].reported = opened[n].reported
              /\ opened'[n].rows + opened'[n].strays = opened[n].rows + opened[n].strays
<1> DEFINE o == opened[i]
           r == [o EXCEPT !.strays = o.strays - 1, !.rows = o.rows + 1]
<1>0. i \in 1..Len(opened) /\ opened \in Seq(Opened) /\ o \in Opened /\ o.strays > 0
  BY DEF Shape, TypeOK, Stray
<1>1. opened' = [opened EXCEPT ![i] = r]
  BY <1>0 DEF Stray, Opened
<1>2. /\ r \in Opened
      /\ r.host = o.host
      /\ r.reported = o.reported
      /\ r.rows + r.strays = o.rows + o.strays
  <2> HIDE DEF o
  <2>1. QED
    BY <1>0, OneStrays
<1> HIDE DEF r
<1>3. /\ opened' \in Seq(Opened) /\ Len(opened') = Len(opened)
      /\ opened'[i] = r
      /\ \A n \in 1..Len(opened) : n # i => opened'[n] = opened[n]
      /\ \A n \in 1..Len(opened) : opened'[n].host = opened[n].host
  BY <1>0, <1>1, <1>2, OpenedChanges
<1>4. QED
  BY <1>2, <1>3 DEF SameHosts

\* The dialogs and the submissions stay.
LEMMA StrayShape ==
  ASSUME Shape, NEW i \in DOMAIN opened, Stray(i)
  PROVE  Shape'
<1>1. opened' \in Seq(Opened) /\ SameHosts
  BY StrayCounts
<1>2. UNCHANGED <<page, areas, used, listed, selected, loads, dialog, jobs, spent>>
  BY DEF Stray
<1>3. TypeOK'
  BY <1>1, <1>2 DEF Shape, TypeOK
<1>4. JobsOK' /\ OneSaves' /\ OnePerDialog'
  BY <1>1, <1>2 DEF Shape, Parts, JobsOK, OneSaves, OnePerDialog, Beside, Archives, SameHosts
<1>5. DialogOK'
  BY <1>1, <1>2 DEF Shape, Parts, DialogOK, SameHosts
<1>6. QED
  BY <1>3, <1>4, <1>5 DEF Shape, Parts

\* The steps, as the proofs take them.
LEMMA Steps ==
  ASSUME Next
  PROVE  \/ Around
         \/ Leave
         \/ Dismiss
         \/ \E form \in FormsOf(page) : Open(form)
         \/ \E plan : Submit(plan)
         \/ \E j \in jobs : Perform(j)
         \/ \E j \in jobs : Answer(j)
         \/ \E j \in jobs : GiveUp(j)
         \/ \E i \in DOMAIN opened : Stray(i)
BY DEF Next, Around

\* Nothing that matters changes without a step.
LEMMA StutterShape ==
  ASSUME Shape, UNCHANGED vars
  PROVE  Shape'
BY DEF vars, Shape, TypeOK, Parts, JobsOK, DialogOK, OneSaves, OnePerDialog, Beside, Archives

\* Shape is inductive.
LEMMA NextShape ==
  ASSUME Shape, [Next]_vars
  PROVE  Shape'
<1>1. CASE Next
  BY <1>1, Steps, AroundShape, LeaveShape, DismissShape, OpenShape, SubmitShape,
     PerformShape, AnswerShape, GiveUpShape, StrayShape
<1>2. CASE UNCHANGED vars
  BY <1>2, StutterShape
<1>3. QED
  BY <1>1, <1>2

\* Shape is an invariant.
LEMMA ShapeHolds == Spec => []Shape
<1>1. Shape /\ [Next]_vars => Shape'
  BY NextShape
<1>2. QED
  BY <1>1, InitShape, PTL DEF Spec

\* The variables of the forms keep their types.
THEOREM TypeCorrect == Spec => []TypeOK
<1>1. Shape => TypeOK
  BY DEF Shape
<1>2. QED
  BY <1>1, ShapeHolds, PTL
-----------------------------------------------------------------------------
(* A submission whose form is held finds it open.                          *)

\* No other submission runs beside one whose form is held.
LEMMA HeldIsAlone ==
  ASSUME Shape, NEW j \in jobs, NEW k \in jobs, k.held, j.host = k.host
  PROVE  ~ Beside(j, k)
<1>1. k.host \notin Unflagged /\ Keeps(k.todo)
  BY DEF Shape, Parts, JobsOK
<1>2. ~ Archives(k)
  <2>1. ~ Keeps(<<"archive">>)
    BY DEF Keeps
  <2>2. QED
    BY <1>1, <2>1 DEF Archives
<1>3. QED
  BY <1>1, <1>2 DEF Beside

\* A dialog whose form is held is not dismissed while it saves.
LEMMA DismissHeld ==
  ASSUME Shape, HeldDialogsStay, Dismiss
  PROVE  HeldDialogsStay'
<1>1. \A j \in jobs : ~ (j.held /\ ~ j.left /\ ~ j.cut)
  <2> SUFFICES ASSUME NEW j \in jobs, j.held, ~ j.left, ~ j.cut PROVE FALSE
    OBVIOUS
  <2>1. dialog # Nothing /\ dialog.id = j.id
    BY DEF HeldDialogsStay
  <2>2. j.host = dialog.form.host /\ dialog.form.held
    BY <2>1, OwnForm
  <2>3. QED
    BY <2>2 DEF Dismiss, Dismissable, Saving
<1>2. QED
  BY <1>1 DEF Dismiss, HeldDialogsStay

\* What a step marks was neither left nor cut off before, if it is not now.
LEMMA WasFree ==
  ASSUME NEW js, NEW f, Marks(f, js), NEW k \in jobs', k.held, ~ k.left, ~ k.cut
  PROVE  \E j \in js : /\ k = f[j] /\ k.id = j.id /\ k.host = j.host
                       /\ j.held /\ ~ j.left /\ ~ j.cut
<1>1. PICK j \in js : k = f[j] /\ SameWork(k, j)
  BY DEF Marks
<1>2. k.id = j.id /\ k.host = j.host /\ k.held = j.held
  <2>1. SameWork(k, j)
    BY <1>1
  <2>2. QED
    BY <2>1, SameFields
<1>3. (j.left => k.left) /\ (j.cut => k.cut \/ k.left)
  BY <1>1 DEF SameWork
<1>4. QED
  BY <1>1, <1>2, <1>3

\* A dialog that is taken away from outside has its submissions cut off.
LEMMA AroundHeld ==
  ASSUME Shape, HeldDialogsStay, Around
  PROVE  HeldDialogsStay'
<1>1. PICK f : Spared(f)
  BY AroundTyped DEF Shape
<1>2. ASSUME NEW k \in jobs', k.held, ~ k.left, ~ k.cut
      PROVE  dialog' # Nothing /\ dialog'.id = k.id
  <2>1. PICK j \in jobs : /\ k = f[j] /\ k.id = j.id /\ k.host = j.host
                          /\ j.held /\ ~ j.left /\ ~ j.cut
    BY <1>1, <1>2, WasFree DEF Spared
  <2>2. dialog # Nothing /\ dialog.id = j.id
    BY <2>1 DEF HeldDialogsStay
  <2>3. j.host = dialog.form.host
    BY <2>2, OwnForm
  <2>4. dialog' # Nothing
    BY <1>1, <1>2, <2>1, <2>2, <2>3 DEF Spared
  <2>5. QED
    BY <1>1, <2>1, <2>2, <2>4 DEF Spared, SameDialog
<1>3. QED
  BY <1>2 DEF HeldDialogsStay

\* So has one that the late answer of another item's submission takes away.
LEMMA IntrudeHeld ==
  ASSUME Shape, HeldDialogsStay, NEW j \in jobs, Late(j), Intrude(j)
  PROVE  HeldDialogsStay'
<1>1. PICK f : /\ Marks(f, jobs \ {j})
               /\ \A k \in jobs \ {j} : k.host = "item-details" => f[k].cut \/ f[k].left
  BY Intruded
<1>2. ASSUME NEW k \in jobs', k.held, ~ k.left, ~ k.cut
      PROVE  dialog' # Nothing /\ dialog'.id = k.id
  <2>1. PICK i \in jobs \ {j} : /\ k = f[i] /\ k.id = i.id /\ k.host = i.host
                                /\ i.held /\ ~ i.left /\ ~ i.cut
    BY <1>1, <1>2, WasFree
  <2>2. dialog # Nothing /\ dialog.id = i.id
    BY <2>1 DEF HeldDialogsStay
  <2>3. i.host = dialog.form.host /\ i.host # "item-details"
    BY <1>1, <1>2, <2>1, <2>2, OwnForm
  <2>4. dialog' = dialog
    BY <2>2, <2>3, Intruded DEF ShownFor
  <2>5. QED
    BY <2>1, <2>2, <2>4
<1>3. QED
  BY <1>2 DEF HeldDialogsStay

\* The last answer closes no form but the one of its own submission.
LEMMA AnswerHeld ==
  ASSUME Shape, HeldDialogsStay, NEW j \in jobs, Answer(j)
  PROVE  HeldDialogsStay'
<1>1. CASE Len(j.todo) > 1
  <2>1. jobs' = (jobs \ {j}) \cup {Continued(j)} /\ UNCHANGED dialog
    BY <1>1, GoesOn
  <2>2. /\ Continued(j).held = j.held
        /\ Continued(j).id = j.id
        /\ Continued(j).left = j.left /\ Continued(j).cut = j.cut
    BY <1>1, ContinuedTyped
  <2>3. QED
    BY <2>1, <2>2 DEF HeldDialogsStay
<1>2. CASE ~ (Len(j.todo) > 1) /\ Late(j)
  BY <1>2, IntrudeHeld DEF Answer
<1>3. CASE ~ (Len(j.todo) > 1) /\ ~ Late(j)
  <2>1. jobs' = jobs \ {j} /\ dialog' = IF Closes(j) THEN Nothing ELSE dialog
    BY <1>3 DEF Answer
  <2>2. ASSUME NEW k \in jobs, k # j, k.held, ~ k.left, ~ k.cut
        PROVE  ~ Closes(j)
    <3> SUFFICES ASSUME Closes(j) PROVE FALSE
      OBVIOUS
    <3>1. dialog # Nothing /\ dialog.id = k.id
      BY <2>2 DEF HeldDialogsStay
    <3>2. k.host = j.host
      BY <3>1, OwnForm DEF Closes
    <3>3. ~ j.left
      BY <2>2, <3>2 DEF Closes, Shape, Parts, JobsOK
    <3>4. Beside(j, k)
      BY <2>2, <3>2, <3>3 DEF Shape, Parts, OneSaves
    <3>5. QED
      BY <2>2, <3>2, <3>4, HeldIsAlone
  <2>3. QED
    BY <2>1, <2>2 DEF HeldDialogsStay
<1>4. QED
  BY <1>1, <1>2, <1>3

\* Every step keeps it.
LEMMA NextHeld ==
  ASSUME Shape, HeldDialogsStay, [Next]_vars
  PROVE  HeldDialogsStay'
<1>1. CASE Around
  BY <1>1, AroundHeld
<1>2. CASE Leave
  <2>1. PICK f : Marks(f, jobs) /\ \A j \in jobs : f[j].left = (j.left \/ j.host # "quick")
    BY <1>2, LeaveMarks DEF Shape
  <2>2. ASSUME NEW k \in jobs', k.held
        PROVE  k.left
    <3>1. PICK j \in jobs : k = f[j] /\ SameWork(k, j)
      BY <2>1 DEF Marks
    <3>2. j.held
      BY <2>2, <3>1, SameFields
    <3>3. QED
      BY <2>1, <3>1, <3>2 DEF Shape, Parts, JobsOK
  <2>3. QED
    BY <2>2 DEF HeldDialogsStay
<1>3. CASE Dismiss
  BY <1>3, DismissHeld
<1>4. ASSUME NEW form \in FormsOf(page), Open(form)
      PROVE  HeldDialogsStay'
  BY <1>4 DEF Open, HeldDialogsStay
<1>5. ASSUME NEW plan, Submit(plan)
      PROVE  HeldDialogsStay'
  BY <1>5 DEF Submit, HeldDialogsStay
<1>6. ASSUME NEW j \in jobs, Perform(j)
      PROVE  HeldDialogsStay'
  <2>1. PICK k : Performed(j, k) /\ jobs' = (jobs \ {j}) \cup {k}
    BY <1>6, PerformTyped
  <2>2. UNCHANGED dialog
    BY <1>6 DEF Perform
  <2>3. QED
    BY <2>1, <2>2 DEF Performed, HeldDialogsStay
<1>7. ASSUME NEW j \in jobs, Answer(j)
      PROVE  HeldDialogsStay'
  BY <1>7, AnswerHeld
<1>8. ASSUME NEW j \in jobs, GiveUp(j)
      PROVE  HeldDialogsStay'
  BY <1>8 DEF GiveUp, HeldDialogsStay
<1>9. ASSUME NEW i \in DOMAIN opened, Stray(i)
      PROVE  HeldDialogsStay'
  BY <1>9 DEF Stray, HeldDialogsStay
<1>10. CASE UNCHANGED vars
  BY <1>10 DEF vars, HeldDialogsStay
<1>11. QED
  BY <1>1, <1>2, <1>3, <1>4, <1>5, <1>6, <1>7, <1>8, <1>9, <1>10, Steps

\* No error of a submission whose form is held goes unseen, and none of them closes
\* another dialog, what saving, busy and creating are kept for; but for the dialogs
\* that a reload, a scan or a late answer takes away or replaces.
THEOREM HeldStay == Spec => []HeldDialogsStay
<1>1. Init => HeldDialogsStay
  BY DEF Init, HeldDialogsStay
<1>2. Shape /\ HeldDialogsStay /\ [Next]_vars => HeldDialogsStay'
  BY NextHeld
<1>3. QED
  BY <1>1, <1>2, ShapeHolds, PTL DEF Spec
-----------------------------------------------------------------------------
(* Copies are reported.                                                    *)

Pending(j) == ~ j.done /\ Creates(Head(j.todo))

\* A submission of dialog i may still create a row, or the user may submit it.
MayCreate(i) ==
  \/ \E j \in jobs : j.id = i /\ Pending(j)
  \/ dialog # Nothing /\ dialog.id = i /\ \A j \in jobs : j.id # i

\* CopiesAreReported with what may still be created.
CountOK(o, may) ==
  /\ o.rows + o.strays <= 1 + o.reported
  /\ may => o.rows + o.strays <= o.reported

Counted ==
  \A i \in 1..Len(opened) :
    opened[i].host \notin Unflagged => CountOK(opened[i], MayCreate(i))

\* The dialog of an item creates nothing.
Unmade ==
  \A i \in 1..Len(opened) :
    opened[i].host = "item-details" => opened[i].rows + opened[i].strays = 0

\* A submission of that dialog creates nothing.
LEMMA DetailsCreateNothing ==
  ASSUME Shape, NEW j \in jobs, opened[j.id].host = "item-details"
  PROVE  ~ Creates(Head(j.todo))
<1>1. Barren(j.todo) /\ PlanOK(j.todo)
  BY DEF Shape, Parts, JobsOK
<1>2. QED
  BY <1>1 DEF Barren, PlanOK

\* No step makes it create anything.
LEMMA NextUnmade ==
  ASSUME Shape, Unmade, [Next]_vars
  PROVE  Unmade'
<1> USE DEF Unmade
<1>1. CASE UNCHANGED opened
  BY <1>1
<1>2. ASSUME NEW form \in FormsOf(page), Open(form)
      PROVE  Unmade'
  <2> DEFINE new == [host |-> form.host, rows |-> 0, reported |-> 0, strays |-> 0]
  <2>1. opened' = Append(opened, new) /\ opened \in Seq(Opened)
    BY <1>2 DEF Open, Shape, TypeOK
  <2>2. new.rows + new.strays = 0
    OBVIOUS
  <2> HIDE DEF new
  <2>3. \A n \in 1..Len(opened') :
           \/ n \in 1..Len(opened) /\ opened'[n] = opened[n]
           \/ opened'[n] = new
    BY <2>1
  <2>4. QED
    BY <2>2, <2>3
<1>3. ASSUME NEW j \in jobs, Perform(j)
      PROVE  Unmade'
  BY <1>3, PerformCounts, DetailsCreateNothing DEF SameHosts
<1>4. ASSUME NEW j \in jobs, GiveUp(j)
      PROVE  Unmade'
  BY <1>4, GiveUpCounts, DetailsCreateNothing DEF SameHosts
<1>5. ASSUME NEW i \in DOMAIN opened, Stray(i)
      PROVE  Unmade'
  BY <1>5, StrayCounts DEF SameHosts
<1>6. Around => UNCHANGED opened
  BY AroundTyped DEF Shape
<1>7. /\ Leave \/ Dismiss \/ UNCHANGED vars => UNCHANGED opened
      /\ \A plan : Submit(plan) => UNCHANGED opened
      /\ \A j \in jobs : Answer(j) => UNCHANGED opened
  BY DEF Leave, Dismiss, Submit, Answer, vars
<1>8. QED
  BY <1>1, <1>2, <1>3, <1>4, <1>5, <1>6, <1>7, Steps

\* Copies of one submission, where the code keeps a flag, create nothing.
LEMMA CopiesCreateNothing ==
  ASSUME Shape, NEW j \in jobs, NEW k \in jobs, j.id = k.id, j # k,
         opened[j.id].host \notin Unflagged
  PROVE  ~ Pending(j) /\ ~ Pending(k)
<1>1. Archives(j) /\ Archives(k)
  BY DEF Shape, Parts, JobsOK, OnePerDialog, Beside
<1>2. ~ Creates(Head(<<"archive">>))
  BY DEF Creates
<1>3. QED
  BY <1>1, <1>2 DEF Archives, Pending

\* A step that creates nothing, and lets nothing be created that could not be before.
LEMMA Undisturbed ==
  ASSUME Shape, Counted, SameHosts,
         \A n \in 1..Len(opened) :
           /\ opened'[n].reported = opened[n].reported
           /\ opened'[n].rows + opened'[n].strays = opened[n].rows + opened[n].strays,
         \A n \in 1..Len(opened) :
           opened[n].host \notin Unflagged /\ MayCreate(n)' =>
             MayCreate(n) \/ opened[n].rows + opened[n].strays = 0
  PROVE  Counted'
<1>1. ASSUME NEW n \in 1..Len(opened), opened[n].host \notin Unflagged
      PROVE  CountOK(opened'[n], MayCreate(n)')
  <2>1. opened[n] \in Opened
    BY DEF Shape, TypeOK
  <2>2. opened[n].reported \in Nat
    BY <2>1 DEF Opened
  <2>3. QED
    BY <1>1, <2>2 DEF Counted, CountOK
<1>2. QED
  BY <1>1 DEF Counted, SameHosts, CountOK

\* Marks let nothing be created, while the dialog is the same or goes.
LEMMA MarksCreate ==
  ASSUME Shape, NEW f, Marks(f, jobs), dialog' # Nothing => SameDialog
  PROVE  \A n : MayCreate(n)' => MayCreate(n)
<1>1. /\ \A k \in jobs' : \E j \in jobs : k.id = j.id /\ (Pending(k) => Pending(j))
      /\ \A j \in jobs : \E k \in jobs' : k.id = j.id
  BY SameFields DEF Marks, Pending
<1>2. \A n : MayCreate(n)' <=>
         \/ \E i \in jobs' : i.id = n /\ Pending(i)
         \/ dialog' # Nothing /\ dialog'.id = n /\ \A i \in jobs' : i.id # n
  BY DEF MayCreate, Pending, Creates
<1>3. QED
  BY <1>1, <1>2 DEF MayCreate, SameDialog

\* The dialog that a late answer opens again belongs to a submission that created nothing.
LEMMA IntrudeCreates ==
  ASSUME Shape, Unmade, NEW j \in jobs, Late(j), Intrude(j)
  PROVE  \A n \in 1..Len(opened) :
           MayCreate(n)' => MayCreate(n) \/ opened[n].rows + opened[n].strays = 0
<1>1. PICK f : Marks(f, jobs \ {j})
  BY Intruded
<1>2. /\ \A k \in jobs' : \E i \in jobs : k.id = i.id /\ (Pending(k) => Pending(i))
      /\ \A i \in jobs \ {j} : \E k \in jobs' : k.id = i.id
  BY <1>1, SameFields DEF Marks, Pending
<1>3. \A n : MayCreate(n)' <=>
         \/ \E i \in jobs' : i.id = n /\ Pending(i)
         \/ dialog' # Nothing /\ dialog'.id = n /\ \A i \in jobs' : i.id # n
  BY DEF MayCreate, Pending, Creates
<1>4. \/ dialog' = dialog
      \/ dialog' = Nothing
      \/ dialog' = [form |-> DetailForm, id |-> j.id, moved |-> FALSE, subject |-> Nothing]
  BY Intruded
<1>5. dialog # Nothing => dialog.id # j.id
  BY LateIsAlone
<1>6. opened[j.id].host = "item-details" /\ j.id \in 1..Len(opened)
  BY DEF Shape, Parts, JobsOK, Late
<1>7. opened[j.id].rows + opened[j.id].strays = 0
  BY <1>6 DEF Unmade
<1>8. QED
  BY <1>2, <1>3, <1>4, <1>5, <1>7 DEF MayCreate

\* The backend creates for a submission that was still to create.
LEMMA PerformCounted ==
  ASSUME Shape, Counted, NEW j \in jobs, Perform(j)
  PROVE  Counted'
<1>1. PICK k : Performed(j, k) /\ jobs' = (jobs \ {j}) \cup {k}
  BY PerformTyped
<1>2. UNCHANGED dialog /\ ~ j.done
  BY DEF Perform
<1>3. /\ SameHosts
      /\ \A n \in 1..Len(opened) :
           /\ opened'[n].reported = opened[n].reported
           /\ opened'[n].strays = opened[n].strays
           /\ opened'[n].rows = IF n = j.id /\ Creates(Head(j.todo))
                                THEN opened[n].rows + 1 ELSE opened[n].rows
  BY PerformCounts
<1>4. ~ Pending(k) /\ k.id = j.id
  BY <1>1 DEF Performed, Pending
<1>5. \A n \in 1..Len(opened) : MayCreate(n)' => MayCreate(n)
  <2>1. \A n : MayCreate(n)' <=>
           \/ \E i \in jobs' : i.id = n /\ Pending(i)
           \/ dialog # Nothing /\ dialog.id = n /\ \A i \in jobs' : i.id # n
    BY <1>2 DEF MayCreate, Pending, Creates
  <2>2. QED
    BY <1>1, <1>4, <2>1 DEF MayCreate
<1>6. CASE ~ Creates(Head(j.todo))
  BY <1>3, <1>5, <1>6, Undisturbed
<1>7. CASE Creates(Head(j.todo))
  <2>1. ASSUME NEW n \in 1..Len(opened), opened[n].host \notin Unflagged
        PROVE  CountOK(opened'[n], MayCreate(n)')
    <3>1. CountOK(opened[n], MayCreate(n)) /\ opened[n] \in Opened
      BY <2>1 DEF Counted, Shape, TypeOK
    <3>2. CASE n # j.id
      BY <1>3, <1>5, <3>1, <3>2 DEF CountOK
    <3>3. CASE n = j.id
      <4>1. MayCreate(n)
        BY <1>2, <1>7, <3>3 DEF MayCreate, Pending
      <4>2. ~ MayCreate(n)'
        <5>1. \A i \in jobs' : i.id = n => ~ Pending(i)
          BY <1>1, <1>4, <2>1, <3>3, CopiesCreateNothing
        <5>2. k \in jobs' /\ k.id = n
          BY <1>1, <1>4, <3>3
        <5>3. QED
          BY <5>1, <5>2 DEF MayCreate, Pending, Creates
      <4>3. QED
        BY <1>3, <1>7, <3>1, <3>3, <4>1, <4>2 DEF CountOK, Opened
    <3>4. QED
      BY <3>2, <3>3
  <2>2. QED
    BY <1>3, <2>1 DEF Counted, SameHosts, CountOK
<1>8. QED
  BY <1>6, <1>7

\* A submission that ends with its last answer has its dialog closed.
LEMMA AnswerCounted ==
  ASSUME Shape, Counted, Unmade, NEW j \in jobs, Answer(j)
  PROVE  Counted'
<1>1. UNCHANGED opened /\ SameHosts
  BY DEF Answer, SameHosts
<1>2. CASE Len(j.todo) > 1
  <2>1. jobs' = (jobs \ {j}) \cup {Continued(j)} /\ UNCHANGED dialog
    BY <1>2, GoesOn
  <2>2. Continued(j).id = j.id /\ ~ Pending(Continued(j))
    BY <1>2, ContinuedTyped DEF Pending
  <2>3. \A n : MayCreate(n)' => MayCreate(n)
    BY <2>1, <2>2 DEF MayCreate, Pending, Creates
  <2>4. QED
    BY <1>1, <2>3, Undisturbed
<1>3. CASE ~ (Len(j.todo) > 1) /\ Late(j)
  <2>1. Intrude(j)
    BY <1>3 DEF Answer
  <2>2. QED
    BY <1>1, <1>3, <2>1, IntrudeCreates, Undisturbed
<1>4. CASE ~ (Len(j.todo) > 1) /\ ~ Late(j)
  <2>1. jobs' = jobs \ {j} /\ dialog' = IF Closes(j) THEN Nothing ELSE dialog
    BY <1>4 DEF Answer
  <2>2. dialog # Nothing /\ dialog.id = j.id => Closes(j)
    BY OwnForm DEF Closes
  <2>3. \A n : MayCreate(n)' => MayCreate(n)
    BY <2>1, <2>2 DEF MayCreate, Pending, Creates
  <2>4. QED
    BY <1>1, <2>3, Undisturbed
<1>5. QED
  BY <1>2, <1>3, <1>4

\* A creation that is given up is paid for by its failure, which is seen if the
\* dialog is still there.
LEMMA GiveUpCounted ==
  ASSUME Shape, Counted, NEW j \in jobs, GiveUp(j)
  PROVE  Counted'
<1>1. jobs' = jobs \ {j} /\ UNCHANGED dialog
  BY DEF GiveUp
<1>2. /\ SameHosts
      /\ \A n \in 1..Len(opened) :
           /\ opened'[n].rows = opened[n].rows
           /\ opened'[n].reported = IF n = j.id /\ ~ j.left
                                    THEN opened[n].reported + 1 ELSE opened[n].reported
           /\ opened'[n].strays = IF n = j.id /\ ~ j.done /\ Creates(Head(j.todo))
                                  THEN opened[n].strays + 1 ELSE opened[n].strays
  BY GiveUpCounts
<1>3. ASSUME NEW n \in 1..Len(opened), opened[n].host \notin Unflagged
      PROVE  CountOK(opened'[n], MayCreate(n)')
  <2>1. CountOK(opened[n], MayCreate(n)) /\ opened[n] \in Opened
    BY <1>3 DEF Counted, Shape, TypeOK
  <2>2. CASE n # j.id
    <3>1. MayCreate(n)' => MayCreate(n)
      BY <1>1, <2>2 DEF MayCreate, Pending, Creates
    <3>2. QED
      BY <1>2, <2>1, <2>2, <3>1 DEF CountOK
  <2>3. CASE n = j.id
    <3>1. Pending(j) => MayCreate(n)
      BY <2>3 DEF MayCreate
    <3>2. MayCreate(n)' => ~ j.left
      <4>1. \A i \in jobs' : i.id = n => ~ Pending(i)
        BY <1>1, <1>3, <2>3, CopiesCreateNothing
      <4>2. MayCreate(n)' => dialog # Nothing /\ dialog.id = j.id
        BY <1>1, <2>3, <4>1 DEF MayCreate, Pending, Creates
      <4>3. QED
        BY <4>2, OwnForm
    <3>3. CASE Pending(j)
      <4>1. /\ opened'[n].rows = opened[n].rows
            /\ opened'[n].strays = opened[n].strays + 1
            /\ opened'[n].reported = IF ~ j.left THEN opened[n].reported + 1
                                     ELSE opened[n].reported
        BY <1>2, <2>3, <3>3 DEF Pending
      <4>2. opened[n].rows + opened[n].strays <= opened[n].reported
        BY <2>1, <3>1, <3>3 DEF CountOK
      <4>3. opened[n].rows \in Nat /\ opened[n].strays \in Nat /\ opened[n].reported \in Nat
        BY <2>1 DEF Opened
      <4>4. QED
        BY <3>2, <4>1, <4>2, <4>3 DEF CountOK
    <3>4. CASE ~ Pending(j)
      <4>1. opened'[n].strays = opened[n].strays /\ opened'[n].rows = opened[n].rows
        BY <1>2, <2>3, <3>4 DEF Pending
      <4>2. opened'[n].reported = IF ~ j.left THEN opened[n].reported + 1
                                  ELSE opened[n].reported
        BY <1>2, <2>3
      <4>3. opened[n].rows \in Nat /\ opened[n].strays \in Nat /\ opened[n].reported \in Nat
        BY <2>1 DEF Opened
      <4>4. opened[n].rows + opened[n].strays <= 1 + opened[n].reported
        BY <2>1 DEF CountOK
      <4>5. CASE j.left
        <5>1. ~ MayCreate(n)' /\ opened'[n].reported = opened[n].reported
          BY <3>2, <4>2, <4>5
        <5>2. QED
          BY <4>1, <4>4, <5>1 DEF CountOK
      <4>6. CASE ~ j.left
        <5>1. opened'[n].reported = opened[n].reported + 1
          BY <4>2, <4>6
        <5>2. QED
          BY <4>1, <4>3, <4>4, <5>1 DEF CountOK
      <4>7. QED
        BY <4>5, <4>6
    <3>5. QED
      BY <3>3, <3>4
  <2>4. QED
    BY <2>2, <2>3
<1>4. QED
  BY <1>2, <1>3 DEF Counted, SameHosts, CountOK

\* A dialog that is submitted has no submission yet, or copies one that archives.
LEMMA SubmitCounted ==
  ASSUME Shape, Counted, NEW plan, Submit(plan)
  PROVE  Counted'
<1> DEFINE new == [host |-> dialog.form.host, held |-> dialog.form.held, id |-> dialog.id,
                   subject |-> dialog.subject, moved |-> dialog.moved,
                   target |-> IF OnSelection(dialog.form) THEN selected ELSE Nothing,
                   todo |-> plan, done |-> FALSE, answer |-> {}, left |-> FALSE, cut |-> FALSE]
<1>1. /\ jobs' = jobs \cup {new} /\ UNCHANGED <<opened, dialog>>
      /\ dialog # Nothing /\ Submittable(plan)
  BY DEF Submit
<1>2. dialog.form.host = opened[dialog.id].host
  BY <1>1 DEF Shape, Parts, DialogOK
<1>3. ~ Creates(Head(<<"archive">>))
  BY DEF Creates
<1>4. new.id = dialog.id /\ new.todo = plan
  OBVIOUS
<1> HIDE DEF new
<1>5. ASSUME NEW n \in 1..Len(opened), opened[n].host \notin Unflagged, MayCreate(n)'
      PROVE  MayCreate(n)
  <2>1. CASE n # dialog.id
    BY <1>1, <1>4, <1>5, <2>1 DEF MayCreate, Pending, Creates
  <2>2. CASE n = dialog.id /\ \A j \in jobs : j.id # n
    BY <1>1, <2>2 DEF MayCreate
  <2>3. CASE n = dialog.id /\ \E j \in jobs : j.id = n
    <3>1. PICK j \in jobs : j.id = n
      BY <2>3
    <3>2. j.host = dialog.form.host /\ ~ j.left
      BY <1>1, <2>3, <3>1, OwnForm
    <3>3. plan = <<"archive">>
      BY <1>1, <1>2, <1>5, <2>3, <3>2 DEF Submittable
    <3>4. ~ Pending(new)
      BY <1>3, <1>4, <3>3 DEF Pending
    <3>5. QED
      BY <1>1, <1>4, <1>5, <2>3, <3>4 DEF MayCreate, Pending, Creates
  <2>4. QED
    BY <2>1, <2>2, <2>3
<1>6. SameHosts
  BY <1>1 DEF SameHosts
<1>7. QED
  BY <1>1, <1>5, <1>6, Undisturbed

\* A new dialog has created nothing.
LEMMA OpenCounted ==
  ASSUME Shape, Counted, NEW form \in FormsOf(page), Open(form)
  PROVE  Counted'
<1> DEFINE new == [host |-> form.host, rows |-> 0, reported |-> 0, strays |-> 0]
<1>1. /\ opened' = Append(opened, new) /\ opened \in Seq(Opened)
      /\ jobs' = jobs /\ dialog'.id = Len(opened) + 1
  BY DEF Open, Shape, TypeOK
<1>2. new.rows = 0 /\ new.reported = 0 /\ new.strays = 0
  OBVIOUS
<1> HIDE DEF new
<1>3. /\ Len(opened') = Len(opened) + 1
      /\ opened'[Len(opened) + 1] = new
      /\ \A n \in 1..Len(opened) : opened'[n] = opened[n]
  BY <1>1
<1>4. ASSUME NEW n \in 1..Len(opened), opened[n].host \notin Unflagged
      PROVE  CountOK(opened'[n], MayCreate(n)')
  <2>1. n # Len(opened) + 1
    BY <1>1
  <2>2. MayCreate(n)' => MayCreate(n)
    BY <1>1, <2>1 DEF MayCreate, Pending, Creates
  <2>3. QED
    BY <1>3, <1>4, <2>2 DEF Counted, CountOK
<1>5. ASSUME NEW n \in 1..Len(opened'), opened'[n].host \notin Unflagged
      PROVE  CountOK(opened'[n], MayCreate(n)')
  <2>1. n \in 1..Len(opened) \/ n = Len(opened) + 1
    BY <1>1, <1>3
  <2>2. CASE n \in 1..Len(opened)
    BY <1>3, <1>4, <1>5, <2>2
  <2>3. CASE n = Len(opened) + 1
    BY <1>2, <1>3, <2>3 DEF CountOK
  <2>4. QED
    BY <2>1, <2>2, <2>3
<1>6. QED
  BY <1>5 DEF Counted, CountOK

\* Every step keeps the count.
LEMMA NextCounted ==
  ASSUME Shape, Counted, Unmade, [Next]_vars
  PROVE  Counted'
<1>1. CASE Around
  <2>1. UNCHANGED opened /\ \E f : Spared(f)
    BY <1>1, AroundTyped DEF Shape
  <2>2. SameHosts /\ \A n : MayCreate(n)' => MayCreate(n)
    BY <2>1, MarksCreate DEF Spared, SameHosts
  <2>3. QED
    BY <2>1, <2>2, Undisturbed
<1>2. CASE Leave
  <2>1. UNCHANGED opened /\ \E f : Marks(f, jobs)
    BY <1>2, LeaveMarks DEF Leave, Shape
  <2>2. dialog' # Nothing => SameDialog
    BY <1>2 DEF Leave, SameDialog
  <2>3. SameHosts /\ \A n : MayCreate(n)' => MayCreate(n)
    BY <2>1, <2>2, MarksCreate DEF SameHosts
  <2>4. QED
    BY <2>1, <2>3, Undisturbed
<1>3. CASE Dismiss
  <2>1. SameHosts /\ UNCHANGED opened /\ \A n : MayCreate(n)' => MayCreate(n)
    BY <1>3 DEF Dismiss, SameHosts, MayCreate, Pending, Creates
  <2>2. QED
    BY <2>1, Undisturbed
<1>4. ASSUME NEW i \in DOMAIN opened, Stray(i)
      PROVE  Counted'
  <2>1. \A n : MayCreate(n)' => MayCreate(n)
    BY <1>4 DEF Stray, MayCreate, Pending, Creates
  <2>2. QED
    BY <1>4, <2>1, StrayCounts, Undisturbed
<1>5. CASE UNCHANGED vars
  <2>1. SameHosts /\ UNCHANGED opened /\ \A n : MayCreate(n)' => MayCreate(n)
    BY <1>5 DEF vars, SameHosts, MayCreate, Pending, Creates
  <2>2. QED
    BY <2>1, Undisturbed
<1>6. QED
  BY <1>1, <1>2, <1>3, <1>4, <1>5, Steps, OpenCounted, SubmitCounted, PerformCounted,
     AnswerCounted, GiveUpCounted

\* A form that keeps a flag makes one row, and one more at most for each failure
\* it has shown, whatever fails, is late, or is left in the meantime.
THEOREM CopiesReported == Spec => []CopiesAreReported
<1>1. Init => Counted /\ Unmade
  BY DEF Init, Counted, Unmade
<1>2. Shape /\ Counted /\ Unmade /\ [Next]_vars => Counted' /\ Unmade'
  BY NextCounted, NextUnmade
<1>3. Counted /\ Shape => CopiesAreReported
  BY DEF Counted, CountOK, CopiesAreReported, Shape, TypeOK
<1>4. QED
  BY <1>1, <1>2, <1>3, ShapeHolds, PTL DEF Spec
-----------------------------------------------------------------------------
(* A dialog acts on the area it was opened for.                            *)

Lists(plan) == \E n \in 1..Len(plan) : plan[n] = "list"

\* The forms whose subject is the selected area, and those that read the list.
LEMMA AreaFormsShape ==
  ASSUME NEW form \in Forms
  PROVE  /\ OnSelection(form) => /\ form.host = "locations"
                                 /\ form.plans # {<<"create-area", "list">>}
         /\ \A plan \in form.plans :
              /\ Head(plan) = "create-area" => ~ OnSelection(form)
              /\ Lists(plan) => /\ form.held /\ form.host = "locations"
                                /\ plan \in {<<"create-area", "list">>, <<"delete-area", "list">>}
<1>1. FormOK(form)
  BY FormsOK DEF Forms
<1>2. CASE \A plan \in form.plans : Plain(plan)
  <2>1. \A plan \in form.plans : Head(plan) \notin AreaCalls /\ ~ Lists(plan)
    BY <1>1, <1>2 DEF FormOK, PlanOK, Plain, Lists, AreaCalls
  <2>2. QED
    BY <2>1 DEF OnSelection, AreaCalls
<1>3. CASE form \in AreaForms
  <2>1. /\ form.host = "locations" /\ form.held = TRUE
        /\ \/ form.plans = {<<"create-area", "list">>}
           \/ form.plans = {<<"update-area">>}
           \/ form.plans = {<<"delete-area", "list">>}
    BY <1>3 DEF AreaForms, Form
  <2>2. CASE form.plans = {<<"create-area", "list">>}
    BY <2>1, <2>2 DEF OnSelection
  <2>3. CASE form.plans = {<<"update-area">>}
    BY <2>1, <2>3 DEF OnSelection, Lists
  <2>4. CASE form.plans = {<<"delete-area", "list">>}
    BY <2>1, <2>4 DEF OnSelection
  <2>5. QED
    BY <2>1, <2>2, <2>3, <2>4
<1>4. QED
  BY <1>1, <1>2, <1>3 DEF FormOK

\* No page and no answer has an area that was never given out.
Known == /\ listed \subseteq used
         /\ \A l \in loads : l.list \subseteq used
         /\ \A j \in jobs : j.answer \subseteq used

\* The answer that was not overtaken has every area that any other has, and that
\* is still there.
Newest ==
  \A l \in loads :
    ~ l.superseded =>
      /\ listed \cap areas \subseteq l.list
      /\ \A m \in loads : m.list \cap areas \subseteq l.list
      /\ \A j \in jobs : j.answer \cap areas \subseteq l.list

Gone(a) == a \in used \ areas

\* Only a form that is held reads the list, and it is the last it does.
WorkOK ==
  \A j \in jobs :
    /\ Head(j.todo) = "create-area" => j.subject = Nothing
    /\ Lists(j.todo) =>
         /\ j.held /\ j.host = "locations"
         /\ j.todo \in {<<"create-area", "list">>, <<"delete-area", "list">>, <<"list">>}

\* The selection stays on the subject of the open dialog, and its submissions
\* have the same subject.
DialogSubject ==
  dialog # Nothing =>
    /\ dialog.subject # Nothing =>
         /\ OnSelection(dialog.form)
         /\ \/ dialog.moved
            \/ Gone(dialog.subject)
            \/ selected = dialog.subject /\ selected \in listed
    /\ \A j \in jobs :
         j.id = dialog.id => j.subject = dialog.subject /\ (j.moved => dialog.moved)

JobSubject ==
  \A j \in jobs : j.subject # Nothing => j.target = j.subject \/ j.moved \/ Gone(j.subject)

SubjectInv == Known /\ Newest /\ WorkOK /\ DialogSubject /\ JobSubject

\* No area is in the database again, or forgotten to have been.
Aged == used \subseteq used' /\ areas' \cap used \subseteq areas

\* Areas come and go, and the lists are as new as before.
LEMMA AgedKeeps ==
  ASSUME SubjectInv, Aged
  PROVE  /\ \A a : Gone(a) => Gone(a)'
         /\ UNCHANGED <<listed, loads, jobs>> => Known' /\ Newest'
         /\ UNCHANGED jobs => WorkOK' /\ JobSubject'
         /\ UNCHANGED <<dialog, selected, listed, jobs>> => DialogSubject'
<1>1. \A a : Gone(a) => Gone(a)'
  BY DEF Aged, Gone
<1>2. UNCHANGED <<listed, loads, jobs>> => Known' /\ Newest'
  BY DEF SubjectInv, Known, Newest, Aged
<1>3. UNCHANGED jobs => WorkOK' /\ JobSubject'
  BY <1>1 DEF SubjectInv, WorkOK, JobSubject, Lists, Gone
<1>4. UNCHANGED <<dialog, selected, listed, jobs>> => DialogSubject'
  BY <1>1 DEF SubjectInv, DialogSubject, OnSelection, Gone
<1>5. QED
  BY <1>1, <1>2, <1>3, <1>4

\* Submissions that are marked or have ended are about the same areas.
LEMMA MarksSubject ==
  ASSUME SubjectInv, Shape, NEW js \in SUBSET jobs, NEW f, Marks(f, js), Aged
  PROVE  /\ WorkOK' /\ JobSubject'
         /\ \A k \in jobs' : \E j \in js : k.answer = j.answer
         /\ UNCHANGED <<listed, loads>> => Known' /\ Newest'
<1>1. ASSUME NEW k \in jobs'
      PROVE  \E j \in js :
               /\ k.host = j.host /\ k.held = j.held /\ k.subject = j.subject
               /\ k.moved = j.moved /\ k.target = j.target /\ k.todo = j.todo
               /\ k.answer = j.answer
  <2>1. PICK j \in js : SameWork(k, j)
    BY DEF Marks
  <2>2. QED
    BY <2>1, SameFields
<1>2. \A a : Gone(a) => Gone(a)'
  BY AgedKeeps
<1>3. WorkOK'
  <2>1. ASSUME NEW k \in jobs'
        PROVE  /\ Head(k.todo) = "create-area" => k.subject = Nothing
               /\ Lists(k.todo) =>
                    /\ k.held /\ k.host = "locations"
                    /\ k.todo \in {<<"create-area", "list">>, <<"delete-area", "list">>,
                                   <<"list">>}
    <3>1. PICK j \in js : /\ k.host = j.host /\ k.held = j.held
                          /\ k.subject = j.subject /\ k.todo = j.todo
      BY <1>1
    <3>2. QED
      BY <3>1 DEF SubjectInv, WorkOK
  <2>2. QED
    BY <2>1 DEF WorkOK, Lists
<1>4. JobSubject'
  BY <1>1, <1>2 DEF SubjectInv, JobSubject, Gone
<1>5. \A k \in jobs' : \E j \in js : k.answer = j.answer
  BY <1>1
<1>6. UNCHANGED <<listed, loads>> => Known' /\ Newest'
  BY <1>5 DEF SubjectInv, Known, Newest, Aged
<1>7. QED
  BY <1>3, <1>4, <1>5, <1>6

\* The mark of a dialog under which the selection moves.
LEMMA MovedMarks ==
  ASSUME TypeOK, dialog # Nothing
  PROVE  /\ Moved(dialog).subject = dialog.subject
         /\ Moved(dialog).moved = (dialog.moved \/ OnSelection(dialog.form))
<1>1. dialog \in Dialog
  BY DialogTyped
<1>2. QED
  BY <1>1 DEF Moved, Dialog

\* The subjects of a dialog's submissions are those they had.
LEMMA OwnSubjects ==
  ASSUME SubjectInv, NEW js \in SUBSET jobs, NEW f, Marks(f, js), dialog # Nothing
  PROVE  \A k \in jobs' :
           k.id = dialog.id => k.subject = dialog.subject /\ (k.moved => dialog.moved)
<1>1. \A j \in jobs :
         j.id = dialog.id => j.subject = dialog.subject /\ (j.moved => dialog.moved)
  BY DEF SubjectInv, DialogSubject
<1>2. ASSUME NEW k \in jobs', k.id = dialog.id
      PROVE  k.subject = dialog.subject /\ (k.moved => dialog.moved)
  <2>1. PICK j \in js : SameWork(k, j)
    BY DEF Marks
  <2>2. k.id = j.id /\ k.subject = j.subject /\ k.moved = j.moved
    BY <2>1, SameFields
  <2>3. QED
    BY <1>1, <1>2, <2>2
<1>3. QED
  BY <1>2

\* A dialog that is marked needs nothing more.
LEMMA MovedSubject ==
  ASSUME Shape, SubjectInv, dialog' = Moved(dialog) \/ dialog' = Nothing,
         NEW f, Marks(f, jobs)
  PROVE  DialogSubject'
<1>1. CASE dialog' = Nothing
  BY <1>1 DEF DialogSubject
<1>2. CASE dialog' = Moved(dialog) /\ dialog # Nothing
  <2>1. /\ dialog'.subject = dialog.subject /\ dialog'.id = dialog.id /\ dialog'.form = dialog.form
        /\ dialog'.moved = (dialog.moved \/ OnSelection(dialog.form))
    BY <1>2, MovedMarks, MovedIsTheSame DEF Shape
  <2>2. dialog.subject # Nothing => OnSelection(dialog.form)
    BY <1>2 DEF SubjectInv, DialogSubject
  <2>3. \A k \in jobs' :
           k.id = dialog.id => k.subject = dialog.subject /\ (k.moved => dialog.moved)
    BY <1>2, OwnSubjects
  <2>4. QED
    BY <2>1, <2>2, <2>3 DEF DialogSubject, OnSelection
<1>3. QED
  BY <1>1, <1>2 DEF Moved

\* A new reading is the newest.
LEMMA RefreshSubject ==
  ASSUME SubjectInv, Refresh, Shape
  PROVE  SubjectInv'
<1> DEFINE new == [list |-> areas, superseded |-> FALSE]
<1>1. UNCHANGED <<areas, used, listed, selected, dialog, jobs>> /\ loads' = Overtaken \cup {new}
  BY DEF Refresh
<1>2. WorkOK' /\ JobSubject' /\ DialogSubject'
  BY <1>1, AgedKeeps DEF Aged
<1>3. new.list = areas /\ areas \subseteq used
  BY DEF Shape, TypeOK
<1>4. \A m \in Overtaken : m.superseded /\ \E l \in loads : m.list = l.list
  BY DEF Overtaken, Shape, TypeOK
<1> HIDE DEF new
<1>5. Known'
  BY <1>1, <1>3, <1>4 DEF SubjectInv, Known
<1>6. Newest'
  BY <1>1, <1>3, <1>4 DEF Newest
<1>7. QED
  BY <1>2, <1>5, <1>6 DEF SubjectInv

\* The dialog that is open is closed, marked or left as it is.
LEMMA ArriveDialog ==
  ASSUME NEW l, ArriveList(l)
  PROVE  /\ l.superseded => dialog' = Moved(dialog) \/ dialog' = Nothing
         /\ ~ l.superseded => dialog' = dialog \/ dialog' = Nothing
<1>1. Moved(Nothing) = Nothing
  BY DEF Moved
<1>2. QED
  BY <1>1 DEF ArriveList, Outside

\* An answer that was not overtaken has the subject, unless it is gone.
LEMMA ArriveSubject ==
  ASSUME SubjectInv, NEW l \in loads, ArriveList(l), Shape
  PROVE  SubjectInv'
<1>1. /\ UNCHANGED <<areas, used>> /\ loads' = loads \ {l} /\ listed' = l.list
      /\ Take(l.list, selected)
  BY DEF ArriveList, Take, Candidate
<1>2. PICK f : Marks(f, jobs)
  <2>1. Around
    BY DEF Around
  <2>2. QED
    BY <2>1, AroundTyped DEF Shape, Spared
<1>3. WorkOK' /\ JobSubject' /\ \A k \in jobs' : \E j \in jobs : k.answer = j.answer
  BY <1>1, <1>2, MarksSubject DEF Aged
<1>4. Known' /\ Newest'
  BY <1>1, <1>3 DEF SubjectInv, Known, Newest
<1>5. CASE l.superseded
  BY <1>2, <1>3, <1>4, <1>5, ArriveDialog, MovedSubject DEF SubjectInv
<1>6. CASE ~ l.superseded
  <2>1. ASSUME dialog # Nothing, dialog.subject # Nothing, ~ dialog.moved, ~ Gone(dialog.subject)
        PROVE  selected' = dialog.subject /\ selected' \in listed'
    <3>1. selected = dialog.subject /\ selected \in listed
      BY <2>1 DEF SubjectInv, DialogSubject
    <3>2. selected \in areas
      BY <2>1, <3>1 DEF SubjectInv, Known, Gone
    <3>3. selected \in l.list
      BY <1>6, <3>1, <3>2 DEF SubjectInv, Newest
    <3>4. QED
      BY <1>1, <3>1, <3>3 DEF Take
  <2>2. DialogSubject'
    <3>1. CASE dialog' = Nothing
      BY <3>1 DEF DialogSubject
    <3>2. CASE dialog' = dialog /\ dialog # Nothing
      <4>1. \A k \in jobs' :
              k.id = dialog.id => k.subject = dialog.subject /\ (k.moved => dialog.moved)
        BY <1>2, <3>2, OwnSubjects
      <4>2. QED
        BY <1>1, <2>1, <3>2, <4>1 DEF SubjectInv, DialogSubject, OnSelection, Gone
    <3>3. QED
      BY <1>6, <3>1, <3>2, ArriveDialog
  <2>3. QED
    BY <1>3, <1>4, <2>2 DEF SubjectInv
<1>7. QED
  BY <1>5, <1>6

\* Others add and delete areas, and the selection follows a scan or a click.
LEMMA WorldSubject ==
  ASSUME SubjectInv, Shape, NEW a \in Areas,
         OtherAdds(a) \/ OtherDeletes(a) \/ Reveal(a) \/ SelectArea(a)
  PROVE  SubjectInv'
<1>1. CASE OtherAdds(a) \/ OtherDeletes(a)
  <2>1. Aged /\ UNCHANGED <<listed, selected, loads, dialog, jobs>>
    BY <1>1 DEF OtherAdds, OtherDeletes, Aged, Shape, TypeOK
  <2>2. QED
    BY <2>1, AgedKeeps DEF SubjectInv
<1>2. CASE Reveal(a)
  <2>1. PICK f : Marks(f, jobs)
    <3>1. Around
      BY <1>2 DEF Around
    <3>2. QED
      BY <3>1, AroundTyped DEF Shape, Spared
  <2>2. UNCHANGED <<areas, used, listed, loads>>
    BY <1>2 DEF Reveal
  <2>3. dialog' = Moved(dialog) \/ dialog' = Nothing
    <3>1. Moved(Nothing) = Nothing
      BY DEF Moved
    <3>2. QED
      BY <1>2, <3>1 DEF Reveal, Outside
  <2>4. WorkOK' /\ JobSubject' /\ Known' /\ Newest'
    BY <2>1, <2>2, MarksSubject DEF Aged
  <2>5. QED
    BY <2>1, <2>3, <2>4, MovedSubject DEF SubjectInv
<1>3. CASE SelectArea(a)
  <2>1. UNCHANGED <<areas, used, listed, loads, jobs, dialog>> /\ dialog = Nothing
    BY <1>3 DEF SelectArea
  <2>2. DialogSubject'
    BY <2>1 DEF DialogSubject
  <2>3. QED
    BY <2>1, <2>2, AgedKeeps DEF SubjectInv, Aged
<1>4. QED
  BY <1>1, <1>2, <1>3

\* The dialog of an item has no area for a subject, and goes or is shown another item.
LEMMA ItemSubject ==
  ASSUME SubjectInv, Shape, Vanish \/ RevealItem
  PROVE  SubjectInv'
<1>1. PICK f : Marks(f, jobs)
  <2>1. Around
    BY DEF Around
  <2>2. QED
    BY <2>1, AroundTyped DEF Shape, Spared
<1>2. UNCHANGED <<areas, used, listed, selected, loads>> /\ (dialog' = Nothing \/ dialog' = dialog)
  BY DEF Vanish, RevealItem
<1>3. WorkOK' /\ JobSubject' /\ Known' /\ Newest'
  BY <1>1, <1>2, MarksSubject DEF Aged
<1>4. DialogSubject'
  <2>1. CASE dialog' = Nothing
    BY <2>1 DEF DialogSubject
  <2>2. CASE dialog' = dialog /\ dialog # Nothing
    <3>1. \A k \in jobs' :
            k.id = dialog.id => k.subject = dialog.subject /\ (k.moved => dialog.moved)
      BY <1>1, <2>2, OwnSubjects
    <3>2. QED
      BY <1>2, <2>2, <3>1 DEF SubjectInv, DialogSubject, OnSelection, Gone
  <2>3. QED
    BY <1>2, <2>1, <2>2
<1>5. QED
  BY <1>3, <1>4 DEF SubjectInv

\* A page that is opened again starts with nothing, and reads what there is.
LEMMA LeaveSubject ==
  ASSUME SubjectInv, Shape, Leave
  PROVE  SubjectInv'
<1>1. UNCHANGED <<areas, used>> /\ listed' = {} /\ \A l \in loads' : l.list = areas
  <2>1. loads' \subseteq {[list |-> areas, superseded |-> FALSE]}
    BY DEF Leave
  <2>2. UNCHANGED <<areas, used>> /\ listed' = {}
    BY DEF Leave
  <2>3. QED
    BY <2>1, <2>2
<1>2. PICK f : Marks(f, jobs)
  BY LeaveMarks DEF Shape
<1>3. WorkOK' /\ JobSubject' /\ \A k \in jobs' : \E j \in jobs : k.answer = j.answer
  BY <1>1, <1>2, MarksSubject DEF Aged
<1>4. Known' /\ Newest'
  BY <1>1, <1>3 DEF SubjectInv, Known, Newest, Shape, TypeOK
<1>5. DialogSubject'
  <2>1. SUFFICES ASSUME dialog' # Nothing PROVE DialogSubject'
    BY DEF DialogSubject
  <2>2. dialog' = dialog /\ dialog # Nothing /\ dialog.form.host = "quick"
    BY <2>1 DEF Leave
  <2>3. dialog.form \in Forms
    BY <2>2, DialogTyped DEF Shape
  <2>4. dialog.subject = Nothing
    BY <2>2, <2>3, AreaFormsShape DEF SubjectInv, DialogSubject
  <2>5. \A k \in jobs' :
           k.id = dialog.id => k.subject = dialog.subject /\ (k.moved => dialog.moved)
    BY <1>2, <2>2, OwnSubjects
  <2>6. QED
    BY <2>2, <2>4, <2>5 DEF DialogSubject
<1>6. QED
  BY <1>3, <1>4, <1>5 DEF SubjectInv

\* A dialog is opened for an area that is listed and selected.
LEMMA OpenSubject ==
  ASSUME SubjectInv, Shape, NEW form \in FormsOf(page), Open(form)
  PROVE  SubjectInv'
<1>1. UNCHANGED <<areas, used, listed, selected, loads, jobs>>
  BY DEF Open
<1>2. form \in Forms
  BY DEF Shape, TypeOK, Forms
<1>3. /\ dialog'.form = form /\ dialog'.id = Len(opened) + 1 /\ dialog'.moved = FALSE
      /\ dialog'.subject = IF OnSelection(form) THEN selected ELSE Nothing
  BY DEF Open
<1>4. OnSelection(form) => selected \in listed
  BY <1>2, AreaFormsShape DEF Open, Offered
<1>5. \A j \in jobs : j.id # Len(opened) + 1
  BY DEF Shape, TypeOK, Parts, JobsOK
<1>6. DialogSubject'
  BY <1>1, <1>3, <1>4, <1>5 DEF DialogSubject, OnSelection
<1>7. QED
  BY <1>1, <1>6, AgedKeeps DEF SubjectInv, Aged

\* A submission takes the selected area, which is the subject unless it was moved or is gone.
LEMMA SubmitSubject ==
  ASSUME SubjectInv, Shape, NEW plan, Submit(plan)
  PROVE  SubjectInv'
<1> DEFINE new == [host |-> dialog.form.host, held |-> dialog.form.held, id |-> dialog.id,
                   subject |-> dialog.subject, moved |-> dialog.moved,
                   target |-> IF OnSelection(dialog.form) THEN selected ELSE Nothing,
                   todo |-> plan, done |-> FALSE, answer |-> {}, left |-> FALSE, cut |-> FALSE]
<1>1. /\ UNCHANGED <<areas, used, listed, selected, loads, dialog>> /\ jobs' = jobs \cup {new}
      /\ dialog # Nothing /\ plan \in dialog.form.plans
  BY DEF Submit
<1>2. /\ new.host = dialog.form.host /\ new.held = dialog.form.held
      /\ new.id = dialog.id /\ new.subject = dialog.subject
      /\ new.moved = dialog.moved /\ new.todo = plan /\ new.answer = {}
      /\ OnSelection(dialog.form) => new.target = selected
  OBVIOUS
<1> HIDE DEF new
<1>3. dialog.form \in Forms
  BY <1>1, DialogTyped DEF Shape
<1>4. /\ dialog.subject # Nothing =>
           /\ OnSelection(dialog.form)
           /\ dialog.moved \/ Gone(dialog.subject) \/ selected = dialog.subject
      /\ \A j \in jobs :
           j.id = dialog.id => j.subject = dialog.subject /\ (j.moved => dialog.moved)
  BY <1>1 DEF SubjectInv, DialogSubject
<1>5. Known' /\ Newest'
  BY <1>1, <1>2 DEF SubjectInv, Known, Newest
<1>6. WorkOK'
  <2>1. Head(plan) = "create-area" => dialog.subject = Nothing
    BY <1>1, <1>3, <1>4, AreaFormsShape
  <2>2. Lists(plan) => /\ dialog.form.held /\ dialog.form.host = "locations"
                       /\ plan \in {<<"create-area", "list">>, <<"delete-area", "list">>}
    BY <1>1, <1>3, AreaFormsShape
  <2>3. QED
    BY <1>1, <1>2, <2>1, <2>2 DEF SubjectInv, WorkOK, Lists
<1>7. JobSubject'
  BY <1>1, <1>2, <1>4 DEF SubjectInv, JobSubject, Gone
<1>8. DialogSubject'
  BY <1>1, <1>2, <1>4 DEF SubjectInv, DialogSubject, OnSelection, Gone
<1>9. QED
  BY <1>5, <1>6, <1>7, <1>8 DEF SubjectInv

\* The backend's part of a submission: what it creates is new, what it deletes is
\* gone, and what it lists is all there is.
LEMMA PerformSubject ==
  ASSUME SubjectInv, Shape, NEW j \in jobs, Perform(j)
  PROVE  SubjectInv'
<1>0. j \in Job /\ UNCHANGED <<listed, selected, dialog>>
  BY DEF Shape, TypeOK, Perform
<1>1. ASSUME NEW k, jobs' = (jobs \ {j}) \cup {k}, Aged,
             k.id = j.id, k.subject = j.subject, k.moved = j.moved, k.todo = j.todo,
             k.held = j.held, k.host = j.host,
             j.subject # Nothing => k.target = j.target
      PROVE  WorkOK' /\ JobSubject' /\ DialogSubject'
  <2>1. \A a : Gone(a) => Gone(a)'
    BY <1>1, AgedKeeps
  <2>2. WorkOK'
    BY <1>1 DEF SubjectInv, WorkOK, Lists
  <2>3. JobSubject'
    BY <1>1, <2>1 DEF SubjectInv, JobSubject, Gone
  <2>4. DialogSubject'
    BY <1>0, <1>1, <2>1 DEF SubjectInv, DialogSubject, OnSelection, Gone
  <2>5. QED
    BY <2>2, <2>3, <2>4
<1>2. ASSUME NEW k, jobs' = (jobs \ {j}) \cup {k}, Aged, k.answer = j.answer, UNCHANGED loads
      PROVE  Known' /\ Newest'
  BY <1>0, <1>2 DEF SubjectInv, Known, Newest, Aged
<1>3. ASSUME Head(j.todo) = "create-area",
             \E a \in Areas \ used :
               /\ used' = used \cup {a}
               /\ areas' = areas \cup {a}
               /\ jobs' = (jobs \ {j}) \cup {[j EXCEPT !.done = TRUE, !.target = a]},
             UNCHANGED loads
      PROVE  SubjectInv'
  <2>1. PICK a \in Areas \ used :
          /\ used' = used \cup {a}
          /\ areas' = areas \cup {a}
          /\ jobs' = (jobs \ {j}) \cup {[j EXCEPT !.done = TRUE, !.target = a]}
    BY <1>3
  <2>2. Aged
    BY <2>1 DEF Aged
  <2>3. j.subject = Nothing
    BY <1>3 DEF SubjectInv, WorkOK
  <2>4. LET k == [j EXCEPT !.done = TRUE, !.target = a] IN
        /\ k.id = j.id /\ k.subject = j.subject /\ k.moved = j.moved /\ k.todo = j.todo
        /\ k.held = j.held /\ k.host = j.host /\ k.answer = j.answer
    BY <1>0 DEF Job
  <2>5. QED
    BY <1>1, <1>2, <1>3, <2>1, <2>2, <2>3, <2>4 DEF SubjectInv
<1>4. LET k == [j EXCEPT !.done = TRUE] IN
      /\ k.id = j.id /\ k.subject = j.subject /\ k.moved = j.moved /\ k.todo = j.todo
      /\ k.held = j.held /\ k.host = j.host /\ k.answer = j.answer /\ k.target = j.target
  BY <1>0 DEF Job
<1>5. ASSUME areas' = (IF Head(j.todo) = "delete-area" THEN areas \ {j.target} ELSE areas),
             Done(j), UNCHANGED <<used, loads>>
      PROVE  SubjectInv'
  <2>1. Aged /\ jobs' = (jobs \ {j}) \cup {[j EXCEPT !.done = TRUE]}
    BY <1>5 DEF Aged, Done
  <2>2. QED
    BY <1>1, <1>2, <1>4, <1>5, <2>1 DEF SubjectInv
<1>6. ASSUME jobs' = (jobs \ {j}) \cup {[j EXCEPT !.done = TRUE, !.answer = areas]},
             loads' = Overtaken, UNCHANGED <<areas, used>>
      PROVE  SubjectInv'
  <2>1. LET k == [j EXCEPT !.done = TRUE, !.answer = areas] IN
        /\ k.id = j.id /\ k.subject = j.subject /\ k.moved = j.moved /\ k.todo = j.todo
        /\ k.held = j.held /\ k.host = j.host /\ k.answer = areas /\ k.target = j.target
    BY <1>0 DEF Job
  <2>2. WorkOK' /\ JobSubject' /\ DialogSubject'
    BY <1>1, <1>6, <2>1 DEF Aged
  <2>3. \A m \in Overtaken : m.superseded /\ \E l \in loads : m.list = l.list
    BY DEF Overtaken, Shape, TypeOK
  <2>4. Known'
    BY <1>0, <1>6, <2>1, <2>3 DEF SubjectInv, Known, Shape, TypeOK
  <2>5. Newest'
    BY <1>6, <2>3 DEF Newest
  <2>6. QED
    BY <2>2, <2>4, <2>5 DEF SubjectInv
<1>7. ASSUME Done(j), UNCHANGED <<areas, used, loads>>
      PROVE  SubjectInv'
  <2>1. Aged /\ jobs' = (jobs \ {j}) \cup {[j EXCEPT !.done = TRUE]}
    BY <1>7 DEF Aged, Done
  <2>2. QED
    BY <1>1, <1>2, <1>4, <1>7, <2>1 DEF SubjectInv
<1>8. QED
  BY <1>3, <1>5, <1>6, <1>7 DEF Perform

\* The dialog that a late answer opens again is about an item.
LEMMA IntrudeSubject ==
  ASSUME SubjectInv, Shape, NEW j \in jobs, Late(j), Intrude(j),
         UNCHANGED <<areas, used, listed, selected, loads>>
  PROVE  SubjectInv'
<1>1. PICK f : Marks(f, jobs \ {j})
  BY Intruded
<1>2. jobs \ {j} \in SUBSET jobs
  OBVIOUS
<1>3. WorkOK' /\ JobSubject' /\ Known' /\ Newest'
  BY <1>1, <1>2, MarksSubject DEF Aged
<1> DEFINE new == [form |-> DetailForm, id |-> j.id, moved |-> FALSE, subject |-> Nothing]
<1>4. dialog' = dialog \/ dialog' = Nothing \/ dialog' = new
  BY Intruded
<1>5. new.id = j.id /\ new.subject = Nothing
  OBVIOUS
<1> HIDE DEF new
<1>6. CASE dialog' = Nothing
  BY <1>3, <1>6 DEF SubjectInv, DialogSubject
<1>7. CASE dialog' = dialog /\ dialog # Nothing
  <2>1. \A k \in jobs' :
          k.id = dialog.id => k.subject = dialog.subject /\ (k.moved => dialog.moved)
    BY <1>1, <1>2, <1>7, OwnSubjects
  <2>2. DialogSubject'
    BY <1>7, <2>1 DEF SubjectInv, DialogSubject, OnSelection, Gone
  <2>3. QED
    BY <1>3, <2>2 DEF SubjectInv
<1>8. CASE dialog' = new
  <2>1. \A k \in jobs' : k.id # j.id
    <3>1. SUFFICES ASSUME NEW k \in jobs', k.id = j.id PROVE FALSE
      OBVIOUS
    <3>2. PICK i \in jobs \ {j} : SameWork(k, i)
      BY <1>1 DEF Marks
    <3>3. i.id = j.id
      BY <3>1, <3>2, SameFields
    <3>4. QED
      BY <3>3, LateIsAlone
  <2>2. DialogSubject'
    BY <1>5, <1>8, <2>1 DEF DialogSubject
  <2>3. QED
    BY <1>3, <2>2 DEF SubjectInv
<1>9. QED
  BY <1>4, <1>6, <1>7, <1>8

\* The answer that brings the list closes the dialog it is for; no other answer
\* touches the selection.
LEMMA AnswerSubject ==
  ASSUME SubjectInv, Shape, HeldDialogsStay, NEW j \in jobs, Answer(j)
  PROVE  SubjectInv'
<1>0. UNCHANGED <<areas, used, loads>> /\ j \in Job /\ PlanOK(j.todo)
  BY DEF Answer, Shape, TypeOK, Parts, JobsOK
<1>1. ASSUME ~ (Len(j.todo) = 1 /\ Late(j))
      PROVE  Known' /\ Newest' /\ WorkOK' /\ JobSubject'
  <2>1. listed' = listed \/ listed' = j.answer
    BY DEF Answer, Take
  <2>2. CASE Len(j.todo) > 1
    <3> DEFINE k == Continued(j)
    <3>1. jobs' = (jobs \ {j}) \cup {k}
      BY <2>2, GoesOn
    <3>2. /\ k.subject = j.subject /\ k.target = j.target /\ k.moved = j.moved
          /\ k.answer = j.answer /\ k.held = j.held /\ k.host = j.host
          /\ k.todo = Tail(j.todo)
      BY <1>0 DEF Job, Continued
    <3>3. ~ Creates(Head(k.todo))
      BY <2>2, ContinuedTyped
    <3>4. Lists(k.todo) => k.held /\ k.host = "locations" /\ k.todo = <<"list">>
      <4>1. Lists(k.todo) => Lists(j.todo)
        BY <1>0, <2>2, <3>2 DEF Lists, PlanOK
      <4>2. Lists(j.todo) => /\ j.held /\ j.host = "locations"
                             /\ Tail(j.todo) = <<"list">>
        <5>1. /\ Tail(<<"create-area", "list">>) = <<"list">>
              /\ Tail(<<"delete-area", "list">>) = <<"list">>
              /\ Len(<<"list">>) = 1
          OBVIOUS
        <5>2. Lists(j.todo) =>
                /\ j.held /\ j.host = "locations"
                /\ \/ j.todo = <<"create-area", "list">>
                   \/ j.todo = <<"delete-area", "list">>
                   \/ j.todo = <<"list">>
          BY DEF SubjectInv, WorkOK
        <5>3. j.todo # <<"list">>
          <6> SUFFICES ASSUME j.todo = <<"list">> PROVE FALSE
            OBVIOUS
          <6>1. Len(j.todo) = 1
            OBVIOUS
          <6>2. QED
            BY <2>2, <6>1
        <5>4. QED
          BY <5>1, <5>2, <5>3
      <4>3. QED
        BY <3>2, <4>1, <4>2
    <3> HIDE DEF k
    <3>5. WorkOK'
      BY <3>1, <3>2, <3>3, <3>4 DEF SubjectInv, WorkOK, Lists, Creates
    <3>6. JobSubject'
      BY <1>0, <3>1, <3>2 DEF SubjectInv, JobSubject, Gone
    <3>7. Known' /\ Newest'
      BY <1>0, <2>1, <3>1, <3>2 DEF SubjectInv, Known, Newest
    <3>8. QED
      BY <3>5, <3>6, <3>7
  <2>3. CASE ~ (Len(j.todo) > 1)
    <3>1. jobs' = jobs \ {j}
      BY <1>1, <2>3 DEF Answer
    <3>2. QED
      BY <1>0, <2>1, <3>1 DEF SubjectInv, Known, Newest, WorkOK, Lists, JobSubject, Gone
  <2>4. QED
    BY <2>2, <2>3
<1>2. ASSUME UNCHANGED <<listed, selected>>, ~ (Len(j.todo) = 1 /\ Late(j))
      PROVE  DialogSubject'
  <2>1. CASE Len(j.todo) > 1
    <3>1. UNCHANGED dialog /\ jobs' = (jobs \ {j}) \cup {Continued(j)}
      BY <2>1, GoesOn
    <3>2. /\ Continued(j).subject = j.subject /\ Continued(j).moved = j.moved
          /\ Continued(j).id = j.id
      BY <1>0 DEF Job, Continued
    <3>3. QED
      BY <1>0, <1>2, <3>1, <3>2 DEF SubjectInv, DialogSubject, OnSelection, Gone
  <2>2. CASE ~ (Len(j.todo) > 1)
    <3>1. jobs' = jobs \ {j} /\ (dialog' = dialog \/ dialog' = Nothing)
      BY <1>2, <2>2 DEF Answer
    <3>2. QED
      BY <1>0, <1>2, <3>1 DEF SubjectInv, DialogSubject, OnSelection, Gone
  <2>3. QED
    BY <2>1, <2>2
<1>3. CASE Len(j.todo) = 1 /\ Late(j)
  <2>1. Intrude(j) /\ UNCHANGED <<listed, selected>>
    BY <1>3 DEF Answer, Late
  <2>2. QED
    BY <1>0, <1>3, <2>1, IntrudeSubject
<1>4. CASE ~ (Len(j.todo) = 1 /\ Late(j)) /\ Head(j.todo) = "list" /\ ~ j.left
  <2>1. j.held /\ j.host = "locations" /\ j.todo = <<"list">>
    <3>1. Lists(j.todo)
      BY <1>0, <1>4 DEF Lists, PlanOK
    <3>2. QED
      BY <1>4, <3>1 DEF SubjectInv, WorkOK
  <2>2. ~ j.cut
    BY <2>1 DEF Shape, Parts, JobsOK
  <2>3. dialog # Nothing /\ dialog.id = j.id
    BY <1>4, <2>1, <2>2 DEF HeldDialogsStay
  <2>4. Closes(j)
    BY <1>4, <2>1, <2>3, OwnForm DEF Closes
  <2>5. dialog' = Nothing
    BY <1>4, <2>1, <2>4 DEF Answer
  <2>6. DialogSubject'
    BY <2>5 DEF DialogSubject
  <2>7. QED
    BY <1>1, <1>4, <2>6 DEF SubjectInv
<1>5. CASE ~ (Len(j.todo) = 1 /\ Late(j)) /\ ~ (Head(j.todo) = "list" /\ ~ j.left)
  <2>1. UNCHANGED <<listed, selected>>
    BY <1>5 DEF Answer
  <2>2. QED
    BY <1>1, <1>2, <1>5, <2>1 DEF SubjectInv
<1>6. QED
  BY <1>3, <1>4, <1>5

\* Every step keeps it.
LEMMA NextSubject ==
  ASSUME SubjectInv, Shape, HeldDialogsStay, [Next]_vars
  PROVE  SubjectInv'
<1>1. CASE Around
  BY <1>1, RefreshSubject, ArriveSubject, WorldSubject, ItemSubject DEF Around
<1>2. CASE Dismiss
  <2>1. UNCHANGED <<areas, used, listed, selected, loads, jobs>> /\ dialog' = Nothing
    BY <1>2 DEF Dismiss
  <2>2. DialogSubject'
    BY <2>1 DEF DialogSubject
  <2>3. QED
    BY <2>1, <2>2, AgedKeeps DEF SubjectInv, Aged
<1>3. ASSUME NEW j \in jobs, GiveUp(j)
      PROVE  SubjectInv'
  <2>1. /\ UNCHANGED <<areas, used, listed, selected, loads, dialog>>
        /\ jobs' = jobs \ {j}
    BY <1>3 DEF GiveUp
  <2>2. Known' /\ Newest' /\ WorkOK' /\ JobSubject'
    BY <2>1 DEF SubjectInv, Known, Newest, WorkOK, Lists, JobSubject, Gone
  <2>3. DialogSubject'
    BY <2>1 DEF SubjectInv, DialogSubject, OnSelection, Gone
  <2>4. QED
    BY <2>2, <2>3 DEF SubjectInv
<1>4. ASSUME NEW i \in DOMAIN opened, Stray(i)
      PROVE  SubjectInv'
  <2>1. UNCHANGED <<areas, used, listed, selected, loads, dialog, jobs>>
    BY <1>4 DEF Stray
  <2>2. QED
    BY <2>1, AgedKeeps DEF SubjectInv, Aged
<1>5. CASE UNCHANGED vars
  <2>1. UNCHANGED <<areas, used, listed, selected, loads, dialog, jobs>>
    BY <1>5 DEF vars
  <2>2. QED
    BY <2>1, AgedKeeps DEF SubjectInv, Aged
<1>6. QED
  BY <1>1, <1>2, <1>3, <1>4, <1>5, Steps, LeaveSubject, OpenSubject, SubmitSubject,
     PerformSubject, AnswerSubject

\* An area is renamed or deleted only from a dialog that was opened for it, but for
\* the exceptions of the code, however many lists are on their way to the page.
THEOREM ActsOnSubject == Spec => []ActsOnItsSubject
<1>1. Init => SubjectInv
  BY DEF Init, SubjectInv, Known, Newest, WorkOK, DialogSubject, JobSubject
<1>2. SubjectInv /\ Shape /\ HeldDialogsStay /\ [Next]_vars => SubjectInv'
  BY NextSubject
<1>3. SubjectInv => ActsOnItsSubject
  BY DEF SubjectInv, JobSubject, Gone, ActsOnItsSubject
<1>4. QED
  BY <1>1, <1>2, <1>3, ShapeHolds, HeldStay, PTL DEF Spec
=============================================================================
