--------------------------- MODULE IdentifiersProofs -------------------------
(***************************************************************************)
(* Proofs about Identifiers, for any identifiers, targets, phones and tags. *)
(*                                                                          *)
(* Inv says what each stage of a request has read: the rows it will write   *)
(* were created, and the row it replaces is of the target and medium of the *)
(* row it activates.  No other request can undo that, because the target    *)
(* and the medium of a row never change.                                    *)
(*                                                                          *)
(* That no call hangs is shown in two parts: each step leaves a call fewer  *)
(* steps, and of calls that wait for each other one is in a circle, which   *)
(* the database breaks.                                                     *)
(***************************************************************************)
EXTENDS Identifiers, FiniteSetTheorems, WellFoundedInduction, TLAPS

Rows == [Ids -> Ident \cup {NoIdent}]

Born(rows, i) == i \in Ids /\ rows[i] \in Ident

\* A row that is revoked when another one is activated.
Replaces(rows, i, j) ==
  /\ Born(rows, i)
  /\ Born(rows, j)
  /\ i # j
  /\ rows[j].target = rows[i].target
  /\ rows[j].medium = rows[i].medium

CallOK(rows, c) ==
  /\ c.pc \in {"create", "reread"} => c.target \in Targets
  /\ c.pc \in {"previous", "flush", "update", "commit", "revoke", "done"} => Born(rows, c.id)
  /\ c.prev # None => Replaces(rows, c.id, c.prev)

\* A job that runs has a tag, and one that has written it knows what.
TaggedJob ==
  {j \in Job : (j.pc # "idle" => j.tag \in Tags) /\ (j.pc = "written" => j.id \in Ids)}

Inv == /\ TypeOK
       /\ job \in [Phones -> TaggedJob]
       /\ \A p \in Phones : CallOK(ident, call[p])
       /\ \A g \in Tags : tag[g] # None => Born(ident, tag[g])

\* What a row is for does not change.
Lasting ==
  \A i \in Ids :
    ident[i] \in Ident =>
      /\ ident'[i] \in Ident
      /\ ident'[i].target = ident[i].target
      /\ ident'[i].medium = ident[i].medium

\* Requests that are not told stay as good as they were.
LEMMA OthersOK ==
  ASSUME Lasting, NEW c, CallOK(ident, c)
  PROVE  CallOK(ident', c)
BY DEF Lasting, CallOK, Replaces, Born

\* A step of one request.
LEMMA CallChanges ==
  ASSUME Inv, NEW p \in Phones, NEW c \in Call, call' = [call EXCEPT ![p] = c],
         ident' \in Rows, Lasting, CallOK(ident', c),
         job' \in [Phones -> TaggedJob], tag' \in [Tags -> MaybeId],
         \A g \in Tags : tag'[g] = tag[g] \/ Born(ident', tag'[g])
  PROVE  Inv'
<1>1. TypeOK'
  BY DEF Inv, TypeOK, Rows, TaggedJob
<1>2. \A q \in Phones : CallOK(ident', call'[q])
  <2>1. ASSUME NEW q \in Phones
        PROVE  CallOK(ident', call'[q])
    <3>1. CASE q = p
      BY <3>1 DEF Inv, TypeOK
    <3>2. CASE q # p
      BY <3>2, OthersOK DEF Inv, TypeOK
    <3>3. QED
      BY <3>1, <3>2
  <2>2. QED
    BY <2>1
<1>3. \A g \in Tags : tag'[g] # None => Born(ident', tag'[g])
  BY DEF Inv, Lasting, Born
<1>4. QED
  BY <1>1, <1>2, <1>3 DEF Inv, CallOK, Replaces, Born

\* A step of one request that writes no row, and no tag.
LEMMA CallMoves ==
  ASSUME Inv, NEW p \in Phones, NEW c \in Call, call' = [call EXCEPT ![p] = c],
         UNCHANGED <<ident, tag>>, CallOK(ident, c), job' \in [Phones -> TaggedJob]
  PROVE  Inv'
<1>1. ident' \in Rows /\ Lasting
  BY DEF Inv, TypeOK, Rows, Lasting
<1>2. QED
  BY <1>1, CallChanges DEF Inv, TypeOK

\* An answer.
Answer(result, i) == [NoCall EXCEPT !.pc = result, !.id = i]

\* It is one, and names a row when it is good.
LEMMA AnswerOK ==
  ASSUME NEW rows, NEW i \in MaybeId, NEW result \in {"done", "failed"},
         result = "done" => Born(rows, i)
  PROVE  Answer(result, i) \in Call /\ CallOK(rows, Answer(result, i))
<1>1. /\ Answer(result, i) \in Call
      /\ Answer(result, i).pc = result /\ Answer(result, i).id = i
      /\ Answer(result, i).prev = None
  BY DEF Answer, NoCall, Call, MaybeId, Media
<1>2. QED
  BY <1>1 DEF CallOK

\* A row with a status was created.
LEMMA HavingBorn ==
  ASSUME Inv, NEW i \in Ids, ident[i].status \in {"pending", "active", "revoked"}
  PROVE  Born(ident, i)
BY DEF Inv, TypeOK, Born, NoIdent

\* A request is answered with a row.
LEMMA ReturnInv ==
  ASSUME Inv, NEW p \in Phones, NEW i \in MaybeId, NEW result \in {"done", "failed"},
         Return(p, result, i), UNCHANGED <<ident, tag>>, job' \in [Phones -> TaggedJob],
         result = "done" => Born(ident, i)
  PROVE  Inv'
<1>1. call' = [call EXCEPT ![p] = Answer(result, i)]
  BY DEF Return, Answer
<1>2. QED
  BY <1>1, AnswerOK, CallMoves

\* create_identifier reads.
LEMMA CreateReadInv ==
  ASSUME Inv, NEW p \in Phones, NEW t \in Targets, NEW m \in Media, CreateRead(p, t, m),
         UNCHANGED <<ident, tag>>, job' \in [Phones -> TaggedJob]
  PROVE  Inv'
<1> DEFINE existing == Having(t, m, {FirstStatus(m)})
           c == [NoCall EXCEPT !.pc = "create", !.target = t, !.medium = m]
<1>1. \A i \in existing : i \in Ids /\ Born(ident, i)
  BY HavingBorn DEF Having, FirstStatus
<1>2. CASE existing # {}
  <2>1. PICK i \in existing : Return(p, "done", i)
    BY <1>2 DEF CreateRead
  <2>2. QED
    BY <1>1, <2>1, ReturnInv DEF MaybeId
<1>3. CASE existing = {}
  <2>1. call' = [call EXCEPT ![p] = c]
    BY <1>3 DEF CreateRead
  <2>2. c \in Call /\ CallOK(ident, c)
    BY DEF NoCall, Call, MaybeId, CallOK
  <2> HIDE DEF c
  <2>3. QED
    BY <2>1, <2>2, CallMoves
<1>4. QED
  BY <1>2, <1>3

\* activate_identifier reads a row that was created.
LEMMA ActivateReadInv ==
  ASSUME Inv, NEW p \in Phones, NEW i, Born(ident, i), ActivateRead(p, i),
         UNCHANGED ident, job' \in [Phones -> TaggedJob], tag' \in [Tags -> MaybeId],
         \A g \in Tags : tag'[g] = tag[g] \/ Born(ident, tag'[g])
  PROVE  Inv'
<1> DEFINE c == [NoCall EXCEPT !.pc = "previous", !.id = i]
<1>1. i \in MaybeId /\ None \in MaybeId
  BY DEF Born, MaybeId
<1>2. \/ call' = [call EXCEPT ![p] = Answer("failed", None)]
      \/ call' = [call EXCEPT ![p] = Answer("done", i)]
      \/ call' = [call EXCEPT ![p] = c]
  BY DEF ActivateRead, Return, Answer
<1>3. c \in Call /\ CallOK(ident, c)
  BY <1>1 DEF NoCall, Call, MaybeId, CallOK, Media
<1> HIDE DEF c
<1>4. PICK d \in Call : call' = [call EXCEPT ![p] = d] /\ CallOK(ident, d)
  <2>1. /\ Answer("failed", None) \in Call /\ CallOK(ident, Answer("failed", None))
        /\ Answer("done", i) \in Call /\ CallOK(ident, Answer("done", i))
    BY <1>1, AnswerOK
  <2>2. QED
    BY <1>2, <1>3, <2>1
<1>5. ident' \in Rows /\ Lasting
  BY DEF Inv, TypeOK, Rows, Lasting
<1>6. QED
  BY <1>4, <1>5, CallChanges

\* revoke_identifier reads a row that was created.
LEMMA RevokeReadInv ==
  ASSUME Inv, NEW p \in Phones, NEW i, Born(ident, i), RevokeRead(p, i),
         UNCHANGED <<ident, tag>>, job' \in [Phones -> TaggedJob]
  PROVE  Inv'
<1> DEFINE c == [NoCall EXCEPT !.pc = "revoke", !.id = i]
<1>1. i \in MaybeId
  BY DEF Born, MaybeId
<1>2. CASE ident[i].status = "revoked"
  BY <1>1, <1>2, ReturnInv DEF RevokeRead
<1>3. CASE ident[i].status # "revoked"
  <2>1. call' = [call EXCEPT ![p] = c]
    BY <1>3 DEF RevokeRead
  <2>2. c \in Call /\ CallOK(ident, c)
    BY <1>1 DEF NoCall, Call, MaybeId, CallOK, Media
  <2> HIDE DEF c
  <2>3. QED
    BY <2>1, <2>2, CallMoves
<1>4. QED
  BY <1>2, <1>3

\* The insertion makes one new row.
LEMMA CreateInsertInv ==
  ASSUME Inv, NEW p \in Phones, CreateInsert(p)
  PROVE  Inv'
<1>0. call[p] \in Call /\ call[p].target \in Targets /\ UNCHANGED <<job, tag>>
  BY DEF CreateInsert, Inv, TypeOK, CallOK
<1>1. CASE Clash(call[p].target, call[p].medium)
  <2> DEFINE c == [call[p] EXCEPT !.pc = "reread"]
  <2>1. call' = [call EXCEPT ![p] = c] /\ UNCHANGED ident
    BY <1>0, <1>1 DEF CreateInsert
  <2>2. c \in Call
    BY <1>0 DEF Call
  <2>3. c.pc = "reread" /\ c.target = call[p].target /\ c.prev = call[p].prev /\ c.id = call[p].id
    BY <1>0 DEF Call
  <2> HIDE DEF c
  <2>4. CallOK(ident, c)
    BY <1>0, <2>3 DEF Inv, CallOK
  <2>5. QED
    BY <1>0, <2>1, <2>2, <2>4, CallMoves DEF Inv, TypeOK
<1>2. CASE ~ Clash(call[p].target, call[p].medium)
  <2> DEFINE r == [status |-> FirstStatus(call[p].medium), target |-> call[p].target,
                   medium |-> call[p].medium]
  <2>1. PICK i \in Unborn : ident' = [ident EXCEPT ![i] = r] /\ Return(p, "done", i)
    BY <1>2 DEF CreateInsert
  <2>2. r \in Ident
    BY <1>0 DEF Ident, FirstStatus, Call
  <2>3. i \in Ids /\ ident[i] \notin Ident
    BY DEF Unborn, NoIdent, Ident
  <2> HIDE DEF r
  <2>4. ident' \in Rows /\ Lasting /\ Born(ident', i)
    BY <2>1, <2>2, <2>3 DEF Inv, TypeOK, Rows, Lasting, Born
  <2>5. call' = [call EXCEPT ![p] = Answer("done", i)]
    BY <2>1 DEF Return, Answer
  <2>6. Answer("done", i) \in Call /\ CallOK(ident', Answer("done", i))
    BY <2>3, <2>4, AnswerOK DEF MaybeId
  <2>7. QED
    BY <1>0, <2>4, <2>5, <2>6, CallChanges DEF Inv, TypeOK
<1>3. QED
  BY <1>1, <1>2

\* After a refused insertion a pending row is looked for.
LEMMA CreateRereadInv ==
  ASSUME Inv, NEW p \in Phones, CreateReread(p)
  PROVE  Inv'
<1> DEFINE existing == Having(call[p].target, call[p].medium, {"pending"})
<1>1. UNCHANGED <<ident, job, tag>> /\ job' \in [Phones -> TaggedJob]
  BY DEF CreateReread, Inv, TypeOK
<1>2. \A i \in existing : i \in MaybeId /\ Born(ident, i)
  BY HavingBorn DEF Having, MaybeId
<1>3. ASSUME NEW i \in existing, Return(p, "done", i)
      PROVE  Inv'
  BY <1>1, <1>2, <1>3, ReturnInv
<1>4. CASE Return(p, "failed", None)
  BY <1>1, <1>4, ReturnInv DEF MaybeId
<1>5. QED
  BY <1>3, <1>4 DEF CreateReread

\* The row that will be replaced is another one of the target and medium.
LEMMA ActivatePreviousInv ==
  ASSUME Inv, NEW p \in Phones, ActivatePrevious(p)
  PROVE  Inv'
<1> DEFINE active == Rivals(call[p].id, {"active"})
<1>0. /\ call[p] \in Call /\ CallOK(ident, call[p]) /\ call[p].pc = "previous"
      /\ UNCHANGED <<ident, job, tag>> /\ job' \in [Phones -> TaggedJob]
  BY DEF ActivatePrevious, Inv, TypeOK
<1>1. Born(ident, call[p].id)
  BY <1>0 DEF CallOK
<1>2. ASSUME NEW i \in active, call' = [call EXCEPT ![p].pc = "flush", ![p].prev = i]
      PROVE  Inv'
  <2> DEFINE c == [call[p] EXCEPT !.pc = "flush", !.prev = i]
  <2>1. call' = [call EXCEPT ![p] = c]
    BY <1>0, <1>2 DEF Inv, TypeOK
  <2>2. /\ i \in Ids /\ i # call[p].id
        /\ ident[i].status = "active"
        /\ ident[i].target = ident[call[p].id].target
        /\ ident[i].medium = ident[call[p].id].medium
    BY DEF Rivals, Having
  <2>3. Replaces(ident, call[p].id, i)
    BY <1>1, <2>2, HavingBorn DEF Replaces
  <2>4. c \in Call /\ c.pc = "flush" /\ c.id = call[p].id /\ c.prev = i
    BY <1>0, <2>2 DEF Call, MaybeId
  <2> HIDE DEF c
  <2>5. CallOK(ident, c)
    BY <1>1, <2>3, <2>4 DEF CallOK
  <2>6. QED
    BY <1>0, <2>1, <2>4, <2>5, CallMoves
<1>3. CASE call' = [call EXCEPT ![p].pc = "update"]
  <2> DEFINE c == [call[p] EXCEPT !.pc = "update"]
  <2>1. call' = [call EXCEPT ![p] = c]
    BY <1>0, <1>3 DEF Inv, TypeOK
  <2>2. c \in Call /\ c.pc = "update" /\ c.id = call[p].id /\ c.prev = call[p].prev
    BY <1>0 DEF Call
  <2> HIDE DEF c
  <2>3. CallOK(ident, c)
    BY <1>0, <1>1, <2>2 DEF CallOK
  <2>4. QED
    BY <1>0, <2>1, <2>2, <2>3, CallMoves
<1>4. QED
  BY <1>2, <1>3 DEF ActivatePrevious

\* The lock of the previous row is taken.
LEMMA ActivateFlushInv ==
  ASSUME Inv, NEW p \in Phones, ActivateFlush(p)
  PROVE  Inv'
<1> DEFINE c == [call[p] EXCEPT !.pc = "update"]
<1>0. /\ call[p] \in Call /\ CallOK(ident, call[p]) /\ call[p].pc = "flush"
      /\ UNCHANGED <<ident, job, tag>> /\ job' \in [Phones -> TaggedJob]
  BY DEF ActivateFlush, Inv, TypeOK
<1>1. call' = [call EXCEPT ![p] = c]
  BY <1>0 DEF ActivateFlush, Inv, TypeOK
<1>2. c \in Call /\ c.pc = "update" /\ c.id = call[p].id /\ c.prev = call[p].prev
  BY <1>0 DEF Call
<1> HIDE DEF c
<1>3. CallOK(ident, c)
  BY <1>0, <1>2 DEF CallOK
<1>4. QED
  BY <1>0, <1>1, <1>2, <1>3, CallMoves

\* And that of the row to activate.
LEMMA ActivateUpdateInv ==
  ASSUME Inv, NEW p \in Phones, ActivateUpdate(p)
  PROVE  Inv'
<1> DEFINE c == [call[p] EXCEPT !.pc = "commit"]
<1>0. /\ call[p] \in Call /\ CallOK(ident, call[p]) /\ call[p].pc = "update"
      /\ UNCHANGED <<ident, job, tag>> /\ job' \in [Phones -> TaggedJob]
  BY DEF ActivateUpdate, Inv, TypeOK
<1>1. call' = [call EXCEPT ![p] = c]
  BY <1>0 DEF ActivateUpdate, Inv, TypeOK
<1>2. c \in Call /\ c.pc = "commit" /\ c.id = call[p].id /\ c.prev = call[p].prev
  BY <1>0 DEF Call
<1> HIDE DEF c
<1>3. CallOK(ident, c)
  BY <1>0, <1>2 DEF CallOK
<1>4. QED
  BY <1>0, <1>1, <1>2, <1>3, CallMoves

\* What the commit of an activation does to the rows.
LEMMA ReplacedRows ==
  ASSUME Inv, NEW p \in Phones, call[p].pc = "commit"
  PROVE  /\ Replaced(p) \in Rows
         /\ \A i \in Ids :
              /\ ident[i] \in Ident => Replaced(p)[i] \in Ident
              /\ Replaced(p)[i] = IF i = call[p].prev THEN [ident[i] EXCEPT !.status = "revoked"]
                                  ELSE IF i = call[p].id THEN [ident[i] EXCEPT !.status = "active"]
                                  ELSE ident[i]
              /\ Replaced(p)[i].status = IF i = call[p].prev THEN "revoked"
                                         ELSE IF i = call[p].id THEN "active"
                                         ELSE ident[i].status
              /\ Replaced(p)[i].target = ident[i].target
              /\ Replaced(p)[i].medium = ident[i].medium
<1>1. /\ Born(ident, call[p].id)
      /\ call[p].prev # None => Born(ident, call[p].prev) /\ call[p].prev # call[p].id
  BY DEF Inv, CallOK, Replaces
<1>2. \A i \in Ids :
        Replaced(p)[i] = IF i = call[p].prev THEN [ident[i] EXCEPT !.status = "revoked"]
                         ELSE IF i = call[p].id THEN [ident[i] EXCEPT !.status = "active"]
                         ELSE ident[i]
  BY <1>1, ConstantsAssumption DEF Replaced
<1>3. ASSUME NEW i \in Ids
      PROVE  /\ Replaced(p)[i] \in Ident \cup {NoIdent}
             /\ ident[i] \in Ident => Replaced(p)[i] \in Ident
             /\ Replaced(p)[i].status = IF i = call[p].prev THEN "revoked"
                                        ELSE IF i = call[p].id THEN "active"
                                        ELSE ident[i].status
             /\ Replaced(p)[i].target = ident[i].target
             /\ Replaced(p)[i].medium = ident[i].medium
  <2>1. CASE i = call[p].prev
    <3>1. ident[i] \in Ident
      BY <1>1, <2>1, ConstantsAssumption DEF Born
    <3>2. QED
      BY <1>2, <2>1, <3>1 DEF Ident
  <2>2. CASE i # call[p].prev /\ i = call[p].id
    <3>1. ident[i] \in Ident
      BY <1>1, <2>2 DEF Born
    <3>2. QED
      BY <1>2, <2>2, <3>1 DEF Ident
  <2>3. CASE i # call[p].prev /\ i # call[p].id
    BY <1>2, <2>3 DEF Inv, TypeOK
  <2>4. QED
    BY <2>1, <2>2, <2>3
<1>4. Replaced(p) \in Rows
  BY <1>3 DEF Replaced, Rows
<1>5. QED
  BY <1>2, <1>3, <1>4

\* One row is revoked and one active, or the index refuses.
LEMMA ActivateCommitInv ==
  ASSUME Inv, NEW p \in Phones, ActivateCommit(p)
  PROVE  Inv'
<1>0. /\ call[p] \in Call /\ CallOK(ident, call[p]) /\ call[p].pc = "commit"
      /\ UNCHANGED <<job, tag>> /\ job' \in [Phones -> TaggedJob]
  BY DEF ActivateCommit, Inv, TypeOK
<1>1. CASE ident' = Replaced(p) /\ Return(p, "done", call[p].id)
  <2>1. ident' \in Rows /\ Lasting
    BY <1>0, <1>1, ReplacedRows DEF Lasting
  <2>2. Born(ident, call[p].id)
    BY <1>0 DEF CallOK
  <2>3. Born(ident', call[p].id) /\ call[p].id \in MaybeId
    BY <2>1, <2>2 DEF Lasting, Born, MaybeId
  <2>4. call' = [call EXCEPT ![p] = Answer("done", call[p].id)]
    BY <1>1 DEF Return, Answer
  <2>5. /\ Answer("done", call[p].id) \in Call
        /\ CallOK(ident', Answer("done", call[p].id))
    BY <2>3, AnswerOK
  <2>6. QED
    BY <1>0, <2>1, <2>4, <2>5, CallChanges DEF Inv, TypeOK
<1>2. CASE Return(p, "failed", None) /\ UNCHANGED ident
  BY <1>0, <1>2, ReturnInv DEF MaybeId
<1>3. QED
  BY <1>1, <1>2 DEF ActivateCommit

\* An activation is given up.
LEMMA ActivateAbortedInv ==
  ASSUME Inv, NEW p \in Phones, ActivateAborted(p)
  PROVE  Inv'
<1>1. Return(p, "failed", None) /\ UNCHANGED <<ident, tag>> /\ job' \in [Phones -> TaggedJob]
  BY DEF ActivateAborted, Inv
<1>2. QED
  BY <1>1, ReturnInv DEF MaybeId

\* One row is revoked.
LEMMA RevokeCommitInv ==
  ASSUME Inv, NEW p \in Phones, RevokeCommit(p)
  PROVE  Inv'
<1> DEFINE i == call[p].id
           r == [ident[i] EXCEPT !.status = "revoked"]
<1>0. /\ call[p] \in Call /\ Born(ident, i)
      /\ UNCHANGED <<job, tag>> /\ job' \in [Phones -> TaggedJob]
  BY DEF RevokeCommit, Inv, TypeOK, CallOK
<1>1. ident' = [ident EXCEPT ![i] = r] /\ call' = [call EXCEPT ![p] = Answer("done", i)]
  BY <1>0 DEF RevokeCommit, Return, Answer, Born, Inv, TypeOK
<1>2. r \in Ident /\ r.target = ident[i].target /\ r.medium = ident[i].medium
  BY <1>0 DEF Born, Ident
<1> HIDE DEF r
<1>3. ident' \in Rows /\ Lasting /\ Born(ident', i)
  BY <1>0, <1>1, <1>2 DEF Inv, TypeOK, Rows, Lasting, Born
<1>4. Answer("done", i) \in Call /\ CallOK(ident', Answer("done", i))
  BY <1>0, <1>3, AnswerOK DEF Born, MaybeId
<1>5. QED
  BY <1>0, <1>1, <1>3, <1>4, CallChanges DEF Inv, TypeOK

\* The server's part.
LEMMA ServerInv ==
  ASSUME Inv, NEW p \in Phones, ServerStep(p)
  PROVE  Inv'
BY CreateInsertInv, CreateRereadInv, ActivatePreviousInv, ActivateFlushInv, ActivateUpdateInv,
   ActivateCommitInv, ActivateAbortedInv, RevokeCommitInv DEF ServerStep

\* A job that has ended, and the answer that is no longer waited for.
LEMMA EndInv ==
  ASSUME Inv, NEW p \in Phones, call' = [call EXCEPT ![p] = NoCall], UNCHANGED <<ident, tag>>,
         job' \in [Phones -> TaggedJob]
  PROVE  Inv'
<1>1. NoCall \in Call /\ CallOK(ident, NoCall)
  BY DEF NoCall, Call, MaybeId, Media, CallOK
<1>2. QED
  BY <1>1, CallMoves

\* Jobs have the shape of jobs.
LEMMA JobTyped ==
  ASSUME Inv, NEW p \in Phones
  PROVE  /\ NoJob \in TaggedJob
         /\ job[p] \in TaggedJob
         /\ \A new \in TaggedJob : [job EXCEPT ![p] = new] \in [Phones -> TaggedJob]
BY DEF Inv, NoJob, Job, MaybeId, TaggedJob

\* The phone's part.
LEMMA ClientInv ==
  ASSUME Inv, NEW p \in Phones, ClientStep(p)
  PROVE  Inv'
<1>1. CASE AssignWrite(p)
  <2> DEFINE g == job[p].tag
             i == call[p].id
             new == [pc |-> "written", tag |-> g, id |-> i, prev |-> tag[g]]
  <2>1. /\ job[p].pc = "create" /\ call[p].pc = "done"
        /\ tag' = [tag EXCEPT ![g] = i] /\ job' = [job EXCEPT ![p] = new]
        /\ call' = [call EXCEPT ![p] = NoCall] /\ UNCHANGED ident
    BY <1>1 DEF AssignWrite
  <2>2. Born(ident, i) /\ i \in MaybeId
    BY <2>1 DEF Inv, CallOK, Born, MaybeId
  <2>3. g \in Tags
    BY <2>1, JobTyped DEF TaggedJob
  <2>4. tag' \in [Tags -> MaybeId] /\ \A h \in Tags : tag'[h] = tag[h] \/ Born(ident, tag'[h])
    BY <2>1, <2>2 DEF Inv, TypeOK
  <2>5. job' \in [Phones -> TaggedJob]
    <3>1. tag[g] \in MaybeId
      BY <2>3 DEF Inv, TypeOK
    <3>2. new \in TaggedJob
      BY <2>2, <2>3, <3>1 DEF Job, TaggedJob, Born
    <3> HIDE DEF new
    <3>3. QED
      BY <2>1, <3>2, JobTyped
  <2>6. NoCall \in Call /\ CallOK(ident', NoCall)
    BY DEF NoCall, Call, MaybeId, Media, CallOK
  <2>7. ident' \in Rows /\ Lasting
    BY <2>1 DEF Inv, TypeOK, Rows, Lasting
  <2>8. QED
    BY <2>1, <2>4, <2>5, <2>6, <2>7, CallChanges
<1>2. CASE AssignReadBack(p)
  <2> DEFINE new == [job[p] EXCEPT !.pc = "activate"]
  <2>1. /\ job[p].pc = "written" /\ tag[job[p].tag] = job[p].id
        /\ job' = [job EXCEPT ![p] = new] /\ ActivateRead(p, job[p].id) /\ UNCHANGED <<ident, tag>>
    BY <1>2, JobTyped DEF AssignReadBack, Inv
  <2>2. job[p].tag \in Tags /\ job[p].id \in Ids /\ new \in TaggedJob
    BY <2>1, JobTyped DEF TaggedJob, Job
  <2> HIDE DEF new
  <2>3. Born(ident, job[p].id) /\ job' \in [Phones -> TaggedJob]
    BY <2>1, <2>2, JobTyped, ConstantsAssumption DEF Inv
  <2>4. QED
    BY <2>1, <2>3, ActivateReadInv DEF Inv, TypeOK
<1>3. CASE AssignVerify(p)
  <2>1. CASE job' = [job EXCEPT ![p].pc = "revoke"] /\ RevokeRead(p, job[p].prev)
               /\ job[p].prev \in Ids /\ Resolves(job[p].prev)
    <3>1. Born(ident, job[p].prev)
      BY <2>1, HavingBorn DEF Resolves
    <3>2. job' \in [Phones -> TaggedJob]
      BY <1>3, <2>1 DEF Inv, Job, TaggedJob, AssignVerify
    <3>3. QED
      BY <1>3, <2>1, <3>1, <3>2, RevokeReadInv DEF AssignVerify
  <2>2. CASE job' = [job EXCEPT ![p] = NoJob] /\ call' = [call EXCEPT ![p] = NoCall]
    BY <1>3, <2>2, EndInv, JobTyped DEF AssignVerify
  <2>3. QED
    BY <1>3, <2>1, <2>2 DEF AssignVerify
<1>4. CASE AssignEnd(p)
  BY <1>4, EndInv, JobTyped DEF AssignEnd
<1>5. CASE GiveUp(p)
  <2>1. job' \in [Phones -> TaggedJob] /\ UNCHANGED <<ident, call, tag>>
    BY <1>5, JobTyped DEF GiveUp
  <2>2. QED
    BY <2>1 DEF Inv, TypeOK, TaggedJob, CallOK, Replaces, Born
<1>6. CASE Drop(p)
  BY <1>6, EndInv DEF Drop, Inv, TypeOK
<1>7. ASSUME NEW t \in Targets, PrintLabel(p, t)
      PROVE  Inv'
  BY <1>7, CreateReadInv DEF PrintLabel, Media, Inv, TypeOK
<1>8. ASSUME NEW t \in Targets, NEW g \in Tags, AssignBegin(p, t, g)
      PROVE  Inv'
  <2> DEFINE new == [NoJob EXCEPT !.pc = "create", !.tag = g]
  <2>1. new \in TaggedJob
    BY DEF NoJob, Job, MaybeId, TaggedJob
  <2>2. job' = [job EXCEPT ![p] = new] /\ CreateRead(p, t, "nfc") /\ UNCHANGED <<ident, tag>>
    BY <1>8 DEF AssignBegin
  <2> HIDE DEF new
  <2>3. QED
    BY <2>1, <2>2, CreateReadInv, JobTyped DEF Media
<1>9. ASSUME NEW g \in Tags, ReadTag(p, g)
      PROVE  Inv'
  <2>1. Born(ident, tag[g])
    BY <1>9 DEF ReadTag, Inv
  <2>2. QED
    BY <1>9, <2>1, ActivateReadInv DEF ReadTag, Recover, Inv, TypeOK
<1>10. QED
  BY <1>1, <1>3, <1>4, <1>5, <1>6, <1>7, <1>8, <1>9, <1>2 DEF ClientStep

\* Inv is inductive.
LEMMA NextInv ==
  ASSUME Inv, [Next]_vars
  PROVE  Inv'
<1>1. CASE Next
  BY <1>1, ServerInv, ClientInv DEF Next
<1>2. CASE UNCHANGED vars
  BY <1>2 DEF vars, Inv, TypeOK, CallOK, Replaces, Born
<1>3. QED
  BY <1>1, <1>2

\* Inv is an invariant.
LEMMA InvHolds == Spec => []Inv
<1>1. Init => Inv
  <2> SUFFICES ASSUME Init PROVE Inv
    OBVIOUS
  <2>1. /\ NoIdent \in Ident \cup {NoIdent}
        /\ NoCall \in Call /\ CallOK(ident, NoCall)
        /\ NoJob \in TaggedJob
    BY DEF NoCall, Call, MaybeId, Media, CallOK, NoJob, Job, TaggedJob
  <2>2. TypeOK
    BY <2>1 DEF Init, TypeOK, MaybeId, TaggedJob
  <2>3. QED
    BY <2>1, <2>2 DEF Init, Inv
<1>2. Inv /\ [Next]_vars => Inv'
  BY NextInv
<1>3. QED
  BY <1>1, <1>2, PTL DEF Spec

\* Rows, requests, jobs and tags hold what their fields may.
THEOREM TypeCorrect == Spec => []TypeOK
<1>1. Inv => TypeOK
  BY DEF Inv
<1>2. QED
  BY <1>1, InvHolds, PTL
-----------------------------------------------------------------------------
(* The three ways in which rows change.                                    *)

Inserts(p, i) ==
  /\ ~ Clash(call[p].target, call[p].medium)
  /\ ident' = [ident EXCEPT ![i] = [status |-> FirstStatus(call[p].medium),
                                     target |-> call[p].target, medium |-> call[p].medium]]

Activates(p) ==
  /\ call[p].pc = "commit"
  /\ Rivals(call[p].id, {"active"}) \ {call[p].prev} = {}
  /\ ident' = Replaced(p)

Revokes(p) ==
  /\ call[p].pc = "revoke"
  /\ ident' = [ident EXCEPT ![call[p].id].status = "revoked"]

\* Every other step leaves them.
LEMMA RowSteps ==
  ASSUME [Next]_vars
  PROVE  \/ UNCHANGED ident
         \/ \E p \in Phones : \E i \in Unborn : Inserts(p, i)
         \/ \E p \in Phones : Activates(p) \/ Revokes(p)
<1>1. ASSUME NEW p \in Phones, ServerStep(p)
      PROVE  UNCHANGED ident \/ (\E i \in Unborn : Inserts(p, i)) \/ Activates(p) \/ Revokes(p)
  <2>1. CASE CreateInsert(p)
    BY <2>1 DEF CreateInsert, Inserts
  <2>2. CASE ActivateCommit(p)
    BY <2>2 DEF ActivateCommit, Activates
  <2>3. CASE RevokeCommit(p)
    BY <2>3 DEF RevokeCommit, Revokes
  <2>4. CASE \/ CreateReread(p) \/ ActivatePrevious(p) \/ ActivateFlush(p) \/ ActivateUpdate(p)
             \/ ActivateAborted(p)
    BY <2>4 DEF CreateReread, ActivatePrevious, ActivateFlush, ActivateUpdate, ActivateAborted
  <2>5. QED
    BY <1>1, <2>1, <2>2, <2>3, <2>4 DEF ServerStep
<1>2. ASSUME NEW p \in Phones, ClientStep(p)
      PROVE  UNCHANGED ident
  BY <1>2 DEF ClientStep, AssignWrite, AssignReadBack, AssignVerify, AssignEnd, GiveUp, Drop,
     PrintLabel,
     AssignBegin, ReadTag
<1>3. QED
  BY <1>1, <1>2 DEF Next, vars

\* The new row has no rival: the unique indexes, and no read before them.
LEMMA NextOneLive ==
  ASSUME Inv, OneLivePerTarget, [Next]_vars
  PROVE  OneLivePerTarget'
<1>0. ident \in Rows
  BY DEF Inv, TypeOK, Rows
<1>1. CASE UNCHANGED ident
  BY <1>1 DEF OneLivePerTarget
<1>2. ASSUME NEW p \in Phones, NEW i \in Unborn, Inserts(p, i)
      PROVE  OneLivePerTarget'
  <2>1. ident'[i] = [status |-> FirstStatus(call[p].medium),
                     target |-> call[p].target, medium |-> call[p].medium]
    BY <1>0, <1>2 DEF Inserts, Unborn, Rows
  <2>2. \A j \in Ids : j # i => ident'[j] = ident[j] /\ ident[j] # ident'[i]
    BY <1>0, <1>2, <2>1 DEF Inserts, Clash, Having, Rows
  <2>3. QED
    BY <2>2 DEF OneLivePerTarget
<1>3. ASSUME NEW p \in Phones, Activates(p)
      PROVE  OneLivePerTarget'
  <2> DEFINE a == call[p].id
  <2>1. call[p].pc = "commit" /\ ident' = Replaced(p) /\ Born(ident, a)
    BY <1>3 DEF Activates, Inv, CallOK
  <2>2. \A j \in Ids : \/ ident'[j] = ident[j]
                       \/ ident'[j].status = "revoked"
                       \/ j = a
    BY <2>1, ReplacedRows
  <2>3. \A j \in Ids : j # a /\ ident'[j] = ident[j] /\ ident[j].status = "active"
          => \/ ident[j].target # ident[a].target
             \/ ident[j].medium # ident[a].medium
             \/ j = call[p].prev
    BY <1>3 DEF Activates, Rivals, Having
  <2>4. ident'[call[p].id].target = ident[a].target /\ ident'[call[p].id].medium = ident[a].medium
    BY <2>1, ReplacedRows DEF Born
  <2>5. \A j \in Ids : j = call[p].prev => ident'[j].status = "revoked"
    BY <2>1, ReplacedRows
  <2>6. ident'[a].status \in {"active", "revoked"}
    BY <2>1, ReplacedRows DEF Born
  <2>7. ASSUME NEW j \in Ids, j # a, ident'[j].status \in {"pending", "active"}
        PROVE  ident'[j] # ident'[a] /\ ident'[j] = ident[j]
    BY <2>2, <2>3, <2>4, <2>5, <2>6, <2>7
  <2>8. QED
    BY <2>7 DEF OneLivePerTarget
<1>4. ASSUME NEW p \in Phones, Revokes(p)
      PROVE  OneLivePerTarget'
  <2>1. Born(ident, call[p].id)
    BY <1>4 DEF Revokes, Inv, CallOK
  <2>2. ident'[call[p].id].status = "revoked"
    BY <1>0, <1>4, <2>1 DEF Revokes, Born, Rows, Ident
  <2>3. \A j \in Ids : j # call[p].id => ident'[j] = ident[j]
    BY <1>0, <1>4 DEF Revokes, Rows
  <2>4. QED
    BY <2>2, <2>3 DEF OneLivePerTarget
<1>5. QED
  BY <1>1, <1>2, <1>3, <1>4, RowSteps

\* However requests interleave, and although none of their reads locks a row, a
\* target has at most one pending and one active identifier of a medium.
THEOREM OneLive == Spec => []OneLivePerTarget
<1>1. Init => OneLivePerTarget
  BY DEF Init, OneLivePerTarget, NoIdent
<1>2. Inv /\ OneLivePerTarget /\ [Next]_vars => OneLivePerTarget'
  BY NextOneLive
<1>3. QED
  BY <1>1, <1>2, InvHolds, PTL DEF Spec

\* The row that takes over is of the target and medium of the one that is revoked.
LEMMA NextNoGap ==
  ASSUME Inv, [Next]_vars
  PROVE  \A i \in Ids :
           Resolves(i) /\ ident'[i].status = "revoked" =>
             \/ \E j \in Ids : ident'[j] = ident[i]
             \/ \E p \in Phones : call[p].pc = "revoke" /\ call[p].id = i
<1> SUFFICES ASSUME NEW i \in Ids, Resolves(i), ident'[i].status = "revoked",
                    ~ \E p \in Phones : call[p].pc = "revoke" /\ call[p].id = i
             PROVE  \E j \in Ids : ident'[j] = ident[i]
  OBVIOUS
<1>0. ident \in Rows /\ ident[i].status = "active" /\ ident[i] \in Ident
  BY HavingBorn DEF Inv, TypeOK, Rows, Resolves, Born
<1>1. CASE UNCHANGED ident
  BY <1>1
<1>2. ASSUME NEW p \in Phones, NEW k \in Unborn, Inserts(p, k)
      PROVE  \E j \in Ids : ident'[j] = ident[i]
  <2>1. k # i
    BY <1>0 DEF Unborn, NoIdent
  <2>2. ident'[i] = ident[i]
    BY <1>0, <1>2, <2>1 DEF Inserts, Rows
  <2>3. QED
    BY <2>2
<1>3. ASSUME NEW p \in Phones, Activates(p)
      PROVE  \E j \in Ids : ident'[j] = ident[i]
  <2> DEFINE a == call[p].id
  <2>1. call[p].pc = "commit" /\ ident' = Replaced(p) /\ Born(ident, a)
    BY <1>3 DEF Activates, Inv, CallOK
  <2>2. i = call[p].prev
    BY <1>0, <2>1, ReplacedRows
  <2>3. call[p].prev # None
    BY <2>2, ConstantsAssumption
  <2>4. Replaces(ident, a, i)
    BY <2>2, <2>3 DEF Inv, CallOK
  <2>5. a \in Ids /\ ident'[a] = [ident[a] EXCEPT !.status = "active"]
    BY <2>1, <2>2, <2>4, ReplacedRows DEF Replaces, Born
  <2>6. ident'[a] = ident[i]
    BY <1>0, <2>1, <2>4, <2>5 DEF Replaces, Born, Ident
  <2>7. QED
    BY <2>5, <2>6
<1>4. ASSUME NEW p \in Phones, Revokes(p)
      PROVE  \E j \in Ids : ident'[j] = ident[i]
  BY <1>0, <1>4 DEF Revokes, Rows
<1>5. QED
  BY <1>1, <1>2, <1>3, <1>4, RowSteps

\* Replacing a tag never leaves its target without an active identifier.
THEOREM NoGap == Spec => ReplacementHasNoGap
<1>1. Inv /\ [Next]_vars =>
        [\A i \in Ids :
           Resolves(i) /\ ident'[i].status = "revoked" =>
             \/ \E j \in Ids : ident'[j] = ident[i]
             \/ \E p \in Phones : call[p].pc = "revoke" /\ call[p].id = i]_vars
  BY NextNoGap
<1>2. QED
  BY <1>1, InvHolds, PTL DEF Spec, ReplacementHasNoGap
-----------------------------------------------------------------------------
(* No call hangs. *)

\* The step with which a call in flight goes on takes it to a later stage, or answers it.
Advances(p) ==
  \/ call'[p].pc \in {"done", "failed"}
  \/ call[p].pc = "create" /\ call'[p].pc = "reread"
  \/ call[p].pc = "previous" /\ call'[p].pc \in {"flush", "update"}
  \/ call[p].pc = "flush" /\ call'[p].pc = "update"
  \/ call[p].pc = "update" /\ call'[p].pc = "commit"

\* The server's step for p.
LEMMA ServerAdvances ==
  ASSUME Inv, NEW p \in Phones, ServerStep(p)
  PROVE  Advances(p) /\ \A q \in Phones \ {p} : call'[q] = call[q]
<1>0. call \in [Phones -> Call]
  BY DEF Inv, TypeOK
<1>1. ASSUME NEW result \in {"done", "failed"}, NEW i, Return(p, result, i)
      PROVE  call'[p].pc = result /\ \A q \in Phones \ {p} : call'[q] = call[q]
  BY <1>0, <1>1 DEF Return, NoCall
<1>2. CASE CreateInsert(p)
  <2>1. CASE call[p].pc = "create" /\ call' = [call EXCEPT ![p].pc = "reread"]
    BY <1>0, <2>1 DEF Advances, Call
  <2>2. QED
    BY <1>1, <1>2, <2>1 DEF CreateInsert, Advances
<1>3. CASE CreateReread(p)
  BY <1>1, <1>3 DEF CreateReread, Advances
<1>4. CASE ActivatePrevious(p)
  <2>1. ASSUME NEW i, call' = [call EXCEPT ![p].pc = "flush", ![p].prev = i]
        PROVE  call'[p].pc = "flush" /\ \A q \in Phones \ {p} : call'[q] = call[q]
    BY <1>0, <2>1 DEF Call
  <2>2. ASSUME call' = [call EXCEPT ![p].pc = "update"]
        PROVE  call'[p].pc = "update" /\ \A q \in Phones \ {p} : call'[q] = call[q]
    BY <1>0, <2>2 DEF Call
  <2>3. QED
    BY <1>4, <2>1, <2>2 DEF ActivatePrevious, Advances
<1>5. CASE ActivateFlush(p) \/ ActivateUpdate(p)
  BY <1>0, <1>5 DEF ActivateFlush, ActivateUpdate, Advances, Call
<1>6. CASE ActivateCommit(p) \/ ActivateAborted(p) \/ RevokeCommit(p)
  BY <1>1, <1>6 DEF ActivateCommit, ActivateAborted, RevokeCommit, Advances
<1>7. QED
  BY <1>2, <1>3, <1>4, <1>5, <1>6 DEF ServerStep

\* Only a call in flight waits, and only such a call is in a circle.
LEMMA WaitsInFlight ==
  ASSUME NEW p \in Phones
  PROVE  /\ WaitsFor(p) # {} => p \in InFlight
         /\ InCircle(p) => WaitsFor(p) # {}
<1>1. WaitsFor(p) # {} => Touched(p) # {}
  BY DEF WaitsFor
<1>2. Touched(p) # {} => p \in InFlight
  BY DEF Touched, InFlight
<1>3. ASSUME InCircle(p) PROVE WaitsFor(p) # {}
  <2>1. PICK circle \in SUBSET Phones :
          /\ p \in circle
          /\ circle # {p}
          /\ \A some \in (SUBSET circle) \ {{}, circle} :
               \E q \in some : WaitsFor(q) \cap (circle \ some) # {}
    BY <1>3 DEF InCircle
  <2>2. {p} \in (SUBSET circle) \ {{}, circle}
    BY <2>1
  <2>3. \E q \in {p} : WaitsFor(q) # {}
    BY <2>1, <2>2
  <2>4. QED
    BY <2>3
<1>4. QED
  BY <1>1, <1>2, <1>3

\* The server works on calls in flight.
LEMMA ServerInFlight ==
  ASSUME NEW p \in Phones, ServerStep(p)
  PROVE  p \in InFlight
<1>1. CASE ActivateAborted(p)
  BY <1>1, WaitsInFlight DEF ActivateAborted
<1>2. CASE ~ ActivateAborted(p)
  BY <1>2 DEF ServerStep, CreateInsert, CreateReread, ActivatePrevious, ActivateFlush,
     ActivateUpdate,
     ActivateCommit, RevokeCommit, InFlight
<1>3. QED
  BY <1>1, <1>2

\* While the tag is tapped again the phone has no call at the server.
TapsInBetween == \A p \in Phones : job[p].pc = "written" => call[p].pc = "idle"

\* Each step of a phone keeps it.
LEMMA TapsStep ==
  ASSUME Inv, TapsInBetween, [Next]_vars
  PROVE  TapsInBetween'
<1>0. call \in [Phones -> Call] /\ job \in [Phones -> Job]
  BY DEF Inv, TypeOK
<1>1. ASSUME NEW p \in Phones, ServerStep(p) PROVE TapsInBetween'
  <2>1. UNCHANGED job
    BY <1>1 DEF ServerStep, CreateInsert, CreateReread, ActivatePrevious, ActivateFlush,
       ActivateUpdate,
       ActivateCommit, ActivateAborted, RevokeCommit
  <2>2. job[p].pc # "written"
    BY <1>1, ServerInFlight DEF TapsInBetween, InFlight
  <2>3. QED
    BY <1>1, <2>1, <2>2, ServerAdvances DEF TapsInBetween
<1>2. ASSUME NEW p \in Phones, ClientStep(p) PROVE TapsInBetween'
  <2> DEFINE Others == \A q \in Phones \ {p} : call'[q] = call[q]
  <2>1. ASSUME Others, NEW j, job' = [job EXCEPT ![p] = j], j.pc # "written"
        PROVE  TapsInBetween'
    BY <1>0, <2>1 DEF TapsInBetween
  <2>2. \A i : ActivateRead(p, i) => Others
    BY <1>0 DEF ActivateRead, Return
  <2>3. \A i : RevokeRead(p, i) => Others
    BY <1>0 DEF RevokeRead, Return
  <2>4. \A t, m : CreateRead(p, t, m) => Others
    BY <1>0 DEF CreateRead, Return
  <2>5. NoJob.pc = "idle" /\ job[p] \in Job /\ (call' = [call EXCEPT ![p] = NoCall] => Others)
    BY <1>0 DEF NoJob
  <2> HIDE DEF Others
  <2>6. CASE AssignWrite(p)
    <3>1. /\ call' = [call EXCEPT ![p] = NoCall]
          /\ \E j : job' = [job EXCEPT ![p] = j]
      BY <2>6 DEF AssignWrite
    <3>2. QED
      BY <1>0, <3>1 DEF TapsInBetween, NoCall
  <2>7. CASE AssignReadBack(p)
    <3>1. job' = [job EXCEPT ![p] = [job[p] EXCEPT !.pc = "activate"]]
      BY <1>0, <2>7 DEF AssignReadBack
    <3>2. [job[p] EXCEPT !.pc = "activate"].pc = "activate"
      BY <2>5 DEF Job
    <3>3. QED
      BY <2>1, <2>2, <2>7, <3>1, <3>2 DEF AssignReadBack
  <2>8. CASE AssignVerify(p)
    <3>1. CASE job' = [job EXCEPT ![p] = NoJob] /\ call' = [call EXCEPT ![p] = NoCall]
      BY <2>1, <2>5, <3>1
    <3>2. CASE job' = [job EXCEPT ![p].pc = "revoke"] /\ RevokeRead(p, job[p].prev)
      <4>1. job' = [job EXCEPT ![p] = [job[p] EXCEPT !.pc = "revoke"]]
        BY <1>0, <3>2
      <4>2. [job[p] EXCEPT !.pc = "revoke"].pc = "revoke"
        BY <2>5 DEF Job
      <4>3. QED
        BY <2>1, <2>3, <3>2, <4>1, <4>2
    <3>3. QED
      BY <2>8, <3>1, <3>2 DEF AssignVerify
  <2>9. CASE AssignEnd(p)
    <3>1. job' = [job EXCEPT ![p] = NoJob] /\ call' = [call EXCEPT ![p] = NoCall]
      BY <2>9 DEF AssignEnd
    <3>2. QED
      BY <2>1, <2>5, <3>1
  <2>10. CASE GiveUp(p)
    <3>1. job' = [job EXCEPT ![p] = NoJob] /\ call' = call
      BY <2>10 DEF GiveUp
    <3>2. Others
      BY <3>1 DEF Others
    <3>3. QED
      BY <2>1, <2>5, <3>1, <3>2
  <2>11. CASE Drop(p)
    <3>1. job[p] = NoJob /\ job' = job /\ call' = [call EXCEPT ![p] = NoCall]
      BY <2>11 DEF Drop
    <3>2. QED
      BY <1>0, <2>5, <3>1 DEF TapsInBetween
  <2>12. ASSUME NEW t \in Targets, PrintLabel(p, t) PROVE TapsInBetween'
    <3>1. job[p] = NoJob /\ job' = job /\ Others
      BY <2>4, <2>12 DEF PrintLabel, Free
    <3>2. QED
      BY <1>0, <2>5, <3>1 DEF TapsInBetween, Others
  <2>13. ASSUME NEW t \in Targets, NEW g \in Tags, AssignBegin(p, t, g) PROVE TapsInBetween'
    <3> DEFINE j == [NoJob EXCEPT !.pc = "create", !.tag = g]
    <3>1. job' = [job EXCEPT ![p] = j] /\ CreateRead(p, t, "nfc")
      BY <2>13 DEF AssignBegin
    <3>2. j.pc = "create"
      BY DEF NoJob
    <3> HIDE DEF j
    <3>3. QED
      BY <2>1, <2>4, <3>1, <3>2
  <2>14. ASSUME NEW g \in Tags, ReadTag(p, g) PROVE TapsInBetween'
    <3>1. job[p] = NoJob /\ job' = job /\ Others
      BY <2>2, <2>14 DEF ReadTag, Recover, Free
    <3>2. QED
      BY <1>0, <2>5, <3>1 DEF TapsInBetween, Others
  <2>15. QED
    BY <1>2, <2>6, <2>7, <2>8, <2>9, <2>10, <2>11, <2>12, <2>13, <2>14 DEF ClientStep
<1>3. CASE UNCHANGED vars
  BY <1>3 DEF vars, TapsInBetween
<1>4. QED
  BY <1>1, <1>2, <1>3 DEF Next

\* It holds always.
LEMMA TapsHolds == Spec => []TapsInBetween
<1>1. Init => TapsInBetween
  BY DEF Init, TapsInBetween, NoJob
<1>2. Inv /\ TapsInBetween /\ [Next]_vars => TapsInBetween'
  BY TapsStep
<1>3. QED
  BY <1>1, <1>2, InvHolds, PTL DEF Spec

\* The phone touches a call that is answered, or sends one when it has none.
LEMMA ClientLeavesInFlight ==
  ASSUME Inv, TapsInBetween, NEW p \in Phones, ClientStep(p), NEW q \in InFlight
  PROVE  call'[q] = call[q]
<1>0. call \in [Phones -> Call] /\ q \in Phones
  BY DEF Inv, TypeOK, InFlight
<1>1. ASSUME NEW c, call' = [call EXCEPT ![p] = c], q # p
      PROVE  call'[q] = call[q]
  BY <1>0, <1>1
<1>2. \A i : ActivateRead(p, i) => \E c : call' = [call EXCEPT ![p] = c]
  BY DEF ActivateRead, Return
<1>3. \A i : RevokeRead(p, i) => \E c : call' = [call EXCEPT ![p] = c]
  BY DEF RevokeRead, Return
<1>4. \A t, m : CreateRead(p, t, m) => \E c : call' = [call EXCEPT ![p] = c]
  BY DEF CreateRead, Return
<1>5. CASE AssignWrite(p)
  BY <1>1, <1>5 DEF AssignWrite, InFlight
<1>6. ASSUME NEW g \in Tags, ReadTag(p, g)
      PROVE  call'[q] = call[q]
  BY <1>1, <1>2, <1>6 DEF ReadTag, Recover, Free, InFlight
<1>7. CASE AssignVerify(p)
  BY <1>1, <1>3, <1>7 DEF AssignVerify, InFlight
<1>8. CASE AssignEnd(p) \/ Drop(p)
  BY <1>1, <1>8 DEF AssignEnd, Drop, Answered, InFlight
<1>9. CASE GiveUp(p)
  BY <1>9 DEF GiveUp
<1>10. ASSUME NEW t \in Targets, PrintLabel(p, t)
       PROVE  call'[q] = call[q]
  BY <1>1, <1>4, <1>10 DEF PrintLabel, Free, InFlight
<1>11. ASSUME NEW t \in Targets, NEW g \in Tags, AssignBegin(p, t, g)
       PROVE  call'[q] = call[q]
  BY <1>1, <1>4, <1>11 DEF AssignBegin, Free, InFlight
<1>12. CASE AssignReadBack(p)
  BY <1>1, <1>2, <1>12 DEF AssignReadBack, InFlight, TapsInBetween
<1>13. QED
  BY <1>5, <1>6, <1>7, <1>8, <1>9, <1>10, <1>11, <1>12 DEF ClientStep

\* The most steps the server has left for a call.
StepsLeft(p) ==
  CASE call[p].pc = "previous" -> 4
    [] call[p].pc = "flush" -> 3
    [] call[p].pc \in {"create", "update"} -> 2
    [] call[p].pc \in {"reread", "commit", "revoke"} -> 1
    [] OTHER -> 0

\* Whoever takes a step, a call in flight stays as it is or has fewer steps left.
CallsAdvance ==
  [][\A p \in InFlight : call'[p] = call[p] \/ StepsLeft(p)' < StepsLeft(p)]_vars

\* No call goes on for ever, and no other call can send it back, for any number of them.
THEOREM EveryStepAdvances == Spec => CallsAdvance
<1>1. ASSUME Inv, TapsInBetween, [Next]_vars, NEW p \in InFlight
      PROVE  call'[p] = call[p] \/ StepsLeft(p)' < StepsLeft(p)
  <2>0. p \in Phones
    BY DEF InFlight
  <2>1. ASSUME Advances(p) PROVE StepsLeft(p)' < StepsLeft(p)
    <3>1. call[p].pc \in {"create", "reread", "previous", "flush", "update", "commit", "revoke"}
      BY <1>1, <2>0 DEF Inv, TypeOK, Call, InFlight
    <3>2. CASE call'[p].pc \in {"done", "failed"}
      BY <3>1, <3>2 DEF StepsLeft
    <3>3. CASE call[p].pc = "create" /\ call'[p].pc = "reread"
      BY <3>3 DEF StepsLeft
    <3>4. CASE call[p].pc = "previous" /\ call'[p].pc \in {"flush", "update"}
      BY <3>4 DEF StepsLeft
    <3>5. CASE call[p].pc = "flush" /\ call'[p].pc = "update"
      BY <3>5 DEF StepsLeft
    <3>6. CASE call[p].pc = "update" /\ call'[p].pc = "commit"
      BY <3>6 DEF StepsLeft
    <3>7. QED
      BY <2>1, <3>2, <3>3, <3>4, <3>5, <3>6 DEF Advances
  <2>2. ASSUME NEW q \in Phones, ServerStep(q) PROVE call'[p] = call[p] \/ Advances(p)
    BY <1>1, <2>0, <2>2, ServerAdvances
  <2>3. ASSUME NEW q \in Phones, ClientStep(q) PROVE call'[p] = call[p]
    BY <1>1, <2>3, ClientLeavesInFlight
  <2>4. CASE UNCHANGED vars
    BY <2>4 DEF vars
  <2>5. QED
    BY <1>1, <2>1, <2>2, <2>3, <2>4 DEF Next
<1>2. Inv /\ TapsInBetween /\ [Next]_vars =>
        [\A p \in InFlight : call'[p] = call[p] \/ StepsLeft(p)' < StepsLeft(p)]_vars
  BY <1>1
<1>3. QED
  BY <1>2, InvHolds, TapsHolds, PTL DEF Spec, CallsAdvance

\* The requests that are about to insert a row.
Inserting == {p \in Phones : call[p].pc = "create"}

\* Each of them has an id left.
Room == Cardinality(Inserting) <= Cardinality(Unborn)

\* The sets that are counted are finite.
LEMMA CountedFinite ==
  /\ IsFiniteSet(Inserting) /\ Cardinality(Inserting) \in Nat
  /\ IsFiniteSet(Unborn) /\ Cardinality(Unborn) \in Nat
  /\ IsFiniteSet(Inserting') /\ Cardinality(Inserting') \in Nat
  /\ IsFiniteSet(Unborn') /\ Cardinality(Unborn') \in Nat
<1>1. /\ Inserting \in SUBSET Phones /\ Unborn \in SUBSET Ids
      /\ Inserting' \in SUBSET Phones /\ Unborn' \in SUBSET Ids
  BY DEF Inserting, Unborn
<1>2. /\ IsFiniteSet(Inserting) /\ IsFiniteSet(Unborn)
      /\ IsFiniteSet(Inserting') /\ IsFiniteSet(Unborn')
  BY <1>1, FiniteAssumption, FS_Subset
<1>3. QED
  BY <1>2, FS_CardinalityType

\* A phone asks for an insertion only when it has read that there is an id.
LEMMA AsksWithRoom ==
  ASSUME Inv, NEW p \in Phones, ClientStep(p)
  PROVE  /\ UNCHANGED ident
         /\ \/ Inserting' \subseteq Inserting
            \/ /\ Inserting' = Inserting \cup {p}
               /\ Cardinality(Inserting) < Cardinality(Unborn)
<1>0. call \in [Phones -> Call]
  BY DEF Inv, TypeOK
<1>1. UNCHANGED ident
  BY DEF ClientStep, AssignWrite, AssignReadBack, AssignVerify, AssignEnd, GiveUp, Drop,
     PrintLabel,
     AssignBegin, ReadTag
<1>2. ASSUME NEW c, c.pc # "create", call' = [call EXCEPT ![p] = c]
      PROVE  Inserting' \subseteq Inserting
  BY <1>0, <1>2 DEF Inserting
<1>3. /\ NoCall.pc # "create"
      /\ \A result, i : [NoCall EXCEPT !.pc = result, !.id = i].pc = result
      /\ \A i : [NoCall EXCEPT !.pc = "previous", !.id = i].pc = "previous"
      /\ \A i : [NoCall EXCEPT !.pc = "revoke", !.id = i].pc = "revoke"
      /\ \A t, m : [NoCall EXCEPT !.pc = "create", !.target = t, !.medium = m].pc = "create"
  BY DEF NoCall
<1>4. ASSUME NEW result \in {"done", "failed"}, NEW i, Return(p, result, i)
      PROVE  Inserting' \subseteq Inserting
  <2> DEFINE c == [NoCall EXCEPT !.pc = result, !.id = i]
  <2>1. c.pc # "create" /\ call' = [call EXCEPT ![p] = c]
    BY <1>3, <1>4 DEF Return
  <2> HIDE DEF c
  <2>2. QED
    BY <1>2, <2>1
<1>5. ASSUME NEW i, ActivateRead(p, i) PROVE Inserting' \subseteq Inserting
  BY <1>2, <1>3, <1>4, <1>5 DEF ActivateRead
<1>6. ASSUME NEW i, RevokeRead(p, i) PROVE Inserting' \subseteq Inserting
  BY <1>2, <1>3, <1>4, <1>6 DEF RevokeRead
<1>7. ASSUME NEW t, NEW m, CreateRead(p, t, m)
      PROVE  \/ Inserting' \subseteq Inserting
             \/ /\ Inserting' = Inserting \cup {p}
                /\ Cardinality(Inserting) < Cardinality(Unborn)
  <2> DEFINE c == [NoCall EXCEPT !.pc = "create", !.target = t, !.medium = m]
  <2>1. CASE \E i : Return(p, "done", i)
    BY <1>4, <2>1
  <2>2. CASE /\ Cardinality(Inserting) < Cardinality(Unborn)
             /\ call' = [call EXCEPT ![p] = c]
    <3>1. c.pc = "create"
      BY <1>3
    <3> HIDE DEF c
    <3>2. Inserting' = Inserting \cup {p}
      BY <1>0, <2>2, <3>1 DEF Inserting
    <3>3. QED
      BY <2>2, <3>2
  <2>3. QED
    BY <1>7, <2>1, <2>2 DEF CreateRead, Inserting
<1>8. CASE AssignWrite(p) \/ AssignEnd(p) \/ Drop(p)
  BY <1>1, <1>2, <1>3, <1>8 DEF AssignWrite, AssignEnd, Drop
<1>9. CASE AssignReadBack(p)
  BY <1>1, <1>5, <1>9 DEF AssignReadBack
<1>10. CASE AssignVerify(p)
  BY <1>1, <1>2, <1>3, <1>6, <1>10 DEF AssignVerify
<1>11. CASE GiveUp(p)
  BY <1>1, <1>11 DEF GiveUp, Inserting
<1>12. ASSUME NEW t \in Targets, PrintLabel(p, t)
       PROVE  CreateRead(p, t, "qr")
  BY <1>12 DEF PrintLabel
<1>13. ASSUME NEW t \in Targets, NEW g \in Tags, AssignBegin(p, t, g)
       PROVE  CreateRead(p, t, "nfc")
  BY <1>13 DEF AssignBegin
<1>14. ASSUME NEW g \in Tags, ReadTag(p, g) PROVE Inserting' \subseteq Inserting
  BY <1>5, <1>14 DEF ReadTag, Recover
<1>15. QED
  BY <1>1, <1>7, <1>8, <1>9, <1>10, <1>11, <1>12, <1>13, <1>14 DEF ClientStep

\* Whoever inserts a row takes an id and is done.
LEMMA RoomStep ==
  ASSUME Inv, Room, [Next]_vars
  PROVE  Room'
<1> USE DEF Room
<1>0. call \in [Phones -> Call] /\ ident \in Rows
  BY DEF Inv, TypeOK, Rows
<1>1. ASSUME Inserting' \subseteq Inserting, Unborn \subseteq Unborn' PROVE Room'
  <2>1. /\ Cardinality(Inserting') <= Cardinality(Inserting)
        /\ Cardinality(Unborn) <= Cardinality(Unborn')
    BY <1>1, CountedFinite, FS_Subset
  <2>2. QED
    BY <2>1, CountedFinite
<1>2. ASSUME NEW p \in Phones, ServerStep(p) PROVE Room'
  <2>1. ASSUME NEW i \in Unborn, call[p].pc = "create", Return(p, "done", i),
               ident' = [ident EXCEPT ![i] = [status |-> FirstStatus(call[p].medium),
                           target |-> call[p].target, medium |-> call[p].medium]]
        PROVE  Room'
    <3>1. Inserting' = Inserting \ {p} /\ p \in Inserting
      BY <1>0, <2>1 DEF Return, NoCall, Inserting
    <3>2. ident'[i] # NoIdent
      BY <1>0, <2>1 DEF Unborn, NoIdent, FirstStatus, Rows
    <3>3. Unborn' = Unborn \ {i}
      BY <1>0, <2>1, <3>2 DEF Unborn, Rows
    <3>4. /\ Cardinality(Inserting \ {p}) = Cardinality(Inserting) - 1
          /\ Cardinality(Unborn \ {i}) = Cardinality(Unborn) - 1
      BY <2>1, <3>1, CountedFinite, FS_RemoveElement
    <3>5. QED
      BY <3>1, <3>3, <3>4, CountedFinite
  <2>2. Inserting' \subseteq Inserting
    BY <1>2, ServerAdvances DEF Advances, Inserting
  <2>3. CASE UNCHANGED ident
    BY <1>1, <2>2, <2>3 DEF Unborn
  <2>4. CASE call[p].pc = "commit" /\ ident' = Replaced(p)
    <3>1. /\ Born(ident, call[p].id)
          /\ call[p].prev # None => Born(ident, call[p].prev)
      BY <2>4 DEF Inv, CallOK, Replaces
    <3>2. NoIdent \notin Ident
      BY DEF NoIdent, Ident
    <3>3. \A i \in Unborn : i # call[p].id /\ i # call[p].prev
      BY <3>1, <3>2, ConstantsAssumption DEF Unborn, Born
    <3>4. \A i \in Unborn : ident'[i] = ident[i]
      BY <2>4, <3>3, ReplacedRows DEF Unborn
    <3>5. QED
      BY <1>1, <2>2, <3>4 DEF Unborn
  <2>5. CASE call[p].pc = "revoke" /\ ident' = [ident EXCEPT ![call[p].id].status = "revoked"]
    <3>1. Born(ident, call[p].id)
      BY <2>5 DEF Inv, CallOK
    <3>2. \A i \in Unborn : i # call[p].id
      BY <3>1 DEF Unborn, Born, NoIdent, Ident
    <3>3. \A i \in Unborn : ident'[i] = ident[i]
      BY <1>0, <2>5, <3>2 DEF Unborn, Rows
    <3>4. QED
      BY <1>1, <2>2, <3>3 DEF Unborn
  <2>6. CASE CreateInsert(p)
    BY <2>1, <2>3, <2>6 DEF CreateInsert
  <2>7. CASE ActivateCommit(p)
    BY <2>3, <2>4, <2>7 DEF ActivateCommit
  <2>8. CASE RevokeCommit(p)
    BY <2>5, <2>8 DEF RevokeCommit
  <2>9. CASE \/ CreateReread(p) \/ ActivatePrevious(p) \/ ActivateFlush(p) \/ ActivateUpdate(p)
             \/ ActivateAborted(p)
    BY <2>3, <2>9 DEF CreateReread, ActivatePrevious, ActivateFlush, ActivateUpdate,
       ActivateAborted
  <2>10. QED
    BY <1>2, <2>6, <2>7, <2>8, <2>9 DEF ServerStep
<1>3. ASSUME NEW p \in Phones, ClientStep(p) PROVE Room'
  <2>1. Unborn' = Unborn
    BY <1>3, AsksWithRoom DEF Unborn
  <2>2. CASE /\ Inserting' = Inserting \cup {p}
             /\ Cardinality(Inserting) < Cardinality(Unborn)
    <3>1. Cardinality(Inserting \cup {p}) <= Cardinality(Inserting) + 1
      <4>1. CASE p \in Inserting
        <5>1. Inserting \cup {p} = Inserting
          BY <4>1
        <5>2. Cardinality(Inserting \cup {p}) = Cardinality(Inserting)
          BY <5>1
        <5>3. QED
          BY <5>2, CountedFinite
      <4>2. CASE p \notin Inserting
        <5>1. Cardinality(Inserting \cup {p}) = Cardinality(Inserting) + 1
          BY <4>2, CountedFinite, FS_AddElement
        <5>2. QED
          BY <5>1, CountedFinite
      <4>3. QED
        BY <4>1, <4>2
    <3>2. QED
      BY <2>1, <2>2, <3>1, CountedFinite
  <2>3. QED
    BY <1>1, <1>3, <2>1, <2>2, AsksWithRoom
<1>4. CASE UNCHANGED vars
  BY <1>1, <1>4 DEF vars, Inserting, Unborn
<1>5. QED
  BY <1>2, <1>3, <1>4 DEF Next

\* There is always room.
LEMMA RoomHolds == Spec => []Room
<1>1. Init => Room
  <2> SUFFICES ASSUME Init PROVE Room
    OBVIOUS
  <2>1. Inserting = {}
    BY DEF Init, Inserting, NoCall
  <2>2. Cardinality(Inserting) = 0
    BY <2>1, FS_EmptySet
  <2>3. QED
    BY <2>2, CountedFinite DEF Room
<1>2. Inv /\ Room /\ [Next]_vars => Room'
  BY RoomStep
<1>3. QED
  BY <1>1, <1>2, InvHolds, PTL DEF Spec

\* The least of some natural numbers.
LEMMA FirstNatural ==
  ASSUME NEW T \in SUBSET Nat, T # {}
  PROVE  \E n \in T : \A p \in T : ~ (p < n)
<1> DEFINE R == OpToRel(<, Nat)
<1>1. IsWellFoundedOn(R, Nat)
  BY NatLessThanWellFounded
<1>2. \A p, n \in Nat : p < n => <<p, n>> \in R
  BY DEF OpToRel
<1> HIDE DEF R
<1>3. PICK n \in T : \A p \in T : ~ (<<p, n>> \in R)
  BY <1>1, WFMin
<1>4. QED
  BY <1>2, <1>3

\* Of some sets of calls in flight one is smallest.
LEMMA SmallestExists ==
  ASSUME NEW Sets \in SUBSET SUBSET Phones, Sets # {}
  PROVE  \E s \in Sets : \A t \in Sets : t \subseteq s => t = s
<1> DEFINE sizes == {Cardinality(s) : s \in Sets}
<1>1. \A s \in Sets : IsFiniteSet(s) /\ Cardinality(s) \in Nat
  BY FiniteAssumption, FS_Subset, FS_CardinalityType
<1>2. sizes \in SUBSET Nat /\ sizes # {}
  BY <1>1
<1>3. PICK n \in sizes : \A m \in sizes : ~ (m < n)
  BY <1>2, FirstNatural
<1>4. PICK s \in Sets : n = Cardinality(s)
  BY <1>3
<1>5. ASSUME NEW t \in Sets, t \subseteq s PROVE t = s
  <2>1. Cardinality(t) <= Cardinality(s) /\ (Cardinality(t) = Cardinality(s) => t = s)
    BY <1>1, <1>5, FS_Subset
  <2>2. ~ (Cardinality(t) < Cardinality(s))
    BY <1>3, <1>4
  <2>3. QED
    BY <1>1, <2>1, <2>2
<1>6. QED
  BY <1>5

\* Calls that all wait, and for nobody but each other, have a circle among them: the
\* smallest of them that still wait for nobody else cannot be taken apart.
LEMMA WaitersInCircle ==
  ASSUME NEW some \in SUBSET Phones, some # {},
         \A p \in some : WaitsFor(p) # {} /\ WaitsFor(p) \subseteq some
  PROVE  \E p \in some : InCircle(p)
<1> DEFINE Closed == {s \in (SUBSET some) \ {{}} : \A p \in s : WaitsFor(p) \subseteq s}
<1>1. Closed \in SUBSET SUBSET Phones /\ some \in Closed
  OBVIOUS
<1>2. PICK circle \in Closed : \A t \in Closed : t \subseteq circle => t = circle
  BY <1>1, SmallestExists
<1>3. PICK p \in circle : p \in some
  BY <1>2
<1>4. circle # {p}
  <2>1. WaitsFor(p) # {} /\ WaitsFor(p) \subseteq circle /\ p \notin WaitsFor(p)
    BY <1>2, <1>3 DEF WaitsFor
  <2>2. QED
    BY <2>1
<1>5. ASSUME NEW part \in (SUBSET circle) \ {{}, circle}
      PROVE  \E q \in part : WaitsFor(q) \cap (circle \ part) # {}
  <2>1. part \notin Closed
    BY <1>2, <1>5
  <2>2. PICK q \in part : ~ (WaitsFor(q) \subseteq part)
    BY <1>2, <1>5, <2>1
  <2>3. WaitsFor(q) \subseteq circle
    BY <1>2, <1>5
  <2>4. QED
    BY <2>2, <2>3
<1>6. InCircle(p)
  BY <1>2, <1>3, <1>4, <1>5 DEF InCircle
<1>7. QED
  BY <1>3, <1>6

\* Of calls in flight that wait for nobody but each other one meets its guards: it
\* waits for nobody, or is aborted to break a circle.
SomeCallMayGoOn ==
  \A some \in (SUBSET InFlight) \ {{}} :
    (\A p \in some : WaitsFor(p) \subseteq some) => \E p \in some : MayGoOn(p)

\* However many activations lock each other out, no calls hang.
THEOREM NoCallStuck == Spec => []SomeCallMayGoOn
<1>1. ASSUME Inv, Room, NEW p \in InFlight, WaitsFor(p) = {}
      PROVE  MayGoOn(p)
  <2>1. p \in Phones /\ call[p].pc \in {"create", "reread", "previous", "flush", "update", "commit", "revoke"}
    BY <1>1 DEF Inv, TypeOK, Call, InFlight
  <2>2. ASSUME call[p].pc = "create" PROVE Unborn # {}
    <3>1. p \in Inserting
      BY <2>1, <2>2 DEF Inserting
    <3>2. Cardinality(Inserting) # 0
      BY <3>1, CountedFinite, FS_EmptySet
    <3>3. Cardinality(Unborn) # 0
      BY <1>1, <3>2, CountedFinite DEF Room
    <3>4. QED
      BY <3>3, FS_EmptySet
  <2>3. QED
    BY <1>1, <2>1, <2>2 DEF MayGoOn
<1>2. ASSUME Inv, Room, NEW some \in (SUBSET InFlight) \ {{}},
             \A p \in some : WaitsFor(p) \subseteq some
      PROVE  \E p \in some : MayGoOn(p)
  <2>1. CASE \E p \in some : WaitsFor(p) = {}
    BY <1>1, <1>2, <2>1
  <2>2. CASE \A p \in some : WaitsFor(p) # {}
    <3>1. some \in SUBSET Phones
      BY DEF InFlight
    <3>2. \E p \in some : InCircle(p)
      BY <1>2, <2>2, <3>1, WaitersInCircle
    <3>3. QED
      BY <3>2 DEF MayGoOn
  <2>3. QED
    BY <2>1, <2>2
<1>3. Inv /\ Room => SomeCallMayGoOn
  BY <1>2 DEF SomeCallMayGoOn
<1>4. QED
  BY <1>3, InvHolds, RoomHolds, PTL

\* What the guards leave of a step are assignments; given that, which ENABLED says and
\* TLC checks, no call hangs.
THEOREM NoCallHangsByGuards ==
  Spec => []((\A p \in Phones : MayGoOn(p) => ENABLED ServerStep(p)) => NoCallHangs)
<1>1. SomeCallMayGoOn =>
        ((\A p \in Phones : MayGoOn(p) => ENABLED ServerStep(p)) => NoCallHangs)
  BY DEF SomeCallMayGoOn, NoCallHangs, InFlight
<1>2. QED
  BY <1>1, NoCallStuck, PTL
=============================================================================
