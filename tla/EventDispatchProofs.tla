------------------------ MODULE EventDispatchProofs ------------------------
(***************************************************************************)
(* Proofs about EventDispatch, for any number of creates, days, later      *)
(* requests and Firebase writes.                                           *)
(***************************************************************************)
EXTENDS EventDispatch, TLAPS

JobPhases == {"off", "lot", "call", "record", "unknown", "flag", "ended",
              "unsent", "failed"}

\* Creates and handlers have phases of their own.  A create's rows are there
\* from its insert on, before its job begins; a handler found its row.
Actors ==
  /\ \A c \in Creates : pc[c] \in {"idle", "insert", "requester"} \cup Ended
  /\ \A h \in Handlers :
       /\ pc[h] \in {"idle", "update", "alert", "icm", "withdraw", "log"} \cup Ended
       /\ pc[h] # "idle" => op[h] \in Ops
       /\ pc[h] \notin {"idle", "rejected"} => state[op[h].row] # NULL
  /\ \A c \in Creates : pc[c] \in {"idle", "insert", "rejected"} =>
       \A i \in 1..Days : state[<<c, i>>] = NULL
  /\ \A c \in Creates : pc[c] = "requester" \/ job[c][1] # "off" =>
       \A i \in 1..Days : state[<<c, i>>] # NULL
  /\ \A h \in Handlers : pc[h] = "idle" => op[h] = NULL
  /\ \A c \in Creates : pc[c] = "requester" => Today # 0 /\ job[c][1] = "off"

TypeInv == TypeOK /\ Actors

LEMMA RowTypes ==
  /\ \A c \in Creates, i \in 1..Days : <<c, i>> \in Rows
  /\ \A r \in Rows : r[1] \in Creates /\ r[2] \in 1..Days /\ r = <<r[1], r[2]>>
  /\ 1 \in 1..Days
  /\ Today # 0 => Today \in 1..Days
BY DispatchAssumption DEF Rows

LEMMA OpTypes ==
  /\ \A o \in Ops : /\ o # NULL /\ o.row \in Rows /\ o.kind \in Kinds
                    /\ Target(o) \in States
  /\ \A s \in States : s # NULL
BY DispatchAssumption DEF Kinds, Target, States

LEMMA GrowTypes ==
  ASSUME NEW f \in [Rows -> SUBSET Handlers], NEW r \in Rows, NEW h \in Handlers
  PROVE  [f EXCEPT ![r] = @ \cup {h}] \in [Rows -> SUBSET Handlers]
OBVIOUS

LEMMA TypeInit == Init => TypeInv
<1> SUFFICES ASSUME Init PROVE TypeInv
  OBVIOUS
<1>1. job \in [Creates -> JobPhases \X (1..Days)]
  BY RowTypes DEF Init, JobPhases
<1>2. /\ lotKnown \subseteq Creates /\ mirrored \in BOOLEAN
      /\ copies \subseteq Creates /\ type \in {"delivery", "guest"}
  <2>1. PICK has \in Setups : /\ type = has.type /\ copies = has.copies
                              /\ lotKnown = has.lotKnown /\ mirrored = has.mirrored
    BY DEF Init
  <2>2. QED
    BY <2>1, DispatchAssumption
<1>3. TypeOK
  BY <1>1, <1>2 DEF Init, TypeOK, JobPhases, Ended, Written
<1>4. Actors
  BY DispatchAssumption, RowTypes DEF Init, Actors, Ended
<1>5. QED
  BY <1>3, <1>4 DEF TypeInv

LEMMA TypeNext == TypeInv /\ [Next]_vars => TypeInv'
<1> SUFFICES ASSUME TypeInv, [Next]_vars
             PROVE  TypeInv'
  OBVIOUS
<1> USE RowTypes, OpTypes, DispatchAssumption
    DEF TypeInv, TypeOK, Actors, Ended, Written, Goto,
        createVars, setup, rowVars, icmVars, handlerVars, mirrorVars
<1>1. ASSUME NEW c \in Creates, RejectEvent(c)
      PROVE  TypeInv'
  BY <1>1 DEF RejectEvent
<1>2. ASSUME NEW c \in Creates, ValidatePermanent(c)
      PROVE  TypeInv'
  BY <1>2 DEF ValidatePermanent
<1>3. ASSUME NEW c \in Creates, InsertRows(c)
      PROVE  TypeInv'
  <2>1. /\ state' \in [Rows -> States \cup {NULL}]
        /\ \A r \in Rows : state[r] # NULL => state'[r] # NULL
        /\ \A d \in Creates, i \in 1..Days :
             state'[<<d, i>>] = IF d = c THEN "Emitido" ELSE state[<<d, i>>]
    BY <1>3 DEF InsertRows, RowsOf, States
  <2>2. job' \in [Creates -> JobPhases \X (1..Days)]
    <3>1. \/ job' = job
          \/ job' = [job EXCEPT ![c] = job[c]]
          \/ job' = [job EXCEPT ![c] = <<"lot", 1>>]
      BY <1>3 DEF InsertRows
    <3>2. <<"lot", 1>> \in JobPhases \X (1..Days) /\ job \in [Creates -> JobPhases \X (1..Days)]
      BY DEF JobPhases
    <3>3. QED
      BY <3>1, <3>2
  <2>6. /\ pc' = [pc EXCEPT ![c] = IF Today # 0 THEN "requester" ELSE "done"]
        /\ \A d \in Creates : job'[d][1] # "off" => d = c \/ job[d][1] # "off"
        /\ UNCHANGED <<saw, lotKnown, mirrored, copies, type, isDelivery, records, invited, op, notices,
                       referenced, unflagged, unsent, withdrawn, unanswered, answered,
                       mirror, writes, excused>>
    BY <1>3 DEF InsertRows
  <2>7. Written \subseteq Written'
    BY <2>1
  <2>3. TypeOK'
    BY <2>1, <2>2, <2>6, <2>7 DEF JobPhases
  <2>4. Actors'
    <3>1. \A d \in Creates : pc'[d] = IF d = c THEN pc'[c] ELSE pc[d]
      BY <2>6
    <3>2. \A h \in Handlers : pc'[h] = pc[h]
      BY <2>6
    <3>3. pc'[c] \in {"requester", "done"} /\ "Emitido" # NULL
      BY <2>6 DEF States
    <3>5. job[c][1] = "off"
      BY <1>3 DEF InsertRows
    <3>6. \A d \in Creates : pc'[d] = "requester" => Today # 0 /\ job'[d][1] = "off"
      <4>1. CASE Today = 0
        BY <2>6, <3>1, <4>1
      <4>2. CASE Today # 0
        BY <1>3, <3>1, <3>5, <4>2 DEF InsertRows
      <4>3. QED
        BY <4>1, <4>2
    <3>4. QED
      BY <2>1, <2>6, <3>1, <3>2, <3>3, <3>6
  <2>5. QED
    BY <2>3, <2>4
<1>4. ASSUME NEW c \in Creates, FindRequester(c)
      PROVE  TypeInv'
  <2>1. job' \in [Creates -> JobPhases \X (1..Days)]
    BY <1>4 DEF FindRequester, JobPhases
  <2>2. writes' \subseteq Written' \X States
    <3>1. <<c, Today>> \in Written
      BY <1>4 DEF FindRequester
    <3>2. UNCHANGED Written
      BY <1>4 DEF FindRequester
    <3>3. "Emitido" \in States
      BY DEF States
    <3>4. QED
      BY <1>4, <3>1, <3>2, <3>3 DEF FindRequester, Setting
  <2>3. TypeOK'
    <3>1. /\ pc' = [pc EXCEPT ![c] = "done"]
          /\ UNCHANGED <<saw, lotKnown, mirrored, copies, type, state, isDelivery, records, invited, op,
                         notices, referenced, unflagged, unsent, withdrawn, unanswered,
                         answered, mirror, excused>>
      BY <1>4 DEF FindRequester
    <3>2. QED
      BY <2>1, <2>2, <3>1 DEF JobPhases
  <2>4. Actors'
    BY <1>4, <2>1 DEF FindRequester
  <2>5. QED
    BY <2>3, <2>4
<1>5. ASSUME NEW c \in Creates, FindLot(c)
      PROVE  TypeInv'
  BY <1>5 DEF FindLot
<1>6. ASSUME NEW c \in Creates, CreateInvitation(c)
      PROVE  TypeInv'
  <2>1. job[c][2] \in 1..Days /\ <<c, job[c][2]>> \in Written
    BY <1>6 DEF CreateInvitation
  <2>11. PICK phase \in {"record", "failed", "unknown"} :
           job' = [job EXCEPT ![c] = <<phase, job[c][2]>>]
    BY <1>6 DEF CreateInvitation
  <2>12. job[c][1] # "off" /\ \A d \in Creates \ {c} : job'[d] = job[d]
    BY <1>6, <2>11 DEF CreateInvitation
  <2>2. job' \in [Creates -> JobPhases \X (1..Days)]
    BY <2>1, <2>11 DEF JobPhases
  <2>3. invited' \subseteq Written' /\ answered' \subseteq Written'
    BY <1>6, <2>1 DEF CreateInvitation
  <2>7. UNCHANGED <<pc, createVars, rowVars, records, withdrawn, unanswered, handlerVars,
                    mirrorVars, Written>>
    BY <1>6 DEF CreateInvitation
  <2>4. TypeOK'
    BY <2>2, <2>3, <2>7 DEF JobPhases
  <2>8. \A d \in Creates : job'[d][1] # "off" => job[d][1] # "off"
    BY <2>12, Zenon
  <2>9. pc' = pc /\ op' = op /\ state' = state
    BY <2>7
  <2>10. \A d \in Creates : pc[d] = "requester" => job'[d][1] = "off"
    <3>1. pc[c] # "requester"
      BY <2>12
    <3>2. \A d \in Creates : pc[d] = "requester" => job[d][1] = "off"
      OBVIOUS
    <3>3. QED
      BY <2>12, <3>1, <3>2, Zenon
  <2>5. Actors'
    BY <2>8, <2>9, <2>10
  <2>6. QED
    BY <2>4, <2>5
<1>7. ASSUME NEW c \in Creates, RecordInvitation(c)
      PROVE  TypeInv'
  <2>1. job[c][2] \in 1..Days /\ <<c, job[c][2]>> \in Written
    BY <1>7 DEF RecordInvitation
  <2>2. /\ job[c][2] < Days => job[c][2] + 1 \in 1..Days
        /\ Days \in 1..Days
    BY <2>1
  <2>3. job' \in [Creates -> JobPhases \X (1..Days)]
    BY <1>7, <2>2 DEF RecordInvitation, JobPhases
  <2>4. records' \subseteq Written' \X {"reference", "none"}
    <3>1. Answer(c) \in {"reference", "none"} /\ Written' = Written
      BY <1>7 DEF RecordInvitation, Answer
    <3>2. records' = records \cup {<<<<c, job[c][2]>>, Answer(c)>>}
      BY <1>7 DEF RecordInvitation
    <3>3. records \subseteq Written \X {"reference", "none"}
      OBVIOUS
    <3>4. QED
      BY ONLY <2>1, <3>1, <3>2, <3>3
  <2>5. TypeOK'
    BY <1>7, <2>3, <2>4 DEF RecordInvitation, JobPhases
  <2>6. Actors'
    BY <1>7, <2>3 DEF RecordInvitation
  <2>7. QED
    BY <2>5, <2>6
<1>8. ASSUME NEW c \in Creates, FlagDelivered(c)
      PROVE  TypeInv'
  BY <1>8 DEF FlagDelivered, RowsOf
<1>9. ASSUME NEW c \in Creates, JobFails(c)
      PROVE  TypeInv'
  BY <1>9 DEF JobFails
<1>10. ASSUME NEW h \in Handlers, NEW o \in Ops, Begin(h, o)
       PROVE  TypeInv'
  BY <1>10 DEF Begin
<1>11. ASSUME NEW h \in Handlers, UpdateRow(h)
       PROVE  TypeInv'
  BY <1>11 DEF UpdateRow
<1>12. ASSUME NEW h \in Handlers, MirrorRow(h)
       PROVE  TypeInv'
  BY <1>12 DEF MirrorRow, Setting
<1>13. ASSUME NEW h \in Handlers, FindRecord(h)
       PROVE  TypeInv'
  <2>1. /\ referenced' \subseteq notices'
        /\ pc' \in {[pc EXCEPT ![h] = "withdraw"], [pc EXCEPT ![h] = "done"]}
        /\ pc[h] = "icm"
        /\ UNCHANGED <<job, saw, lotKnown, mirrored, copies, type, state, isDelivery,
                       records, invited, op,
                       notices, unflagged, unsent, withdrawn, unanswered, answered,
                       mirror, writes, excused>>
    BY <1>13 DEF FindRecord
  <2>6. PICK phase \in {"withdraw", "done"} : pc' = [pc EXCEPT ![h] = phase]
    BY <2>1
  <2>2. TypeOK'
    BY <2>1, <2>6
  <2>5. /\ \A c \in Creates : pc'[c] = pc[c]
        /\ \A g \in Handlers : pc'[g] = IF g = h THEN phase ELSE pc[g]
    BY <2>6
  <2>3. Actors'
    BY <2>1, <2>5
  <2>4. QED
    BY <2>2, <2>3
<1>14. ASSUME NEW h \in Handlers, WithdrawInvitation(h)
       PROVE  TypeInv'
  <2>1. /\ invited' \subseteq Written'
        /\ withdrawn' \in [Rows -> SUBSET Handlers]
        /\ unanswered' \subseteq Handlers
    <3>1. \/ UNCHANGED withdrawn
          \/ withdrawn' = [withdrawn EXCEPT ![op[h].row] = @ \cup {h}]
      BY <1>14 DEF WithdrawInvitation
    <3>4. op[h].row \in Rows
      BY <1>14 DEF WithdrawInvitation
    <3>2. withdrawn' \in [Rows -> SUBSET Handlers]
      <4>1. withdrawn \in [Rows -> SUBSET Handlers]
        OBVIOUS
      <4>2. [withdrawn EXCEPT ![op[h].row] = @ \cup {h}] \in [Rows -> SUBSET Handlers]
        BY <3>4, <4>1, GrowTypes, Zenon
      <4>3. QED
        BY <3>1, <4>1, <4>2
    <3>3. QED
      BY <1>14, <3>2 DEF WithdrawInvitation
  <2>2. QED
    BY <1>14, <2>1 DEF WithdrawInvitation
<1>15. ASSUME NEW h \in Handlers, RecordWithdrawal(h)
       PROVE  TypeInv'
  <2>1. op[h].row \in Written
    BY <1>15 DEF RecordWithdrawal
  <2>2. records' \subseteq Written' \X {"reference", "none"}
    BY <1>15, <2>1 DEF RecordWithdrawal
  <2>3. QED
    BY <1>15, <2>2 DEF RecordWithdrawal
<1>16. ASSUME NEW x \in Creates \cup Handlers, Fail(x)
       PROVE  TypeInv'
  BY <1>16 DEF Fail, InFlight, RowsOf
<1>17. ASSUME NEW w \in writes, WriteLands(w)
       PROVE  TypeInv'
  BY <1>17 DEF WriteLands
<1>18. ASSUME NEW w \in writes, WriteLost(w)
       PROVE  TypeInv'
  BY <1>18 DEF WriteLost
<1>19. CASE UNCHANGED vars
  BY <1>19 DEF vars
<1>20. QED
  BY <1>1, <1>2, <1>3, <1>4, <1>5, <1>6, <1>7, <1>8, <1>9, <1>10, <1>11,
     <1>12, <1>13, <1>14, <1>15, <1>16, <1>17, <1>18, <1>19
     DEF Next, CreateStep, JobStep, HandlerStep

\* TypeOK holds in every reachable state: nothing is flagged, invited,
\* recorded or mirrored for a row that is not in the table.
THEOREM TypeCorrect == Spec => []TypeOK
<1>1. TypeInv => TypeOK
  BY DEF TypeInv
<1>2. QED
  BY TypeInit, TypeNext, <1>1, PTL DEF Spec

-----------------------------------------------------------------------------
(* Invitations *)

\* A job is started by its create and moved on by its own steps.
LEMMA JobSteps ==
  ASSUME TypeInv, [Next]_vars, NEW c \in Creates
  PROVE  \/ job'[c] = job[c]
         \/ InsertRows(c) \/ FindRequester(c) \/ FindLot(c) \/ CreateInvitation(c)
         \/ RecordInvitation(c) \/ FlagDelivered(c) \/ JobFails(c)
<1> USE DEF TypeInv, TypeOK
<1>1. ASSUME NEW d \in Creates \ {c},
             InsertRows(d) \/ FindRequester(d) \/ FindLot(d) \/ CreateInvitation(d)
      PROVE  job'[c] = job[c]
  BY <1>1 DEF InsertRows, FindRequester, FindLot, CreateInvitation
<1>2. ASSUME NEW d \in Creates \ {c},
             RecordInvitation(d) \/ FlagDelivered(d) \/ JobFails(d)
      PROVE  job'[c] = job[c]
  BY <1>2 DEF RecordInvitation, FlagDelivered, JobFails
<1>3. CASE job' = job
  BY <1>3
<1>4. QED
  BY <1>1, <1>2, <1>3
     DEF Next, CreateStep, JobStep, HandlerStep, RejectEvent, ValidatePermanent,
         Begin, UpdateRow, MirrorRow, FindRecord, WithdrawInvitation,
         RecordWithdrawal, Fail, WriteLands, WriteLost, vars, icmVars

\* The job flags every row it has sent before it ends.
FlagInv == \A c \in Creates : job[c][1] = "ended" => RowsOf(c) \subseteq isDelivery

LEMMA FlagNext == TypeInv /\ FlagInv /\ [Next]_vars => FlagInv'
<1> SUFFICES ASSUME TypeInv, FlagInv, [Next]_vars, NEW c \in Creates, job'[c][1] = "ended"
             PROVE  RowsOf(c) \subseteq isDelivery'
  BY DEF FlagInv, RowsOf
<1> USE DEF TypeInv, TypeOK, FlagInv, rowVars, icmVars
<1>1. isDelivery \subseteq isDelivery'
  BY DEF Next, CreateStep, JobStep, HandlerStep, RejectEvent, ValidatePermanent,
         InsertRows, FindRequester, FindLot, CreateInvitation, RecordInvitation,
         FlagDelivered, JobFails, Begin, UpdateRow, MirrorRow, FindRecord,
         WithdrawInvitation, RecordWithdrawal, Fail, WriteLands, WriteLost, vars
<1>2. CASE job[c][1] = "ended"
  BY <1>1, <1>2
<1>3. CASE job[c][1] # "ended"
  <2>1. FlagDelivered(c)
    <3>1. InsertRows(c) \/ FindRequester(c) => job'[c] = job[c] \/ job'[c][1] = "lot"
      BY DEF InsertRows, FindRequester
    <3>2. FindLot(c) \/ CreateInvitation(c) \/ RecordInvitation(c) \/ JobFails(c)
            => job'[c][1] # "ended"
      BY DEF FindLot, CreateInvitation, RecordInvitation, JobFails
    <3>3. QED
      BY <1>3, <3>1, <3>2, JobSteps
  <2>2. QED
    BY <2>1 DEF FlagDelivered
<1>4. QED
  BY <1>2, <1>3

\* The job is past its call to ICM for the row.
Sent(r) ==
  \/ job[r[1]][2] > r[2]
  \/ /\ job[r[1]][2] = r[2]
     /\ job[r[1]][1] \in {"record", "unknown", "flag", "ended", "failed"}

SentInv ==
  /\ \A r \in Rows : (r \in invited \cup answered \/ withdrawn[r] # {}) => Sent(r)
  /\ \A c \in Creates : job[c][1] \in {"off", "lot"} => job[c][2] = 1

\* A job goes forward.
LEMMA SentKept ==
  ASSUME TypeInv, SentInv, [Next]_vars, NEW r \in Rows, Sent(r)
  PROVE  Sent(r)'
<1>11. PICK c \in Creates, i \in 1..Days : r = <<c, i>>
  BY DEF Rows
<1>1. c = r[1] /\ r[2] = i /\ i \in Nat /\ i > 0
  BY <1>11, DispatchAssumption
<1>2. job[c] \in JobPhases \X (1..Days) /\ job \in [Creates -> JobPhases \X (1..Days)]
  BY <1>1 DEF TypeInv, TypeOK, JobPhases
<1>3. CASE job'[c] = job[c]
  BY <1>1, <1>3 DEF Sent
<1>4. CASE RecordInvitation(c)
  BY <1>1, <1>2, <1>4, DispatchAssumption DEF RecordInvitation, Sent
<1>5. CASE JobFails(c)
  BY <1>1, <1>2, <1>5 DEF JobFails, Sent
<1>6. CASE FlagDelivered(c)
  <2>1. job'[c] = <<"ended", Days>> /\ job[c][2] <= Days /\ job[c][2] \in Nat
    BY <1>1, <1>2, <1>6, DispatchAssumption DEF FlagDelivered
  <2>2. r[2] <= Days /\ Days \in Nat
    BY RowTypes, DispatchAssumption
  <2>3. QED
    BY <1>1, <2>1, <2>2 DEF Sent
<1>7. CASE CreateInvitation(c)
  BY <1>1, <1>2, <1>7 DEF CreateInvitation, Sent
<1>8. CASE FindLot(c)
  BY <1>1, <1>2, <1>8 DEF FindLot, Sent, SentInv
<1>9. CASE InsertRows(c) \/ FindRequester(c)
  <2>1. job[c][1] = "off"
    BY <1>9, RowTypes DEF InsertRows, FindRequester, TypeInv, Actors
  <2>2. job[c][2] = 1 /\ i >= 1
    BY <1>1, <2>1 DEF SentInv
  <2>3. QED
    BY <1>1, <2>1, <2>2 DEF Sent
<1>10. CASE job'[c] # job[c]
  <2>1. \/ InsertRows(c) \/ FindRequester(c) \/ FindLot(c) \/ CreateInvitation(c)
        \/ RecordInvitation(c) \/ FlagDelivered(c) \/ JobFails(c)
    BY <1>10, JobSteps
  <2>2. QED
    BY <2>1, <1>4, <1>5, <1>6, <1>7, <1>8, <1>9
<1>12. QED
  BY <1>3, <1>10

\* Invitations are only made by the job and only taken back by handlers.
LEMMA InvitationSteps ==
  ASSUME [Next]_vars
  PROVE  \/ UNCHANGED <<invited, withdrawn, answered>>
         \/ \E c \in Creates : CreateInvitation(c)
         \/ \E h \in Handlers : WithdrawInvitation(h)
BY DEF Next, CreateStep, JobStep, HandlerStep, RejectEvent, ValidatePermanent,
       InsertRows, FindRequester, FindLot, RecordInvitation, FlagDelivered, JobFails,
       Begin, UpdateRow, MirrorRow, FindRecord, RecordWithdrawal, Fail, WriteLands,
       WriteLost, vars, icmVars

LEMMA SentNext == TypeInv /\ SentInv /\ [Next]_vars => SentInv'
<1> SUFFICES ASSUME TypeInv, SentInv, [Next]_vars
             PROVE  SentInv'
  OBVIOUS
<1>1. ASSUME NEW r \in Rows, r \in invited' \cup answered' \/ withdrawn'[r] # {}
      PROVE  Sent(r)'
  <2>1. CASE r \in invited \cup answered \/ withdrawn[r] # {}
    BY <2>1, SentKept DEF SentInv
  <2>2. ASSUME NEW c \in Creates, CreateInvitation(c), r \notin invited \cup answered,
               withdrawn[r] = {}
        PROVE  Sent(r)'
    <3>1. r = <<c, job[c][2]>>
      BY <1>1, <2>2 DEF CreateInvitation
    <3>2. /\ job'[c][2] = job[c][2]
          /\ job'[c][1] \in {"record", "unknown", "failed"}
      BY <2>2 DEF CreateInvitation, TypeInv, TypeOK
    <3>3. QED
      BY <3>1, <3>2 DEF Sent
  <2>3. ASSUME NEW h \in Handlers, WithdrawInvitation(h)
        PROVE  r \in invited \cup answered \/ withdrawn[r] # {}
    BY <1>1, <2>3 DEF WithdrawInvitation, TypeInv, TypeOK
  <2>4. CASE UNCHANGED <<invited, withdrawn, answered>>
    BY <1>1, <2>1, <2>4
  <2>5. QED
    BY <2>1, <2>2, <2>3, <2>4, InvitationSteps
<1>2. ASSUME NEW c \in Creates, job'[c][1] \in {"off", "lot"}
      PROVE  job'[c][2] = 1
  <2>1. CASE job'[c] = job[c]
    BY <1>2, <2>1 DEF SentInv
  <2>2. CASE job'[c] # job[c]
    <3>1. \/ InsertRows(c) \/ FindRequester(c) \/ FindLot(c) \/ CreateInvitation(c)
          \/ RecordInvitation(c) \/ FlagDelivered(c) \/ JobFails(c)
      BY <2>2, JobSteps
    <3>2. job'[c] = <<"lot", 1>> \/ job'[c][1] \notin {"off", "lot"}
      BY <2>2, <3>1
         DEF InsertRows, FindRequester, FindLot, CreateInvitation, RecordInvitation,
             FlagDelivered, JobFails, TypeInv, TypeOK
    <3>3. QED
      BY <1>2, <3>2
  <2>3. QED
    BY <2>1, <2>2
<1>3. QED
  BY <1>1, <1>2 DEF SentInv

\* ICM answers for a row once.
LEMMA AnsweredKept ==
  ASSUME TypeInv, SentInv, [Next]_vars, NEW r \in Rows, Sent(r)
  PROVE  /\ r \in answered' <=> r \in answered
         /\ r \in invited' => r \in invited
<1>1. ASSUME NEW c \in Creates, CreateInvitation(c)
      PROVE  /\ r \in answered' <=> r \in answered
             /\ r \in invited' => r \in invited
  <2>1. job[c][1] = "call" /\ job[c][2] \in Nat
    BY <1>1, DispatchAssumption DEF CreateInvitation, TypeInv, TypeOK
  <2>2. r # <<c, job[c][2]>>
    BY <2>1 DEF Sent
  <2>3. QED
    BY <1>1, <2>2 DEF CreateInvitation
<1>2. (\E h \in Handlers : WithdrawInvitation(h)) =>
        answered' = answered /\ invited' \subseteq invited
  BY DEF WithdrawInvitation
<1>3. QED
  BY <1>1, <1>2, InvitationSteps

LEMMA WithdrawnNext ==
  TypeInv /\ SentInv /\ WithdrawnStaysWithdrawn /\ [Next]_vars => WithdrawnStaysWithdrawn'
<1> SUFFICES ASSUME TypeInv, SentInv, WithdrawnStaysWithdrawn, [Next]_vars, NEW r \in invited'
             PROVE  withdrawn'[r] = {}
  BY DEF WithdrawnStaysWithdrawn
<1>1. r \in Rows
  BY TypeNext DEF TypeInv, TypeOK, Written
<1>2. ASSUME NEW c \in Creates, CreateInvitation(c)
      PROVE  withdrawn'[r] = {}
  <2>1. withdrawn' = withdrawn /\ job[c][1] = "call" /\ job[c][2] \in Nat
    BY <1>2, DispatchAssumption DEF CreateInvitation, TypeInv, TypeOK
  <2>2. CASE r \in invited
    BY <2>1, <2>2 DEF WithdrawnStaysWithdrawn
  <2>3. CASE r \notin invited
    <3>1. r = <<c, job[c][2]>>
      BY <1>2, <2>3 DEF CreateInvitation
    <3>2. ~Sent(r)
      BY <2>1, <3>1 DEF Sent
    <3>3. QED
      BY <1>1, <2>1, <3>2 DEF SentInv
  <2>4. QED
    BY <2>2, <2>3
<1>3. ASSUME NEW h \in Handlers, WithdrawInvitation(h)
      PROVE  withdrawn'[r] = {}
  <2>1. r \in invited /\ withdrawn'[r] = withdrawn[r]
    BY <1>1, <1>3 DEF WithdrawInvitation, TypeInv, TypeOK
  <2>2. QED
    BY <2>1 DEF WithdrawnStaysWithdrawn
<1>4. QED
  BY <1>2, <1>3, InvitationSteps DEF WithdrawnStaysWithdrawn

\* WithdrawnStaysWithdrawn holds: no cancellation overtakes the call that
\* would make its invitation again.
THEOREM WithdrawnForGood == Spec => []WithdrawnStaysWithdrawn
<1>1. Init => SentInv /\ WithdrawnStaysWithdrawn
  <2> SUFFICES ASSUME Init
               PROVE  SentInv /\ WithdrawnStaysWithdrawn
    OBVIOUS
  <2>1. /\ invited = {} /\ answered = {} /\ \A r \in Rows : withdrawn[r] = {}
        /\ \A c \in Creates : job[c] = <<"off", 1>>
    BY DEF Init
  <2>2. QED
    BY <2>1 DEF SentInv, WithdrawnStaysWithdrawn
<1>2. QED
  BY TypeInit, TypeNext, SentNext, WithdrawnNext, <1>1, PTL DEF Spec

-----------------------------------------------------------------------------
(* Duplicates *)

\* A request has put the row in state Emitido again, or was refused.
PutBack(r) ==
  \E h \in Handlers : /\ op[h] # NULL /\ pc[h] # "update"
                     /\ op[h].row = r /\ Target(op[h]) = "Emitido"

\* A create that was let through saw no event of the visitor in force.
SeenClear ==
  /\ \A c \in Creates : saw[c] \subseteq Written
  /\ \A c \in Creates \ copies : pc[c] \notin {"idle", "rejected"} =>
       \A d \in Creates : <<d, 1>> \in saw[c] =>
         state[<<d, 1>>] # "Emitido" \/ PutBack(<<d, 1>>)

LEMMA PutBackKept ==
  ASSUME TypeInv, [Next]_vars, NEW r \in Rows, PutBack(r)
  PROVE  PutBack(r)'
<1>1. PICK h \in Handlers : /\ op[h] # NULL /\ pc[h] # "update"
                           /\ op[h].row = r /\ Target(op[h]) = "Emitido"
  BY DEF PutBack
<1>2. pc[h] # "idle"
  BY <1>1 DEF TypeInv, Actors
<1>3. op'[h] = op[h] /\ pc'[h] # "update"
  <2> USE DispatchAssumption DEF TypeInv, TypeOK, Goto, handlerVars
  <2>1. ASSUME NEW g \in Handlers, NEW o \in Ops, Begin(g, o)
        PROVE  op'[h] = op[h] /\ pc'[h] # "update"
    BY <1>1, <1>2, <2>1 DEF Begin
  <2>2. ASSUME NEW g \in Handlers, HandlerStep(g)
        PROVE  op'[h] = op[h] /\ pc'[h] # "update"
    BY <1>1, <2>2 DEF HandlerStep, UpdateRow, MirrorRow, FindRecord,
         WithdrawInvitation, RecordWithdrawal
  <2>3. ASSUME NEW c \in Creates, CreateStep(c)
        PROVE  op'[h] = op[h] /\ pc'[h] # "update"
    BY <1>1, <2>3 DEF CreateStep, RejectEvent, ValidatePermanent, InsertRows, FindRequester
  <2>4. ASSUME NEW c \in Creates, JobStep(c) \/ JobFails(c)
        PROVE  op'[h] = op[h] /\ pc'[h] # "update"
    BY <1>1, <2>4 DEF JobStep, FindLot, CreateInvitation, RecordInvitation,
         FlagDelivered, JobFails
  <2>5. ASSUME NEW x \in Creates \cup Handlers, Fail(x)
        PROVE  op'[h] = op[h] /\ pc'[h] # "update"
    BY <1>1, <2>5 DEF Fail
  <2>6. ASSUME NEW w \in writes, WriteLands(w) \/ WriteLost(w)
        PROVE  op'[h] = op[h] /\ pc'[h] # "update"
    BY <1>1, <2>6 DEF WriteLands, WriteLost
  <2>7. CASE UNCHANGED vars
    BY <1>1, <2>7 DEF vars
  <2>8. QED
    BY <2>1, <2>2, <2>3, <2>4, <2>5, <2>6, <2>7 DEF Next
<1>4. QED
  BY <1>1, <1>3 DEF PutBack

\* Only an insert and a handler's update change the state of a row.
LEMMA StateSteps ==
  ASSUME [Next]_vars
  PROVE  \/ UNCHANGED state
         \/ \E c \in Creates : InsertRows(c)
         \/ \E h \in Handlers : UpdateRow(h)
BY DEF Next, CreateStep, JobStep, HandlerStep, RejectEvent, ValidatePermanent,
       FindRequester, FindLot, CreateInvitation, RecordInvitation, FlagDelivered,
       JobFails, Begin, MirrorRow, FindRecord, WithdrawInvitation, RecordWithdrawal,
       Fail, WriteLands, WriteLost, vars, rowVars

\* Only its validatePermanent changes what a create saw and lets it through.
LEMMA SawSteps ==
  ASSUME TypeInv, [Next]_vars, NEW c \in Creates
  PROVE  /\ copies' = copies
         /\ \/ ValidatePermanent(c)
            \/ /\ saw'[c] = saw[c]
               /\ pc'[c] \notin {"idle", "rejected"} => pc[c] \notin {"idle", "rejected"}
<1> USE DispatchAssumption DEF TypeInv, TypeOK, Goto, createVars, setup
<1>1. ASSUME NEW d \in Creates, CreateStep(d)
      PROVE  /\ copies' = copies
             /\ \/ ValidatePermanent(c)
                \/ /\ saw'[c] = saw[c]
                   /\ pc'[c] \notin {"idle", "rejected"} => pc[c] \notin {"idle", "rejected"}
  BY <1>1 DEF CreateStep, RejectEvent, ValidatePermanent, InsertRows, FindRequester
<1>2. ASSUME NEW d \in Creates, JobStep(d) \/ JobFails(d)
      PROVE  UNCHANGED <<copies, saw, pc>>
  BY <1>2 DEF JobStep, FindLot, CreateInvitation, RecordInvitation,
         FlagDelivered, JobFails
<1>3. ASSUME NEW h \in Handlers, HandlerStep(h) \/ \E o \in Ops : Begin(h, o)
      PROVE  UNCHANGED <<copies, saw>> /\ pc'[c] = pc[c]
  BY <1>3 DEF HandlerStep, UpdateRow, MirrorRow, FindRecord,
         WithdrawInvitation, RecordWithdrawal, Begin
<1>4. ASSUME NEW x \in Creates \cup Handlers, Fail(x)
      PROVE  /\ UNCHANGED <<copies, saw>>
             /\ pc'[c] \notin {"idle", "rejected"} => pc[c] \notin {"idle", "rejected"}
  BY <1>4 DEF Fail, InFlight, Ended
<1>5. ASSUME NEW w \in writes, WriteLands(w) \/ WriteLost(w)
      PROVE  UNCHANGED <<copies, saw, pc>>
  BY <1>5 DEF WriteLands, WriteLost
<1>6. CASE UNCHANGED vars
  BY <1>6 DEF vars
<1>7. QED
  BY <1>1, <1>2, <1>3, <1>4, <1>5, <1>6 DEF Next

\* Rows stay in the table, and one that turns up in state Emitido is new or
\* was put back.
LEMMA StateKept ==
  ASSUME TypeInv, [Next]_vars, NEW r \in Rows, state[r] # NULL
  PROVE  /\ state'[r] # NULL
         /\ state'[r] = "Emitido" => state[r] = "Emitido" \/ PutBack(r)'
<1> USE RowTypes, OpTypes, DispatchAssumption DEF TypeInv, TypeOK, Actors, Goto
<1>1. ASSUME NEW c \in Creates, InsertRows(c)
      PROVE  state'[r] = state[r]
  <2>1. r \notin RowsOf(c)
    BY <1>1 DEF InsertRows, RowsOf
  <2>2. QED
    BY <1>1, <2>1 DEF InsertRows
<1>2. ASSUME NEW h \in Handlers, UpdateRow(h)
      PROVE  /\ state'[r] # NULL
             /\ state'[r] = "Emitido" => state[r] = "Emitido" \/ PutBack(r)'
  <2>1. CASE op[h].row # r
    BY <1>2, <2>1 DEF UpdateRow
  <2>2. CASE op[h].row = r
    <3>1. /\ op[h] \in Ops /\ op' = op /\ pc'[h] # "update"
          /\ state'[r] = Target(op[h])
      BY <1>2, <2>2 DEF UpdateRow
    <3>2. QED
      BY <2>2, <3>1 DEF PutBack
  <2>3. QED
    BY <2>1, <2>2
<1>3. QED
  BY <1>1, <1>2, StateSteps

LEMMA SeenNext == TypeInv /\ SeenClear /\ [Next]_vars => SeenClear'
<1> SUFFICES ASSUME TypeInv, SeenClear, [Next]_vars, NEW c \in Creates
             PROVE  /\ saw'[c] \subseteq Written'
                    /\ c \notin copies' /\ pc'[c] \notin {"idle", "rejected"} =>
                         \A d \in Creates : <<d, 1>> \in saw'[c] =>
                           state'[<<d, 1>>] # "Emitido" \/ PutBack(<<d, 1>>)'
  BY DEF SeenClear
<1>1. Written \subseteq Written'
  BY StateKept DEF Written
<1>2. CASE ValidatePermanent(c)
  <2>1. /\ saw'[c] = Written /\ state' = state
        /\ c \notin copies' /\ pc'[c] \notin {"idle", "rejected"} => Duplicates = {}
    BY <1>2 DEF ValidatePermanent, Goto, rowVars, TypeInv, TypeOK
  <2>2. QED
    BY <1>1, <2>1 DEF Duplicates
<1>3. CASE ~ValidatePermanent(c)
  <2>1. /\ copies' = copies /\ saw'[c] = saw[c]
        /\ pc'[c] \notin {"idle", "rejected"} => pc[c] \notin {"idle", "rejected"}
    BY <1>3, SawSteps
  <2>2. ASSUME c \notin copies, pc[c] \notin {"idle", "rejected"},
               NEW d \in Creates, <<d, 1>> \in saw[c]
        PROVE  state'[<<d, 1>>] # "Emitido" \/ PutBack(<<d, 1>>)'
    <3>1. <<d, 1>> \in Rows /\ state[<<d, 1>>] # NULL
      BY <2>2 DEF SeenClear, Written
    <3>2. state[<<d, 1>>] # "Emitido" \/ PutBack(<<d, 1>>)
      BY <2>2 DEF SeenClear
    <3>3. QED
      BY <3>1, <3>2, StateKept, PutBackKept
  <2>3. QED
    BY <1>1, <2>1, <2>2 DEF SeenClear
<1>4. QED
  BY <1>2, <1>3

\* DuplicateOnlyByRace holds: of two events of a visitor in force at once, one
\* was written behind the other's check, or was put back in force later.
THEOREM DuplicatesNeedRace == Spec => []DuplicateOnlyByRace
<1>1. Init => SeenClear
  BY DEF Init, SeenClear
<1>2. TypeInv /\ SeenClear => DuplicateOnlyByRace
  <2> SUFFICES ASSUME TypeInv, SeenClear, NEW c \in Duplicates, NEW d \in Duplicates,
                      c \notin copies, d \notin copies,
                      <<c, 1>> \in saw[d] \/ <<d, 1>> \in saw[c]
               PROVE  PutBack(<<c, 1>>) \/ PutBack(<<d, 1>>)
    BY DEF DuplicateOnlyByRace, PutBack
  <2>1. /\ c \in Creates /\ d \in Creates
        /\ state[<<c, 1>>] = "Emitido" /\ state[<<d, 1>>] = "Emitido"
    BY DEF Duplicates
  <2>2. pc[c] \notin {"idle", "rejected"} /\ pc[d] \notin {"idle", "rejected"}
    BY <2>1, RowTypes, OpTypes DEF TypeInv, Actors, States
  <2>3. QED
    BY <2>1, <2>2 DEF SeenClear
<1>3. QED
  BY TypeInit, TypeNext, SeenNext, <1>1, <1>2, PTL DEF Spec


-----------------------------------------------------------------------------
(* The mirror *)

\* A request on the row that is under way.
On(h, r) == pc[h] \notin {"idle"} \cup Ended /\ op[h].row = r

\* Firebase shows the row, or the row is of another day and as it was created.
Shown(r) ==
  \/ mirror[r] = state[r]
  \/ mirror[r] = NULL /\ r[2] # Today /\ state[r] = "Emitido"

\* At most one request, and writes that carry the row's state, are under way;
\* a row that is not shown yet has its create, a request or a write to come.
MirrorOK(r) ==
  /\ \A g, h \in Handlers : (On(g, r) /\ On(h, r)) => g = h
  /\ pc[r[1]] = "requester" =>
       /\ \A h \in Handlers : ~On(h, r)
       /\ \A w \in writes : w[1] # r
       /\ mirror[r] = NULL /\ state[r] = "Emitido"
  /\ \A h \in Handlers : (On(h, r) /\ pc[h] \in {"update", "alert"}) =>
       \A w \in writes : w[1] # r
  /\ \A h \in Handlers : (On(h, r) /\ pc[h] = "alert") => state[r] = Target(op[h])
  /\ \A w \in writes : w[1] = r => w[2] = state[r]
  /\ \/ Shown(r)
     \/ pc[r[1]] = "requester"
     \/ \E h \in Handlers : On(h, r) /\ pc[h] = "alert"
     \/ \E w \in writes : w[1] = r

RowMirror(r) == IF state[r] = NULL THEN mirror[r] = NULL ELSE r \in excused \/ MirrorOK(r)
MirrorInv == mirrored => \A r \in Rows : RowMirror(r)

\* A step that leaves the row's state, its mirror, its writes and its create
\* alone, and at most brings a request of it past its write.
LEMMA MirrorFrame ==
  ASSUME NEW r \in Rows, RowMirror(r),
         state'[r] = state[r], mirror'[r] = mirror[r], excused \subseteq excused',
         \A w : w[1] = r => (w \in writes' <=> w \in writes),
         pc'[r[1]] = "requester" <=> pc[r[1]] = "requester",
         \A h \in Handlers : On(h, r)' =>
           /\ On(h, r) /\ op'[h] = op[h]
           /\ pc'[h] \in {"update", "alert"} => pc'[h] = pc[h],
         \A h \in Handlers : (On(h, r) /\ pc[h] = "alert") => (On(h, r)' /\ pc'[h] = "alert")
  PROVE  RowMirror(r)'
<1>1. CASE state[r] = NULL \/ r \in excused
  BY <1>1 DEF RowMirror
<1>2. CASE MirrorOK(r)
  <2>1. Shown(r)' <=> Shown(r)
    BY DEF Shown
  <2>2. \A h \in Handlers : On(h, r)' => Target(op[h])' = Target(op[h])
    BY DEF Target
  <2>3. MirrorOK(r)'
    BY <1>2, <2>1, <2>2 DEF MirrorOK
  <2>4. QED
    BY <2>3, <1>1 DEF RowMirror
<1>3. QED
  BY <1>1, <1>2 DEF RowMirror

LEMMA MirrorNext == TypeInv /\ MirrorInv /\ [Next]_vars => MirrorInv'
<1> SUFFICES ASSUME TypeInv, MirrorInv, [Next]_vars, mirrored', NEW r \in Rows
             PROVE  RowMirror(r)'
  BY DEF MirrorInv
<1>a. mirrored' = mirrored /\ mirrored
  BY DEF Next, CreateStep, JobStep, HandlerStep, RejectEvent, ValidatePermanent,
         InsertRows, FindRequester, FindLot, CreateInvitation, RecordInvitation,
         FlagDelivered, JobFails, Begin, UpdateRow, MirrorRow, FindRecord,
         WithdrawInvitation, RecordWithdrawal, Fail, WriteLands, WriteLost, vars,
         createVars, setup
<1>b. /\ RowMirror(r) /\ r[1] \in Creates /\ r \in RowsOf(r[1]) /\ r = <<r[1], r[2]>>
      /\ r[2] \in 1..Days /\ \A c \in Creates : r \in RowsOf(c) => c = r[1]
  BY <1>a, RowTypes DEF MirrorInv, RowsOf
<1>c. /\ \A x \in Creates \cup Handlers : \A p : [pc EXCEPT ![x] = p][x] = p
      /\ \A x, y \in Creates \cup Handlers : \A p : x # y => [pc EXCEPT ![x] = p][y] = pc[y]
      /\ \A c \in Creates, h \in Handlers : c # h
  BY DispatchAssumption DEF TypeInv, TypeOK
<1>d. /\ \A w \in writes : w[1] \in Rows /\ state[w[1]] # NULL /\ w = <<w[1], w[2]>>
      /\ \A h \in Handlers : \A s : On(h, s) => /\ op[h] \in Ops /\ state[s] # NULL
                                           /\ s \in Rows
  BY OpTypes DEF TypeInv, TypeOK, Actors, On, Ended, Written
<1> USE DEF Goto
\* Steps that leave the rows and the mirror alone.
<1>1. ASSUME UNCHANGED <<state, mirrorVars, op>>,
             pc'[r[1]] = "requester" <=> pc[r[1]] = "requester",
             \A h \in Handlers : \/ pc'[h] = pc[h]
                                 \/ pc[h] \in {"icm", "withdraw", "log"} /\ pc'[h] \in {"withdraw", "log"} \cup Ended
      PROVE  RowMirror(r)'
  <2>1. \A h \in Handlers : On(h, r)' => /\ On(h, r)
                                         /\ pc'[h] \in {"update", "alert"} => pc'[h] = pc[h]
    BY <1>1 DEF On, Ended
  <2>2. \A h \in Handlers : (On(h, r) /\ pc[h] = "alert") => (On(h, r)' /\ pc'[h] = "alert")
    BY <1>1 DEF On, Ended
  <2>3. QED
    BY <1>1, <1>b, <2>1, <2>2, MirrorFrame DEF mirrorVars
<1>2. ASSUME NEW c \in Creates, RejectEvent(c) \/ ValidatePermanent(c)
      PROVE  RowMirror(r)'
  <2>1. PICK p \in {"rejected", "insert"} : pc' = [pc EXCEPT ![c] = p]
    BY <1>2 DEF RejectEvent, ValidatePermanent
  <2>2. /\ UNCHANGED <<state, mirrorVars, op>> /\ pc[c] = "idle"
        /\ \A h \in Handlers : pc'[h] = pc[h]
        /\ pc'[r[1]] = IF r[1] = c THEN p ELSE pc[r[1]]
    BY <1>2, <2>1, <1>b, <1>c DEF RejectEvent, ValidatePermanent, rowVars, handlerVars
  <2>3. QED
    BY <2>2, <1>1
<1>3. ASSUME NEW c \in Creates, InsertRows(c)
      PROVE  RowMirror(r)'
  <2>0. PICK p \in {"requester", "done"} :
          /\ pc' = [pc EXCEPT ![c] = p]
          /\ p = IF Today # 0 THEN "requester" ELSE "done"
    BY <1>3 DEF InsertRows
  <2>1. /\ UNCHANGED <<mirrorVars, op>> /\ pc[c] = "insert"
        /\ \A h \in Handlers : pc'[h] = pc[h]
        /\ pc'[r[1]] = IF r[1] = c THEN p ELSE pc[r[1]]
        /\ state'[r] = IF r[1] = c THEN "Emitido" ELSE state[r]
    BY <1>3, <2>0, <1>b, <1>c DEF InsertRows, handlerVars
  <2>2. CASE r[1] # c
    <3>1. \A h \in Handlers : On(h, r)' <=> On(h, r)
      BY <2>1 DEF On
    <3>2. QED
      BY <1>b, <2>1, <2>2, <3>1, MirrorFrame DEF mirrorVars
  <2>3. CASE r[1] = c
    <3>1. state[r] = NULL
      BY <2>1, <2>3, <1>b DEF TypeInv, Actors
    <3>2. /\ mirror'[r] = NULL /\ \A w \in writes' : w[1] # r
          /\ \A h \in Handlers : ~On(h, r)'
      BY <1>b, <1>d, <2>1, <3>1 DEF RowMirror, On, mirrorVars
    <3>3. state'[r] = "Emitido" /\ "Emitido" # NULL
      BY <2>1, <2>3, OpTypes DEF States
    <3>4. pc'[r[1]] = "requester" \/ r[2] # Today
      BY <2>0, <2>1, <2>3, <1>b, DispatchAssumption
    <3>5. MirrorOK(r)'
      BY <3>2, <3>3, <3>4 DEF MirrorOK, Shown
    <3>6. QED
      BY <3>5, <3>3 DEF RowMirror
  <2>4. QED
    BY <2>2, <2>3
<1>4. ASSUME NEW c \in Creates, FindRequester(c)
      PROVE  RowMirror(r)'
  <2>1. /\ UNCHANGED <<mirror, excused, op, state>> /\ pc[c] = "requester"
        /\ \A h \in Handlers : pc'[h] = pc[h]
        /\ pc'[r[1]] = IF r[1] = c THEN "done" ELSE pc[r[1]]
        /\ writes' = writes \cup {<<<<c, Today>>, "Emitido">>}
    BY <1>4, <1>a, <1>b, <1>c DEF FindRequester, handlerVars, rowVars, Setting
  <2>3. \A h \in Handlers : On(h, r)' <=> On(h, r)
    BY <2>1 DEF On
  <2>2. CASE r[1] # c
    <3>1. \A w : w[1] = r => (w \in writes' <=> w \in writes)
      BY <2>1, <2>2
    <3>2. QED
      BY <1>b, <2>1, <2>2, <2>3, <3>1, MirrorFrame
  <2>4. CASE r[1] = c /\ state[r] # NULL /\ MirrorOK(r)
    <3>1. /\ \A h \in Handlers : ~On(h, r)'
          /\ \A w \in writes : w[1] # r
          /\ mirror'[r] = NULL /\ state'[r] = "Emitido" /\ state'[r] # NULL
      BY <2>1, <2>3, <2>4 DEF MirrorOK
    <3>2. pc'[r[1]] # "requester" /\ \A w \in writes' : w[1] = r => w[2] = state'[r]
      BY <2>1, <2>4, <3>1
    <3>3. r[2] # Today \/ \E w \in writes' : w[1] = r
      <4>1. r[2] = Today => <<r, "Emitido">> \in writes'
        BY <1>b, <2>1, <2>4
      <4>2. <<r, "Emitido">>[1] = r
        OBVIOUS
      <4>3. QED
        BY <4>1, <4>2
    <3>4. MirrorOK(r)'
      BY <3>1, <3>2, <3>3 DEF MirrorOK, Shown
    <3>5. QED
      BY <3>4, <3>1 DEF RowMirror
  <2>5. QED
    BY <1>b, <2>1, <2>2, <2>4 DEF RowMirror
\* A step of one request: what another row sees of it.
<1>5. ASSUME NEW h \in Handlers, NEW p, pc' = [pc EXCEPT ![h] = p],
             ~On(h, r), ~On(h, r)', \A g \in Handlers \ {h} : op'[g] = op[g],
             state'[r] = state[r], mirror' = mirror, excused \subseteq excused',
             \A w : w[1] = r => (w \in writes' <=> w \in writes)
      PROVE  RowMirror(r)'
  <2>1. /\ pc'[r[1]] = pc[r[1]]
        /\ \A g \in Handlers \ {h} : pc'[g] = pc[g]
    BY <1>5, <1>b, <1>c
  <2>2. \A g \in Handlers \ {h} : On(g, r)' <=> On(g, r)
    BY <1>5, <2>1 DEF On
  <2>3. \A g \in Handlers : On(g, r)' => /\ On(g, r) /\ op'[g] = op[g]
                                         /\ pc'[g] = pc[g]
    BY <1>5, <2>1, <2>2
  <2>4. \A g \in Handlers : On(g, r) => On(g, r)' /\ pc'[g] = pc[g]
    BY <1>5, <2>1, <2>2
  <2>5. QED
    BY <1>5, <1>b, <2>1, <2>3, <2>4, MirrorFrame
<1>6. ASSUME NEW h \in Handlers, NEW o \in Ops, Begin(h, o)
      PROVE  RowMirror(r)'
  <2>0. PICK p \in {"rejected", "update"} :
          pc' = [pc EXCEPT ![h] = p] /\ p = IF state[o.row] = NULL THEN "rejected" ELSE "update"
    BY <1>6 DEF Begin
  <2>1. /\ UNCHANGED <<state, mirror, writes>> /\ pc[h] = "idle" /\ pc'[h] = p
        /\ op'[h] = o /\ \A g \in Handlers \ {h} : op'[g] = op[g]
        /\ excused \subseteq excused'
        /\ Busy(o.row) => o.row \in excused'
    BY <1>6, <2>0, <1>c DEF Begin, rowVars, TypeInv, TypeOK
  <2>2. ~On(h, r)
    BY <2>1 DEF On
  <2>3. CASE o.row # r \/ state[r] = NULL
    <3>1. ~On(h, r)'
      BY <2>0, <2>1, <2>3 DEF On, Ended
    <3>2. QED
      BY <1>5, <2>0, <2>1, <2>2, <3>1
  <2>4. CASE o.row = r /\ state[r] # NULL /\ (Busy(r) \/ r \in excused)
    BY <2>1, <2>4 DEF RowMirror
  <2>5. CASE o.row = r /\ state[r] # NULL /\ ~Busy(r) /\ MirrorOK(r)
    <3>1. /\ pc[r[1]] # "requester" /\ \A w \in writes : w[1] # r
          /\ \A g \in Handlers : ~On(g, r)
      BY <1>b, <2>5 DEF Busy, InFlight, On, Ended
    <3>2. Shown(r)
      BY <2>5, <3>1 DEF MirrorOK
    <3>3. pc'[r[1]] = pc[r[1]] /\ \A g \in Handlers \ {h} : ~On(g, r)'
      BY <1>b, <1>c, <2>0, <2>1, <3>1 DEF On
    <3>4. p # "alert" /\ Shown(r)' /\ writes' = writes
      BY <2>1, <3>2 DEF Shown
    <3>5. MirrorOK(r)'
      BY <2>1, <3>1, <3>3, <3>4 DEF MirrorOK
    <3>6. QED
      BY <2>1, <2>5, <3>5 DEF RowMirror
  <2>6. QED
    BY <1>b, <2>3, <2>4, <2>5 DEF RowMirror
<1>7. ASSUME NEW h \in Handlers, UpdateRow(h)
      PROVE  RowMirror(r)'
  <2>0. PICK p \in {"icm", "alert"} :
          pc' = [pc EXCEPT ![h] = p] /\ p = IF op[h].kind = "cancelEvent" THEN "icm" ELSE "alert"
    BY <1>7 DEF UpdateRow
  <2>1. /\ UNCHANGED <<op, mirror, writes>> /\ pc[h] = "update" /\ pc'[h] = p
        /\ excused \subseteq excused'
        /\ op[h].kind = "cancelEvent" => op[h].row \in excused'
        /\ state'[r] = IF op[h].row = r THEN Target(op[h]) ELSE state[r]
    BY <1>7, <2>0, <1>c DEF UpdateRow, TypeInv, TypeOK
  <2>2. CASE op[h].row # r
    BY <1>5, <2>0, <2>1, <2>2 DEF On
  <2>3. CASE op[h].row = r
    <3>1. On(h, r) /\ On(h, r)' /\ op[h] \in Ops /\ state[r] # NULL /\ state'[r] # NULL
      BY <1>d, <2>0, <2>1, <2>3, OpTypes DEF On, Ended
    <3>2. CASE op[h].kind = "cancelEvent" \/ r \in excused
      BY <2>1, <2>3, <3>1, <3>2 DEF RowMirror
    <3>3. CASE op[h].kind # "cancelEvent" /\ MirrorOK(r)
      <4>1. /\ pc[r[1]] # "requester" /\ \A w \in writes : w[1] # r
            /\ \A g \in Handlers : On(g, r) => g = h
        BY <2>1, <3>1, <3>3 DEF MirrorOK
      <4>2. /\ pc'[r[1]] = pc[r[1]] /\ \A g \in Handlers : On(g, r)' => g = h
            /\ writes' = writes /\ p = "alert"
        BY <1>b, <1>c, <2>0, <2>1, <3>3, <4>1 DEF On
      <4>3. Target(op[h])' = state'[r]
        BY <2>1, <2>3 DEF Target
      <4>4. MirrorOK(r)'
        BY <2>1, <3>1, <4>1, <4>2, <4>3 DEF MirrorOK
      <4>5. QED
        BY <3>1, <4>4 DEF RowMirror
    <3>4. QED
      BY <1>b, <3>1, <3>2, <3>3 DEF RowMirror
  <2>4. QED
    BY <2>2, <2>3
<1>8. ASSUME NEW h \in Handlers, MirrorRow(h)
      PROVE  RowMirror(r)'
  <2>0. PICK p \in {"icm", "done"} : pc' = [pc EXCEPT ![h] = p]
    BY <1>8 DEF MirrorRow
  <2>1. /\ UNCHANGED <<op, mirror, excused, state>> /\ pc[h] = "alert" /\ pc'[h] = p
        /\ writes' = writes \cup {<<op[h].row, Target(op[h])>>}
    BY <1>8, <1>a, <2>0, <1>c DEF MirrorRow, Setting, rowVars, handlerVars
  <2>2. CASE op[h].row # r
    <3>1. ~On(h, r) /\ ~On(h, r)'
      BY <2>1, <2>2 DEF On
    <3>2. \A w : w[1] = r => (w \in writes' <=> w \in writes)
      BY <2>1, <2>2
    <3>3. QED
      BY <1>5, <2>0, <2>1, <3>1, <3>2
  <2>3. CASE op[h].row = r /\ MirrorOK(r) /\ state[r] # NULL
    <3>1. On(h, r)
      BY <2>1, <2>3 DEF On, Ended
    <3>2. /\ pc[r[1]] # "requester" /\ \A w \in writes : w[1] # r
          /\ \A g \in Handlers : On(g, r) => g = h
          /\ state[r] = Target(op[h])
      BY <2>1, <2>3, <3>1 DEF MirrorOK
    <3>3. /\ pc'[r[1]] = pc[r[1]] /\ \A g \in Handlers : On(g, r)' => g = h
          /\ pc'[h] \notin {"update", "alert"}
      BY <1>b, <1>c, <2>0, <2>1, <3>2 DEF On
    <3>4. /\ \A w \in writes' : w[1] = r => w[2] = state'[r]
          /\ \E w \in writes' : w[1] = r
      <4>1. <<r, Target(op[h])>>[1] = r /\ <<r, Target(op[h])>>[2] = Target(op[h])
        OBVIOUS
      <4>2. QED
        BY <2>1, <2>3, <3>2, <4>1
    <3>5. MirrorOK(r)'
      BY <3>2, <3>3, <3>4 DEF MirrorOK
    <3>6. QED
      BY <2>1, <2>3, <3>5 DEF RowMirror
  <2>4. QED
    BY <1>b, <2>1, <2>2, <2>3 DEF RowMirror
<1>9. ASSUME NEW h \in Handlers,
             FindRecord(h) \/ WithdrawInvitation(h) \/ RecordWithdrawal(h)
      PROVE  RowMirror(r)'
  <2>1. PICK p \in {"withdraw", "log", "done"} : pc' = [pc EXCEPT ![h] = p]
    BY <1>9 DEF FindRecord, WithdrawInvitation, RecordWithdrawal
  <2>2. /\ UNCHANGED <<state, mirrorVars, op>> /\ pc[h] \in {"icm", "withdraw", "log"}
    BY <1>9 DEF FindRecord, WithdrawInvitation, RecordWithdrawal, rowVars, handlerVars
  <2>3. /\ pc'[r[1]] = pc[r[1]]
        /\ \A g \in Handlers : pc'[g] = IF g = h THEN p ELSE pc[g]
    BY <1>b, <1>c, <2>1
  <2>4. QED
    BY <1>1, <2>2, <2>3 DEF Ended
<1>10. ASSUME NEW x \in Creates \cup Handlers, Fail(x)
       PROVE  RowMirror(r)'
  <2>1. /\ UNCHANGED <<state, mirror, writes, op>> /\ pc' = [pc EXCEPT ![x] = "failed"]
        /\ excused' = excused \cup IF x \in Creates THEN RowsOf(x) ELSE {op[x].row}
    BY <1>10 DEF Fail, rowVars, handlerVars
  <2>2. CASE r \in excused'
    BY <1>b, <2>1, <2>2 DEF RowMirror
  <2>3. CASE r \notin excused' /\ x \in Creates
    <3>1. r[1] # x
      BY <1>b, <2>1, <2>3
    <3>2. pc'[r[1]] = pc[r[1]] /\ \A g \in Handlers : pc'[g] = pc[g]
      BY <1>b, <1>c, <2>1, <2>3, <3>1
    <3>3. \A h \in Handlers : On(h, r)' <=> On(h, r)
      BY <2>1, <3>2 DEF On
    <3>4. QED
      BY <1>b, <2>1, <3>2, <3>3, MirrorFrame
  <2>4. CASE r \notin excused' /\ x \in Handlers
    <3>1. op[x].row # r
      BY <1>c, <2>1, <2>4
    <3>2. ~On(x, r) /\ ~On(x, r)'
      BY <2>1, <3>1 DEF On
    <3>3. QED
      BY <1>5, <2>1, <2>4, <3>2
  <2>5. QED
    BY <2>2, <2>3, <2>4
<1>11. ASSUME NEW w \in writes, WriteLands(w) \/ WriteLost(w)
       PROVE  RowMirror(r)'
  <2>1. /\ UNCHANGED <<state, op, pc>> /\ writes' = writes \ {w}
        /\ excused \subseteq excused'
        /\ mirror'[r] = IF WriteLands(w) /\ w[1] = r THEN w[2] ELSE mirror[r]
        /\ w[1] = r => (WriteLands(w) \/ r \in excused')
    BY <1>11, <1>d DEF WriteLands, WriteLost, rowVars, handlerVars, TypeInv, TypeOK
  <2>2. \A h \in Handlers : On(h, r)' <=> On(h, r)
    BY <2>1 DEF On
  <2>3. CASE w[1] # r
    <3>1. \A v : v[1] = r => (v \in writes' <=> v \in writes)
      BY <2>1, <2>3
    <3>2. QED
      BY <1>b, <2>1, <2>2, <2>3, <3>1, MirrorFrame
  <2>4. CASE w[1] = r /\ r \in excused'
    BY <1>d, <2>1, <2>4 DEF RowMirror
  <2>5. CASE w[1] = r /\ WriteLands(w) /\ MirrorOK(r)
    <3>1. /\ mirror'[r] = state'[r] /\ pc'[r[1]] # "requester" /\ state'[r] # NULL
      BY <1>d, <2>1, <2>5 DEF MirrorOK
    <3>2. \A h \in Handlers : On(h, r)' => pc'[h] \notin {"update", "alert"}
      BY <2>1, <2>2, <2>5 DEF MirrorOK
    <3>3. /\ \A g, h \in Handlers : (On(g, r)' /\ On(h, r)') => g = h
          /\ \A v \in writes' : v[1] = r => v[2] = state'[r]
      BY <2>1, <2>2, <2>5 DEF MirrorOK
    <3>4. MirrorOK(r)'
      BY <3>1, <3>2, <3>3 DEF MirrorOK, Shown
    <3>5. QED
      BY <3>1, <3>4 DEF RowMirror
  <2>6. state[r] # NULL \/ w[1] # r
    BY <1>d
  <2>7. QED
    BY <1>b, <2>1, <2>3, <2>4, <2>5, <2>6 DEF RowMirror
<1>12. ASSUME UNCHANGED <<pc, op, state, mirrorVars>>
       PROVE  RowMirror(r)'
  BY <1>1, <1>12
<1>13. QED
  BY <1>2, <1>3, <1>4, <1>6, <1>7, <1>8, <1>9, <1>10, <1>11, <1>12
     DEF Next, CreateStep, JobStep, HandlerStep, FindLot, CreateInvitation,
         RecordInvitation, FlagDelivered, JobFails, vars, rowVars, handlerVars

\* MirrorAgrees holds: the writes nobody waits for leave Firebase with the state
\* of the row, whatever the number of rows and requests, as long as no two
\* requests on one row overlap.
THEOREM MirrorCatchesUp == Spec => []MirrorAgrees
<1>1. Init => MirrorInv
  BY DEF Init, MirrorInv, RowMirror
<1>2. TypeInv /\ MirrorInv => MirrorAgrees
  <2> SUFFICES ASSUME TypeInv, MirrorInv, mirrored, NEW r \in Written \ excused, ~Busy(r)
               PROVE  Shown(r)
    BY DEF MirrorAgrees, Shown
  <2>1. r \in Rows /\ MirrorOK(r) /\ r[1] \in Creates
    BY RowTypes DEF Written, MirrorInv, RowMirror
  <2>2. /\ pc[r[1]] # "requester" /\ \A w \in writes : w[1] # r
        /\ \A g \in Handlers : ~On(g, r)
    BY <2>1 DEF Busy, InFlight, On, Ended
  <2>3. QED
    BY <2>1, <2>2 DEF MirrorOK
<1>3. QED
  BY TypeInit, TypeNext, MirrorNext, <1>1, <1>2, PTL DEF Spec


-----------------------------------------------------------------------------
(* Cancellations that reach ICM *)

\* No other request is about the row of h.
Alone(h) == \A g \in Handlers \ {h} : op[g] # NULL => op[g].row # op[h].row

\* The job records the reference of every row it is past and was given one
\* for, and flags the rows last; a record without a reference is of a row
\* without one or of a withdrawal.
RecordsOK ==
  /\ \A c \in Creates, i \in 1..Days :
       /\ (i < job[c][2] \/ job[c][1] \in {"flag", "ended"}) /\ <<c, i>> \in answered =>
            <<<<c, i>>, "reference">> \in records
       /\ job[c] = <<"unknown", i>> => <<c, i>> \notin answered
  /\ \A r \in isDelivery : job[r[1]][1] = "ended"
  /\ \A t \in records : t[2] = "none" =>
       \/ t[1] \notin answered /\ Sent(t[1])
       \/ \E g \in Handlers : op[g] # NULL /\ op[g].row = t[1] /\ pc[g] = "done"

\* Whether the job was over when a request updated its row decides whether the
\* request takes the row for a delivery.
ReadsFlag(h) ==
  /\ pc[h] \in {"idle", "update"} => h \notin notices /\ h \notin unflagged
  /\ h \in notices => h \notin unflagged
  /\ pc[h] \in {"alert", "icm", "withdraw", "log", "done"} =>
       h \in notices \/ h \in unflagged

\* A request that takes its row for a delivery, alone on the row, finds the
\* reference ICM gave and ends the notice.
NoticeOK(h) ==
  /\ pc[h] \notin {"idle", "update"}
  /\ op[h].row \in isDelivery
  /\ (Alone(h) /\ type = "delivery" /\ op[h].row \in answered) =>
       /\ pc[h] = "withdraw" => h \in referenced
       /\ (pc[h] = "log" \/ (pc[h] = "done" /\ Withdraws(op[h]))) =>
            (h \in unanswered \/ op[h].row \notin invited)

\* A request that does not, and calls ICM when the row is sent for good, ends
\* the invitation of a guest.
GuestOK(h) ==
    (/\ type = "guest"
     /\ pc[h] = "log" \/ (pc[h] = "done" /\ Withdraws(op[h]))
     /\ h \notin unanswered /\ h \notin unsent) =>
           ~YetToSend(op[h].row) /\ op[h].row \notin invited

CancelInv ==
  /\ FlagInv
  /\ SentInv
  /\ RecordsOK
  /\ \A h \in Handlers : ReadsFlag(h)
  /\ \A h \in notices : NoticeOK(h)
  /\ \A h \in unflagged : GuestOK(h)

\* A handler is moved by its own steps.
LEMMA HandlerSteps ==
  ASSUME TypeInv, [Next]_vars, NEW h \in Handlers
  PROVE  \/ \E o \in Ops : Begin(h, o)
         \/ UpdateRow(h) \/ MirrorRow(h) \/ FindRecord(h) \/ WithdrawInvitation(h)
         \/ RecordWithdrawal(h) \/ Fail(h)
         \/ /\ pc'[h] = pc[h] /\ op'[h] = op[h]
            /\ h \in notices' <=> h \in notices
            /\ h \in referenced' <=> h \in referenced
            /\ h \in unanswered' <=> h \in unanswered
            /\ h \in unflagged' <=> h \in unflagged
            /\ h \in unsent' <=> h \in unsent
<1> DEFINE Same == /\ pc'[h] = pc[h] /\ op'[h] = op[h]
                   /\ h \in notices' <=> h \in notices
                   /\ h \in referenced' <=> h \in referenced
                   /\ h \in unanswered' <=> h \in unanswered
                   /\ h \in unflagged' <=> h \in unflagged
                   /\ h \in unsent' <=> h \in unsent
<1> USE DispatchAssumption DEF TypeInv, TypeOK, Goto, handlerVars, icmVars
<1>1. ASSUME NEW c \in Creates, CreateStep(c)
      PROVE  Same
  BY <1>1 DEF CreateStep, RejectEvent, ValidatePermanent, InsertRows, FindRequester
<1>2. ASSUME NEW c \in Creates, JobStep(c) \/ JobFails(c)
      PROVE  Same
  BY <1>2 DEF JobStep, FindLot, CreateInvitation, RecordInvitation, FlagDelivered, JobFails
<1>3. ASSUME NEW g \in Handlers \ {h}, (\E o \in Ops : Begin(g, o)) \/ HandlerStep(g)
      PROVE  Same
  BY <1>3 DEF HandlerStep, Begin, UpdateRow, MirrorRow, FindRecord, WithdrawInvitation,
              RecordWithdrawal
<1>4. ASSUME NEW x \in (Creates \cup Handlers) \ {h}, Fail(x)
      PROVE  Same
  BY <1>4 DEF Fail
<1>5. ASSUME NEW w \in writes, WriteLands(w) \/ WriteLost(w)
      PROVE  Same
  BY <1>5 DEF WriteLands, WriteLost
<1>6. CASE UNCHANGED vars
  BY <1>6 DEF vars
<1>7. QED
  BY <1>1, <1>2, <1>3, <1>4, <1>5, <1>6 DEF Next, HandlerStep

\* What was asked stays asked, and a request that is done stays done.
LEMMA AskedOnce ==
  ASSUME TypeInv, [Next]_vars, NEW h \in Handlers, pc[h] # "idle"
  PROVE  /\ op'[h] = op[h]
         /\ pc[h] = "done" => pc'[h] = "done"
<1> USE DEF TypeInv, TypeOK, handlerVars
<1>1. ASSUME UpdateRow(h) \/ MirrorRow(h) \/ FindRecord(h) \/ WithdrawInvitation(h)
             \/ RecordWithdrawal(h) \/ Fail(h)
      PROVE  op' = op /\ pc[h] # "done"
  BY <1>1 DEF UpdateRow, MirrorRow, FindRecord, WithdrawInvitation, RecordWithdrawal, Fail,
              InFlight, Ended
<1>2. ASSUME NEW o \in Ops, Begin(h, o)
      PROVE  FALSE
  BY <1>2 DEF Begin
<1>3. QED
  BY <1>1, <1>2, HandlerSteps

LEMMA AloneBefore ==
  ASSUME TypeInv, [Next]_vars, NEW h \in Handlers, pc[h] # "idle", Alone(h)'
  PROVE  Alone(h)
<1> SUFFICES ASSUME NEW g \in Handlers \ {h}, op[g] # NULL
             PROVE  op[g].row # op[h].row
  BY DEF Alone
<1>1. pc[g] # "idle"
  BY DEF TypeInv, Actors
<1>2. op'[g] = op[g] /\ op'[h] = op[h]
  BY <1>1, AskedOnce
<1>3. QED
  BY <1>2 DEF Alone

\* Of a job that has ended nothing changes.
LEMMA JobOver ==
  ASSUME TypeInv, [Next]_vars, NEW c \in Creates, job[c][1] = "ended"
  PROVE  job'[c] = job[c]
<1>1. ~InsertRows(c) /\ ~FindRequester(c)
  BY RowTypes DEF InsertRows, FindRequester, TypeInv, Actors
<1>2. QED
  BY <1>1, JobSteps DEF FindLot, CreateInvitation, RecordInvitation, FlagDelivered, JobFails

\* Records are added by the job and by withdrawals, flags by the job.
LEMMA RecordSteps ==
  ASSUME [Next]_vars
  PROVE  /\ type' = type
         /\ \/ UNCHANGED records
            \/ \E c \in Creates : RecordInvitation(c)
            \/ \E h \in Handlers : RecordWithdrawal(h)
         /\ \/ UNCHANGED isDelivery
            \/ \E c \in Creates : FlagDelivered(c)
BY DEF Next, CreateStep, JobStep, HandlerStep, RejectEvent, ValidatePermanent,
       InsertRows, FindRequester, FindLot, CreateInvitation, RecordInvitation,
       FlagDelivered, JobFails, Begin, UpdateRow, MirrorRow, FindRecord,
       WithdrawInvitation, RecordWithdrawal, Fail, WriteLands, WriteLost, vars,
       createVars, rowVars, icmVars

LEMMA RecordsNext ==
  TypeInv /\ SentInv /\ RecordsOK /\ [Next]_vars => RecordsOK'
<1> SUFFICES ASSUME TypeInv, SentInv, RecordsOK, [Next]_vars
             PROVE  RecordsOK'
  OBVIOUS
<1>a. /\ job \in [Creates -> JobPhases \X (1..Days)] /\ Days \in Nat
      /\ \A c \in Creates, i \in 1..Days : <<c, i>> \in Rows /\ <<c, i>>[1] = c /\ <<c, i>>[2] = i
  BY RowTypes, DispatchAssumption DEF TypeInv, TypeOK, JobPhases
<1>b. records \subseteq records'
  BY RecordSteps DEF RecordInvitation, RecordWithdrawal
\* A row the job is past is sent, and nothing more is answered for it.
<1>c. \A c \in Creates, i \in 1..Days :
        (\/ i < job[c][2]
         \/ job[c][1] \in {"flag", "ended"} /\ i <= job[c][2]
         \/ job[c] = <<"unknown", i>>) =>
          (<<c, i>> \in answered' <=> <<c, i>> \in answered)
  <2> SUFFICES ASSUME NEW c \in Creates, NEW i \in 1..Days,
                      \/ i < job[c][2]
                      \/ job[c][1] \in {"flag", "ended"} /\ i <= job[c][2]
                      \/ job[c] = <<"unknown", i>>
               PROVE  <<c, i>> \in answered' <=> <<c, i>> \in answered
    OBVIOUS
  <2>1. job[c][2] \in Nat /\ i \in Nat
    BY <1>a
  <2>2. Sent(<<c, i>>)
    BY <1>a, <2>1 DEF Sent
  <2>3. QED
    BY <1>a, <2>2, AnsweredKept
<1>1. ASSUME NEW c \in Creates, NEW i \in 1..Days
      PROVE  /\ (i < job'[c][2] \/ job'[c][1] \in {"flag", "ended"}) /\ <<c, i>> \in answered' =>
                  <<<<c, i>>, "reference">> \in records'
             /\ job'[c] = <<"unknown", i>> => <<c, i>> \notin answered'
  <2>0. /\ job[c][2] \in 1..Days /\ job[c][2] \in Nat /\ i \in Nat /\ i > 0 /\ i <= Days
        /\ (i < job[c][2] \/ job[c][1] \in {"flag", "ended"}) /\ <<c, i>> \in answered =>
             <<<<c, i>>, "reference">> \in records
        /\ job[c] = <<"unknown", i>> => <<c, i>> \notin answered
        /\ \A p : [job EXCEPT ![c] = p][c] = p
        /\ job[c] = <<job[c][1], job[c][2]>>
    BY <1>a DEF RecordsOK
  <2>1. CASE job'[c] = job[c]
    <3>1. CASE job[c][1] \in {"flag", "ended"}
      <4>1. CASE i <= job[c][2]
        BY <1>b, <1>c, <2>0, <2>1, <3>1, <4>1
      <4>2. CASE i > job[c][2]
        <5>1. <<c, i>> \in answered' => <<c, i>> \in answered
          <6>1. ASSUME NEW d \in Creates, CreateInvitation(d)
                PROVE  <<c, i>> \in answered' => <<c, i>> \in answered
            BY <3>1, <6>1 DEF CreateInvitation
          <6>2. (\E h \in Handlers : WithdrawInvitation(h)) => answered' = answered
            BY DEF WithdrawInvitation
          <6>3. QED
            BY <6>1, <6>2, InvitationSteps
        <5>2. QED
          BY <1>b, <2>0, <2>1, <3>1, <5>1
      <4>3. QED
        BY <2>0, <4>1, <4>2
    <3>2. CASE job[c][1] \notin {"flag", "ended"}
      BY <1>b, <1>c, <2>0, <2>1, <3>2
    <3>3. QED
      BY <3>1, <3>2
  <2>2. CASE InsertRows(c) \/ FindRequester(c)
    <3>1. job'[c] = job[c] \/ job'[c] = <<"lot", 1>>
      BY <2>2, <2>0 DEF InsertRows, FindRequester
    <3>2. CASE job'[c] = <<"lot", 1>>
      BY <2>0, <3>2
    <3>3. QED
      BY <2>1, <3>1, <3>2
  <2>3. CASE FindLot(c)
    <3>1. job'[c][1] \in {"call", "unsent"} /\ job'[c][2] = 1
      BY <2>3, <2>0 DEF FindLot
    <3>2. QED
      BY <2>0, <3>1
  <2>4. CASE CreateInvitation(c)
    <3>1. /\ job'[c][1] \in {"record", "unknown", "failed"} /\ job'[c][2] = job[c][2]
          /\ job[c][1] = "call"
          /\ job'[c][1] = "unknown" => answered' = answered
      BY <2>4, <2>0 DEF CreateInvitation
    <3>2. i < job[c][2] => (<<c, i>> \in answered' <=> <<c, i>> \in answered)
      BY <1>c
    <3>3. i = job[c][2] => <<c, i>> \notin answered
      <4> SUFFICES ASSUME i = job[c][2], <<c, i>> \in answered
                   PROVE  FALSE
        OBVIOUS
      <4>1. Sent(<<c, i>>)
        BY <1>a DEF SentInv
      <4>2. QED
        BY <1>a, <2>0, <3>1, <4>1 DEF Sent
    <3>4. QED
      BY <1>b, <2>0, <3>1, <3>2, <3>3
  <2>5. CASE JobFails(c)
    <3>1. job'[c] = <<"failed", job[c][2]>> /\ answered' = answered
      BY <2>5, <2>0 DEF JobFails
    <3>2. QED
      BY <3>1, <2>0, <1>b
  <2>6. CASE RecordInvitation(c)
    <3>1. /\ records' = records \cup {<<<<c, job[c][2]>>, Answer(c)>>}
          /\ job'[c] = IF job[c][2] < Days THEN <<"call", job[c][2] + 1>> ELSE <<"flag", Days>>
          /\ answered' = answered
          /\ job[c][1] \in {"record", "unknown"}
      BY <2>6, <2>0 DEF RecordInvitation
    <3>2. i = job[c][2] /\ <<c, i>> \in answered => <<<<c, i>>, "reference">> \in records'
      BY <2>0, <3>1 DEF Answer
    <3>3. i <= job[c][2] /\ <<c, i>> \in answered => <<<<c, i>>, "reference">> \in records'
      BY <1>b, <2>0, <3>2
    <3>4. CASE job[c][2] < Days
      BY <2>0, <3>1, <3>3, <3>4
    <3>5. CASE job[c][2] = Days
      BY <2>0, <3>1, <3>3, <3>5
    <3>6. QED
      BY <1>a, <2>0, <3>4, <3>5
  <2>7. CASE FlagDelivered(c)
    <3>1. job'[c] = <<"ended", Days>> /\ job[c][1] = "flag" /\ answered' = answered
      BY <2>7, <2>0 DEF FlagDelivered
    <3>2. QED
      BY <3>1, <2>0, <1>b
  <2>8. QED
    BY <2>1, <2>2, <2>3, <2>4, <2>5, <2>6, <2>7, JobSteps
<1>2. ASSUME NEW r \in isDelivery'
      PROVE  job'[r[1]][1] = "ended"
  <2>1. CASE r \in isDelivery
    <3>1. r[1] \in Creates /\ job[r[1]][1] = "ended"
      BY <2>1, RowTypes DEF RecordsOK, TypeInv, TypeOK, Written
    <3>2. QED
      BY <3>1, JobOver
  <2>2. ASSUME NEW c \in Creates, FlagDelivered(c), r \in RowsOf(c)
        PROVE  job'[r[1]][1] = "ended"
    BY <2>2, <1>a DEF FlagDelivered, RowsOf
  <2>3. QED
    BY <1>2, <2>1, <2>2, RecordSteps DEF FlagDelivered
<1>3. ASSUME NEW t \in records', t[2] = "none"
      PROVE  \/ t[1] \notin answered' /\ Sent(t[1])'
             \/ \E g \in Handlers : op'[g] # NULL /\ op'[g].row = t[1] /\ pc'[g] = "done"
  <2>1. CASE t \in records
    <3>0. t[1] \in Rows
      BY <2>1 DEF TypeInv, TypeOK, Written
    <3>1. CASE t[1] \notin answered /\ Sent(t[1])
      BY <3>0, <3>1, AnsweredKept, SentKept
    <3>2. CASE \E g \in Handlers : op[g] # NULL /\ op[g].row = t[1] /\ pc[g] = "done"
      <4>1. PICK g \in Handlers : op[g] # NULL /\ op[g].row = t[1] /\ pc[g] = "done"
        BY <3>2
      <4>2. QED
        BY <4>1, AskedOnce
    <3>3. QED
      BY <1>3, <2>1, <3>1, <3>2 DEF RecordsOK
  <2>2. ASSUME NEW c \in Creates, RecordInvitation(c), t \notin records
        PROVE  t[1] \notin answered' /\ Sent(t[1])'
    <3>1. /\ t = <<<<c, job[c][2]>>, Answer(c)>> /\ answered' = answered
          /\ job[c][1] \in {"record", "unknown"} /\ job[c][2] \in 1..Days
      BY <1>a, <1>3, <2>2 DEF RecordInvitation
    <3>2. job[c] = <<"unknown", job[c][2]>>
      BY <1>3, <1>a, <3>1 DEF Answer
    <3>3. t[1] = <<c, job[c][2]>> /\ t[1] \notin answered
      BY <3>1, <3>2 DEF RecordsOK
    <3>4. Sent(t[1])
      BY <1>a, <3>1, <3>3 DEF Sent
    <3>5. QED
      BY <1>a, <3>1, <3>3, <3>4, SentKept
  <2>3. ASSUME NEW h \in Handlers, RecordWithdrawal(h), t \notin records
        PROVE  \E g \in Handlers : op'[g] # NULL /\ op'[g].row = t[1] /\ pc'[g] = "done"
    <3>1. /\ t = <<op[h].row, "none">> /\ op' = op /\ pc[h] = "log" /\ pc'[h] = "done"
      BY <2>3, <1>3 DEF RecordWithdrawal, Goto, handlerVars, TypeInv, TypeOK
    <3>2. op[h] # NULL
      BY <3>1, OpTypes DEF TypeInv, Actors
    <3>3. QED
      BY <3>1, <3>2
  <2>4. QED
    BY <1>3, <2>1, <2>2, <2>3, RecordSteps
<1>4. QED
  BY <1>1, <1>2, <1>3 DEF RecordsOK

LEMMA ReadsFlagNext ==
  ASSUME TypeInv, FlagInv, RecordsOK, [Next]_vars, NEW h \in Handlers, ReadsFlag(h)
  PROVE  ReadsFlag(h)'
<1> USE DEF Goto, handlerVars
<1>a. \A p : [pc EXCEPT ![h] = p][h] = p
  BY DEF TypeInv, TypeOK
<1>1. ASSUME NEW o \in Ops, Begin(h, o)
      PROVE  ReadsFlag(h)'
  BY <1>1, <1>a DEF Begin, ReadsFlag
<1>2. ASSUME UpdateRow(h)
      PROVE  ReadsFlag(h)'
  <2>1. pc[h] = "update" /\ op[h].row \in Rows
    BY <1>2, OpTypes DEF UpdateRow, TypeInv, Actors
  <2>2. PICK c \in Creates, i \in 1..Days : op[h].row = <<c, i>>
    BY <2>1 DEF Rows
  <2>3. job[c][1] = "ended" <=> op[h].row \in isDelivery
    BY <2>1, <2>2 DEF FlagInv, RowsOf, RecordsOK
  <2>4. /\ h \in notices' <=> h \in notices \/ op[h].row \in isDelivery
        /\ h \in unflagged' <=> h \in unflagged \/ job[c][1] # "ended"
    BY <1>2, <2>2 DEF UpdateRow
  <2>5. h \notin notices /\ h \notin unflagged
    BY <2>1 DEF ReadsFlag
  <2>6. pc'[h] \in {"icm", "alert"}
    BY <1>2, <1>a DEF UpdateRow
  <2>7. QED
    BY <2>3, <2>4, <2>5, <2>6 DEF ReadsFlag
<1>3. ASSUME \/ MirrorRow(h) \/ FindRecord(h) \/ WithdrawInvitation(h)
             \/ RecordWithdrawal(h) \/ Fail(h)
      PROVE  ReadsFlag(h)'
  <2>1. UNCHANGED <<notices, unflagged>>
    BY <1>3 DEF MirrorRow, FindRecord, WithdrawInvitation, RecordWithdrawal, Fail
  <2>2. /\ pc[h] \in {"alert", "icm", "withdraw", "log"} \/ pc'[h] = "failed"
        /\ pc'[h] \in {"icm", "withdraw", "log", "done", "failed"}
    BY <1>3, <1>a DEF MirrorRow, FindRecord, WithdrawInvitation, RecordWithdrawal, Fail
  <2>3. QED
    BY <2>1, <2>2 DEF ReadsFlag
<1>4. QED
  BY <1>1, <1>2, <1>3, HandlerSteps DEF ReadsFlag

LEMMA NoticeNext ==
  ASSUME TypeInv, SentInv, RecordsOK, \A g \in notices : NoticeOK(g), [Next]_vars,
         NEW h \in notices'
  PROVE  NoticeOK(h)'
<1>a. h \in Handlers
  BY TypeNext DEF TypeInv, TypeOK
<1>b. /\ isDelivery \subseteq isDelivery'
      /\ type' = type
      /\ \A p : [pc EXCEPT ![h] = p][h] = p
  BY <1>a, RecordSteps DEF FlagDelivered, TypeInv, TypeOK
<1>c. h \in notices => pc[h] \notin {"idle", "update"} /\ op'[h] = op[h]
  BY <1>a, AskedOnce DEF NoticeOK
<1>d. (h \in notices /\ Alone(h)') => Alone(h)
  BY <1>a, <1>c, AloneBefore
<1> USE DEF Goto
\* A flagged row is sent: nothing is answered and nothing made for it any more.
<1>e. \A r \in isDelivery : /\ r \in answered' <=> r \in answered
                            /\ r \in invited' => r \in invited
  <2> SUFFICES ASSUME NEW r \in isDelivery
               PROVE  /\ r \in answered' <=> r \in answered
                      /\ r \in invited' => r \in invited
    OBVIOUS
  <2>1. job[r[1]][1] = "ended"
    BY DEF RecordsOK
  <2>2. ASSUME NEW c \in Creates, CreateInvitation(c)
        PROVE  /\ r \in answered' <=> r \in answered
               /\ r \in invited' => r \in invited
    <3>1. r # <<c, job[c][2]>>
      BY <2>1, <2>2 DEF CreateInvitation
    <3>2. QED
      BY <2>2, <3>1 DEF CreateInvitation
  <2>3. (\E g \in Handlers : WithdrawInvitation(g)) =>
          invited' \subseteq invited /\ answered' = answered
    BY DEF WithdrawInvitation
  <2>4. QED
    BY <2>2, <2>3, InvitationSteps
<1>1. ASSUME NEW o \in Ops, Begin(h, o)
      PROVE  FALSE
  BY <1>1, <1>c DEF Begin, TypeInv, TypeOK
<1>2. ASSUME UpdateRow(h)
      PROVE  NoticeOK(h)'
  <2>1. /\ pc[h] = "update" /\ pc'[h] \in {"icm", "alert"} /\ op' = op
        /\ op[h].row \in isDelivery
    BY <1>2, <1>b, <1>c DEF UpdateRow
  <2>2. QED
    BY <2>1, <1>b DEF NoticeOK
<1>3. ASSUME MirrorRow(h)
      PROVE  NoticeOK(h)'
  <2>1. /\ pc'[h] = IF Withdraws(op[h]) THEN "icm" ELSE "done"
        /\ op' = op /\ notices' = notices
    BY <1>3, <1>b DEF MirrorRow, handlerVars
  <2>2. op[h].row \in isDelivery' /\ Withdraws(op[h])' = Withdraws(op[h])
    BY <1>b, <2>1 DEF NoticeOK, Withdraws, Target
  <2>3. QED
    BY <2>1, <2>2 DEF NoticeOK
<1>4. ASSUME FindRecord(h)
      PROVE  NoticeOK(h)'
  <2>1. /\ pc[h] = "icm" /\ op' = op /\ notices' = notices /\ op[h].row \in isDelivery'
        /\ answered' = answered
    BY <1>4, <1>b DEF FindRecord, NoticeOK, icmVars
  <2>2. CASE ~Alone(h) \/ op[h].row \notin answered
    <3>1. pc'[h] \in {"withdraw", "done"}
      BY <1>4, <1>b DEF FindRecord
    <3>2. QED
      BY <1>d, <2>1, <2>2, <3>1 DEF NoticeOK
  <2>3. CASE Alone(h) /\ op[h].row \in answered
    <3>1. <<op[h].row, "reference">> \in records
      <4>1. op[h].row \in isDelivery
        BY <2>1 DEF NoticeOK
      <4>0. op[h].row \in Rows
        BY <4>1 DEF TypeInv, TypeOK, Written
      <4>2. PICK c \in Creates, i \in 1..Days : op[h].row = <<c, i>>
        BY <4>0 DEF Rows
      <4>3. job[c][1] = "ended"
        BY <4>1, <4>2 DEF RecordsOK
      <4>4. QED
        BY <2>3, <4>2, <4>3 DEF RecordsOK
    <3>2. \A t \in records : t[1] = op[h].row => t[2] = "reference"
      <4> SUFFICES ASSUME NEW t \in records, t[1] = op[h].row, t[2] = "none"
                   PROVE  FALSE
        BY DEF TypeInv, TypeOK
      <4>1. PICK g \in Handlers : op[g] # NULL /\ op[g].row = t[1] /\ pc[g] = "done"
        BY <2>3 DEF RecordsOK
      <4>2. QED
        BY <2>1, <2>3, <4>1 DEF Alone
    <3>3. <<op[h].row, "reference">>[1] = op[h].row
      OBVIOUS
    <3>4. pc'[h] = "withdraw" /\ h \in referenced'
      BY <1>4, <1>b, <2>1, <3>1, <3>2, <3>3 DEF FindRecord
    <3>5. QED
      BY <2>1, <3>4 DEF NoticeOK
  <2>4. QED
    BY <2>2, <2>3
<1>5. ASSUME WithdrawInvitation(h)
      PROVE  NoticeOK(h)'
  <2>1. /\ pc[h] = "withdraw" /\ pc'[h] = "log" /\ op' = op /\ notices' = notices
        /\ answered' = answered
        /\ Reaches(h) => (op[h].row \notin invited' \/ h \in unanswered')
    BY <1>5, <1>b DEF WithdrawInvitation
  <2>2. (Alone(h) /\ type = "delivery" /\ op[h].row \in answered) => Reaches(h)
    BY <2>1 DEF NoticeOK, Reaches
  <2>3. QED
    BY <1>b, <1>d, <2>1, <2>2 DEF NoticeOK
<1>6. ASSUME RecordWithdrawal(h)
      PROVE  NoticeOK(h)'
  <2>1. /\ pc[h] = "log" /\ pc'[h] = "done"
        /\ UNCHANGED <<op, notices, invited, unanswered, answered>>
    BY <1>6, <1>b DEF RecordWithdrawal, handlerVars
  <2>2. QED
    BY <1>b, <1>d, <2>1 DEF NoticeOK
<1>7. ASSUME Fail(h)
      PROVE  NoticeOK(h)'
  <2>1. pc'[h] = "failed" /\ op' = op /\ notices' = notices
    BY <1>7, <1>b DEF Fail, handlerVars
  <2>2. QED
    BY <1>b, <2>1 DEF NoticeOK
<1>8. ASSUME pc'[h] = pc[h], op'[h] = op[h], h \in notices, h \in referenced' <=> h \in referenced,
             h \in unanswered' <=> h \in unanswered
      PROVE  NoticeOK(h)'
  <2>1. op[h].row \in isDelivery /\ Withdraws(op[h])' = Withdraws(op[h])
    BY <1>8 DEF NoticeOK, Withdraws, Target
  <2>2. /\ op[h].row \in invited' => op[h].row \in invited
        /\ op[h].row \in answered' <=> op[h].row \in answered
    BY <1>e, <2>1
  <2>3. QED
    BY <1>8, <1>b, <1>d, <2>1, <2>2 DEF NoticeOK
<1>9. QED
  BY <1>a, <1>1, <1>2, <1>3, <1>4, <1>5, <1>6, <1>7, <1>8, HandlerSteps

\* A row that will not be sent any more stays so, and is not invited later.
LEMMA SentForGood ==
  ASSUME TypeInv, SentInv, [Next]_vars, NEW r \in Rows, ~YetToSend(r)
  PROVE  /\ ~YetToSend(r)'
         /\ r \in invited' => r \in invited
<1>1. PICK c \in Creates, i \in 1..Days : r = <<c, i>>
  BY DEF Rows
<1>2. /\ c = r[1] /\ i = r[2] /\ i \in Nat /\ i >= 1
      /\ job[c] \in JobPhases \X (1..Days) /\ job[c][2] \in Nat
      /\ \A p : [job EXCEPT ![c] = p][c] = p
      /\ Days \in Nat /\ i <= Days
  BY <1>1, DispatchAssumption DEF TypeInv, TypeOK, JobPhases
<1>3. job[c][1] \in {"off", "lot", "call"} => job[c][2] > i
  BY <1>2 DEF YetToSend
<1>4. job[c][1] \in {"record", "unknown"} => job[c][2] >= i
  BY <1>2 DEF YetToSend
<1>8. job[c][1] \notin {"off", "lot"}
  BY <1>2, <1>3 DEF SentInv
<1>5. ~YetToSend(r)'
  <2>1. CASE job'[c] = job[c]
    BY <1>2, <2>1 DEF YetToSend
  <2>2. CASE InsertRows(c) \/ FindRequester(c)
    BY <2>2, <1>8, RowTypes DEF InsertRows, FindRequester, TypeInv, Actors
  <2>3. CASE FindLot(c)
    BY <2>3, <1>8 DEF FindLot
  <2>4. CASE CreateInvitation(c)
    <3>1. /\ job'[c][1] \in {"record", "unknown", "failed"} /\ job'[c][2] = job[c][2]
          /\ job[c][1] = "call"
      BY <2>4, <1>2 DEF CreateInvitation
    <3>2. QED
      BY <1>2, <1>3, <3>1 DEF YetToSend
  <2>5. CASE RecordInvitation(c)
    <3>1. /\ job'[c] = IF job[c][2] < Days THEN <<"call", job[c][2] + 1>> ELSE <<"flag", Days>>
          /\ job[c][1] \in {"record", "unknown"}
      BY <2>5, <1>2 DEF RecordInvitation
    <3>2. QED
      BY <1>2, <1>4, <3>1 DEF YetToSend
  <2>6. CASE FlagDelivered(c) \/ JobFails(c)
    <3>1. job'[c][1] \in {"ended", "failed"}
      BY <2>6, <1>2 DEF FlagDelivered, JobFails
    <3>2. QED
      BY <1>2, <3>1 DEF YetToSend
  <2>7. QED
    BY <2>1, <2>2, <2>3, <2>4, <2>5, <2>6, JobSteps
<1>6. r \in invited' => r \in invited
  <2>1. ASSUME NEW d \in Creates, CreateInvitation(d)
        PROVE  r \in invited' => r \in invited
    <3>1. r # <<d, job[d][2]>>
      <4> SUFFICES ASSUME r = <<d, job[d][2]>>
                   PROVE  FALSE
        OBVIOUS
      <4>1. d = c /\ job[c][2] = i
        BY <1>1, <1>2
      <4>2. QED
        BY <1>2, <1>3, <2>1, <4>1 DEF CreateInvitation
    <3>2. QED
      BY <2>1, <3>1 DEF CreateInvitation
  <2>2. (\E h \in Handlers : WithdrawInvitation(h)) => invited' \subseteq invited
    BY DEF WithdrawInvitation
  <2>3. QED
    BY <2>1, <2>2, InvitationSteps
<1>7. QED
  BY <1>5, <1>6

LEMMA GuestNext ==
  ASSUME TypeInv, SentInv, [Next]_vars, \A g \in Handlers : ReadsFlag(g),
         \A g \in unflagged : GuestOK(g), NEW h \in unflagged'
  PROVE  GuestOK(h)'
<1>a. h \in Handlers
  BY TypeNext DEF TypeInv, TypeOK
<1>b. /\ type' = type
      /\ \A p : [pc EXCEPT ![h] = p][h] = p
      /\ pc[h] \notin {"idle", "rejected"} => op[h].row \in Rows
      /\ \A r \in Rows : (~YetToSend(r) => ~YetToSend(r)' /\ (r \in invited' => r \in invited))
  BY <1>a, RecordSteps, SentForGood, OpTypes DEF TypeInv, TypeOK, Actors
<1> USE DEF Goto, handlerVars
<1>1. ASSUME NEW o \in Ops, Begin(h, o)
      PROVE  GuestOK(h)'
  BY <1>1, <1>a, <1>b DEF Begin, ReadsFlag
<1>2. ASSUME UpdateRow(h)
      PROVE  GuestOK(h)'
  BY <1>2, <1>b DEF UpdateRow, GuestOK
<1>3. ASSUME MirrorRow(h)
      PROVE  GuestOK(h)'
  <2>1. /\ pc'[h] = IF Withdraws(op[h]) THEN "icm" ELSE "done"
        /\ op' = op
    BY <1>3, <1>b DEF MirrorRow
  <2>2. Withdraws(op[h])' = Withdraws(op[h])
    BY <2>1 DEF Withdraws, Target
  <2>3. QED
    BY <2>1, <2>2 DEF GuestOK
<1>4. ASSUME FindRecord(h)
      PROVE  GuestOK(h)'
  <2>1. h \notin notices
    BY <1>4, <1>a DEF FindRecord, ReadsFlag
  <2>2. pc'[h] = "withdraw"
    BY <1>4, <1>b, <2>1 DEF FindRecord
  <2>3. QED
    BY <2>2 DEF GuestOK
<1>5. ASSUME WithdrawInvitation(h)
      PROVE  GuestOK(h)'
  <2>1. /\ pc'[h] = "log" /\ pc[h] = "withdraw" /\ op' = op /\ job' = job
        /\ h \notin unsent' => ~YetToSend(op[h].row)
        /\ type = "guest" /\ h \notin notices /\ h \notin unanswered' =>
             op[h].row \notin invited'
        /\ h \in unflagged
    BY <1>5, <1>b DEF WithdrawInvitation, Reaches
  <2>2. h \notin notices
    BY <1>a, <2>1 DEF ReadsFlag
  <2>3. YetToSend(op[h].row)' <=> YetToSend(op[h].row)
    BY <2>1 DEF YetToSend
  <2>4. QED
    BY <1>b, <2>1, <2>2, <2>3 DEF GuestOK
<1>6. ASSUME RecordWithdrawal(h)
      PROVE  GuestOK(h)'
  <2>1. /\ pc[h] = "log" /\ pc'[h] = "done"
        /\ UNCHANGED <<op, invited, unanswered, unflagged, unsent, job>>
    BY <1>6, <1>b DEF RecordWithdrawal
  <2>2. YetToSend(op[h].row)' <=> YetToSend(op[h].row)
    BY <2>1 DEF YetToSend
  <2>3. QED
    BY <1>b, <2>1, <2>2 DEF GuestOK
<1>7. ASSUME Fail(h)
      PROVE  GuestOK(h)'
  BY <1>7, <1>b DEF Fail, GuestOK
<1>8. ASSUME pc'[h] = pc[h], op'[h] = op[h], h \in unflagged,
             h \in unanswered' <=> h \in unanswered, h \in unsent' <=> h \in unsent
      PROVE  GuestOK(h)'
  <2>1. Withdraws(op[h])' <=> Withdraws(op[h])
    BY <1>8 DEF Withdraws, Target
  <2>2. QED
    BY <1>8, <1>b, <2>1 DEF GuestOK, YetToSend
<1>9. QED
  BY <1>a, <1>1, <1>2, <1>3, <1>4, <1>5, <1>6, <1>7, <1>8, HandlerSteps

LEMMA CancelNext == TypeInv /\ CancelInv /\ [Next]_vars => CancelInv'
<1> SUFFICES ASSUME TypeInv, CancelInv, [Next]_vars
             PROVE  CancelInv'
  OBVIOUS
<1> USE DEF CancelInv
<1>1. FlagInv' /\ SentInv' /\ RecordsOK'
  BY FlagNext, SentNext, RecordsNext
<1>2. \A h \in Handlers : ReadsFlag(h)'
  BY ReadsFlagNext
<1>3. \A h \in notices' : NoticeOK(h)'
  BY NoticeNext
<1>4. \A h \in unflagged' : GuestOK(h)'
  BY GuestNext
<1>5. QED
  BY <1>1, <1>2, <1>3, <1>4

LEMMA CancelInit == Init => CancelInv
<1> SUFFICES ASSUME Init PROVE CancelInv
  OBVIOUS
<1>1. /\ invited = {} /\ answered = {} /\ isDelivery = {} /\ records = {}
      /\ notices = {} /\ unflagged = {}
      /\ \A r \in Rows : withdrawn[r] = {}
      /\ \A c \in Creates : job[c] = <<"off", 1>>
      /\ \A h \in Handlers : pc[h] = "idle"
  BY DEF Init
<1>2. FlagInv /\ SentInv
  BY <1>1 DEF FlagInv, SentInv
<1>3. RecordsOK
  BY <1>1 DEF RecordsOK
<1>4. \A h \in Handlers : ReadsFlag(h)
  BY <1>1 DEF ReadsFlag
<1>5. QED
  BY <1>1, <1>2, <1>3, <1>4 DEF CancelInv

\* DeliveryCancelWithdraws holds: the only cancellation of a delivery, if it
\* read the row after the job, finds the reference ICM gave and ends the notice.
THEOREM DeliveriesAreWithdrawn == Spec => []DeliveryCancelWithdraws
<1>1. TypeInv /\ CancelInv => DeliveryCancelWithdraws
  <2> SUFFICES ASSUME TypeInv, CancelInv, NEW h \in Handlers, type = "delivery",
                      pc[h] = "done", Withdraws(op[h]), h \notin unanswered,
                      h \notin unflagged, op[h].row \in answered, Alone(h)
               PROVE  op[h].row \notin invited
    BY DEF DeliveryCancelWithdraws, Alone
  <2>1. h \in notices
    BY DEF CancelInv, ReadsFlag
  <2>2. QED
    BY <2>1 DEF CancelInv, NoticeOK
<1>2. QED
  BY TypeInit, TypeNext, CancelInit, CancelNext, <1>1, PTL DEF Spec

\* GuestCancelWithdraws holds: a guest's cancellation that read the row before
\* the job was over, and called ICM after the row was sent, ends the invitation.
THEOREM GuestsAreWithdrawn == Spec => []GuestCancelWithdraws
<1>1. TypeInv /\ CancelInv => GuestCancelWithdraws
  BY DEF CancelInv, GuestOK, GuestCancelWithdraws
<1>2. QED
  BY TypeInit, TypeNext, CancelInit, CancelNext, <1>1, PTL DEF Spec
=============================================================================
