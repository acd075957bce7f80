---------------------------- MODULE ContractProofs ----------------------------
(***************************************************************************)
(* The scheduler implements the contract with its exporters, for every     *)
(* number of tenants, exporters and workers: the refinement that           *)
(* SchedulerProperties states as ImplementsContract.  The receiver adds     *)
(* nothing a scheduler would not do, so it keeps the contract too.          *)
(***************************************************************************)
EXTENDS SchedulerProofs, Receiver

States  == {"idle", "offered", "accepted", "ingesting", "refused", "stored", "failed"}
Mapped  == [x \in Exports |-> StateOf(x)]
Told    == [x \in Exports |-> AnswerOf(result[x])]

(* What StateOf says in each situation of an export. *)
StateFacts(e) ==
  /\ req[e] = "idle" => StateOf(e) = "idle"
  /\ req[e] \in {"register", "enqueue"} => StateOf(e) = "offered"
  /\ req[e] \in {"kick", "waiting", "returned"} =>
       /\ result[e] = "parse_queue_full" \/ reply[e] = "parse_queue_full"
            => StateOf(e) = "refused"
       /\ result[e] # "parse_queue_full" /\ reply[e] # "parse_queue_full" =>
            /\ verdict[e] = "ok" => StateOf(e) = "stored"
            /\ verdict[e] \in SinkErrors => StateOf(e) = "failed"
            /\ verdict[e] = "none" /\ calls[e] > 0 => StateOf(e) = "ingesting"
            /\ verdict[e] = "none" /\ calls[e] = 0 => StateOf(e) = "accepted"

LEMMA StateOfIs == TypeInv /\ Delivery => \A e \in Exports : StateFacts(e)
<1> SUFFICES ASSUME TypeInv, Delivery, NEW e \in Exports PROVE StateFacts(e)
  OBVIOUS
<1> USE DEF StateFacts
<1>1. req[e] \in {"idle", "register", "enqueue"} =>
        /\ result[e] = "none" /\ reply[e] = "none" /\ verdict[e] = "none" /\ calls[e] = 0
  BY DEF Delivery, Fresh
<1>2. result[e] = "parse_queue_full" \/ reply[e] = "parse_queue_full"
        => calls[e] = 0 /\ verdict[e] = "none"
  BY DEF Delivery, TruthfulAnswers, Truthful
<1>3. "ok" \notin SinkErrors /\ "none" \notin SinkErrors
  BY SinkErrorsType
<1>4. CASE req[e] = "idle"
  BY <1>1, <1>3, <1>4 DEF StateOf
<1>5. CASE req[e] \in {"register", "enqueue"}
  BY <1>1, <1>3, <1>5 DEF StateOf
<1>6. CASE req[e] \in {"kick", "waiting", "returned"}
  <2>1. CASE result[e] = "parse_queue_full" \/ reply[e] = "parse_queue_full"
    BY <1>2, <1>3, <1>6, <2>1 DEF StateOf
  <2>2. CASE result[e] # "parse_queue_full" /\ reply[e] # "parse_queue_full"
    <3>1. verdict[e] = "ok" => StateOf(e) = "stored"
      BY <1>3, <1>6, <2>2 DEF StateOf
    <3>2. verdict[e] \in SinkErrors => StateOf(e) = "failed"
      BY <1>3, <1>6, <2>2 DEF StateOf
    <3>3. verdict[e] = "none" /\ calls[e] > 0 => StateOf(e) = "ingesting"
      BY <1>3, <1>6, <2>2 DEF StateOf
    <3>4. verdict[e] = "none" /\ calls[e] = 0 => StateOf(e) = "accepted"
      BY <1>3, <1>6, <2>2 DEF StateOf
    <3> QED BY <1>6, <2>2, <3>1, <3>2, <3>3, <3>4
  <2> QED BY <2>1, <2>2
<1> QED BY <1>4, <1>5, <1>6 DEF TypeInv, TypeOK

LEMMA NextStateOfIs ==
  TypeInv /\ Delivery /\ [Next]_vars => \A e \in Exports : StateFacts(e)'
<1>1. (TypeInv /\ Delivery => \A e \in Exports : StateFacts(e))'
  BY StateOfIs, PTL
<1> QED BY <1>1, NextTypeInv, NextDelivery

(* The contract's answer. *)
LEMMA AnswerOfIs ==
  /\ AnswerOf("ok") = "stored"
  /\ \A r \in SinkErrors : AnswerOf(r) = "failed"
  /\ AnswerOf("parse_queue_full") = "refused"
  /\ AnswerOf("none") = "none"
  /\ AnswerOf("context_done") = "context_done"
  BY SinkErrorsType DEF AnswerOf

(* An export to which nothing happens. *)
LEMMA StateOfSame ==
  ASSUME NEW e, req'[e] = req[e], result'[e] = result[e], reply'[e] = reply[e],
         verdict'[e] = verdict[e], calls'[e] = calls[e]
  PROVE  StateOf(e)' = StateOf(e)
  BY DEF StateOf

(* A step of one export in the contract's terms. *)
LEMMA OneStateChanges ==
  ASSUME NEW e \in Exports, NEW s, StateOf(e)' = s,
         \A x \in Exports : x # e => StateOf(x)' = StateOf(x)
  PROVE  Mapped' = [Mapped EXCEPT ![e] = s]
  BY DEF Mapped

LEMMA OneAnswerChanges ==
  ASSUME NEW e \in Exports, NEW a, AnswerOf(result'[e]) = a,
         \A x \in Exports : x # e => result'[x] = result[x]
  PROVE  Told' = [Told EXCEPT ![e] = a]
  BY DEF Told

LEMMA NoStateChanges ==
  ASSUME \A x \in Exports : StateOf(x)' = StateOf(x)
  PROVE  Mapped' = Mapped
  BY DEF Mapped

LEMMA NoAnswerChanges ==
  ASSUME \A x \in Exports : result'[x] = result[x]
  PROVE  Told' = Told
  BY DEF Told

(* The contract's actions, over the mapped variables. *)
LEMMA ContractStep ==
  ASSUME NEW e \in Exports,
         \/ /\ \/ Mapped[e] = "idle"
               \/ e \in Repeating /\ Mapped[e] \in {"refused", "stored", "failed"} /\ Told[e] # "none"
            /\ Mapped' = [Mapped EXCEPT ![e] = "offered"]
            /\ Told' = [Told EXCEPT ![e] = "none"]
         \/ /\ Mapped[e] = "offered"
            /\ Mapped' = [Mapped EXCEPT ![e] = "accepted"] /\ Told' = Told
         \/ /\ Mapped[e] = "offered"
            /\ Mapped' = [Mapped EXCEPT ![e] = "refused"]
            /\ Told' = [Told EXCEPT ![e] = "refused"]
         \/ /\ Mapped[e] = "accepted"
            /\ Mapped' = [Mapped EXCEPT ![e] = "refused"] /\ Told' = Told
         \/ /\ Mapped[e] = "accepted"
            /\ Mapped' = [Mapped EXCEPT ![e] = "ingesting"] /\ Told' = Told
         \/ /\ Mapped[e] = "ingesting"
            /\ \E o \in {"stored", "failed"} : Mapped' = [Mapped EXCEPT ![e] = o]
            /\ Told' = Told
         \/ /\ Mapped[e] \in {"refused", "stored", "failed"} /\ Told[e] = "none"
            /\ Told' = [Told EXCEPT ![e] = Mapped[e]] /\ Mapped' = Mapped
         \/ /\ Mapped[e] \notin {"idle", "offered"} /\ Told[e] = "none"
            /\ Told' = [Told EXCEPT ![e] = "context_done"] /\ Mapped' = Mapped
  PROVE  Contract!Next
  BY DEF Contract!Next, Contract!Offer, Contract!Accept, Contract!Refuse, Contract!Withdraw,
         Contract!Ingest, Contract!Finish, Contract!Answer, Contract!GiveUp, Contract!Outcomes,
         Mapped, Told

LEMMA InitMaps == Init => Contract!Init
<1> SUFFICES ASSUME Init PROVE Contract!Init
  OBVIOUS
<1>1. \A e \in Exports : StateOf(e) = "idle"
  BY InitTypeInv, InitDelivery, StateOfIs DEF Init, StateFacts
<1>2. \A e \in Exports : AnswerOf(result[e]) = "none"
  BY AnswerOfIs DEF Init
<1> QED BY <1>1, <1>2 DEF Contract!Init

LEMMA StutterMaps ==
  ASSUME UNCHANGED <<req, result, reply, verdict, calls>>
  PROVE  UNCHANGED Contract!vars
<1>1. \A x \in Exports : StateOf(x)' = StateOf(x)
  BY StateOfSame
<1> QED BY <1>1 DEF Contract!vars

(* Every step of the scheduler is a step of the contract, or none.         *)
LEMMA NextMaps ==
  ASSUME TypeInv, Delivery, [Next]_vars
  PROVE  [Contract!Next]_(Contract!vars)
<1>1. /\ \A e \in Exports : StateFacts(e) /\ StateFacts(e)'
      /\ \A e \in Exports : Mapped[e] = StateOf(e) /\ Told[e] = AnswerOf(result[e])
      /\ TypeInv' /\ Delivery'
  BY StateOfIs, NextStateOfIs, NextTypeInv, NextDelivery DEF Mapped, Told
<1>2. CASE UNCHANGED <<req, result, reply, verdict, calls>>
  BY <1>2, StutterMaps
<1>3. ASSUME NEW e \in Exports, Admit(e)
      PROVE  Contract!Next
  <2>1. /\ req' = [req EXCEPT ![e] = "register"]
        /\ result' = [result EXCEPT ![e] = "none"]
        /\ reply' = [reply EXCEPT ![e] = "none"]
        /\ calls' = [calls EXCEPT ![e] = 0]
        /\ verdict' = [verdict EXCEPT ![e] = "none"]
    BY <1>3 DEF Admit
  <2>2. /\ req'[e] = "register" /\ result'[e] = "none"
        /\ \A x \in Exports : x # e =>
             /\ req'[x] = req[x] /\ result'[x] = result[x] /\ reply'[x] = reply[x]
             /\ calls'[x] = calls[x] /\ verdict'[x] = verdict[x]
    BY <2>1 DEF TypeInv, TypeOK
  <2>3. Mapped' = [Mapped EXCEPT ![e] = "offered"]
    BY <1>1, <2>2, StateOfSame, OneStateChanges DEF StateFacts
  <2>4. Told' = [Told EXCEPT ![e] = "none"]
    BY <2>2, AnswerOfIs, OneAnswerChanges
  <2>5. CASE req[e] = "idle"
    BY <1>1, <2>3, <2>4, <2>5, ContractStep DEF StateFacts
  <2>6. CASE req[e] # "idle"
    <3>1. e \in Repeating /\ req[e] = "returned" /\ ~Placed(e)
      BY <1>3, <2>6, GoneIsUnplaced DEF Admit, TypeInv, Delivery
    <3>2. StateOf(e) \in {"refused", "stored", "failed"}
      BY <1>1, <3>1 DEF StateFacts, Delivery, Settled, Verdicts
    <3>3. AnswerOf(result[e]) # "none"
      BY <3>1, AnswerOfIs DEF Delivery, Settled, TypeInv, TypeOK, Replies, Verdicts
    <3> QED BY <1>1, <2>3, <2>4, <3>1, <3>2, <3>3, ContractStep
  <2> QED BY <2>5, <2>6
<1>4. ASSUME NEW e \in Exports, Enqueue(e)
      PROVE  Contract!Next
  <2>1. req[e] = "enqueue" /\ req' = [req EXCEPT ![e] = "kick"]
        /\ UNCHANGED <<result, reply, calls, verdict>>
    BY <1>4 DEF Enqueue, workerVars
  <2>2. req'[e] = "kick" /\ \A x \in Exports : x # e => req'[x] = req[x]
    BY <2>1 DEF TypeInv, TypeOK
  <2>3. result[e] = "none" /\ reply[e] = "none" /\ calls[e] = 0 /\ verdict[e] = "none"
    BY <2>1 DEF Delivery, Fresh
  <2>4. Mapped' = [Mapped EXCEPT ![e] = "accepted"]
    BY <1>1, <2>1, <2>2, <2>3, StateOfSame, OneStateChanges DEF StateFacts
  <2>5. Told' = Told
    BY <2>1, NoAnswerChanges
  <2> QED BY <1>1, <2>1, <2>4, <2>5, ContractStep DEF StateFacts
<1>5. ASSUME NEW e \in Exports, Refuse(e)
      PROVE  Contract!Next
  <2>1. req[e] = "enqueue" /\ req' = [req EXCEPT ![e] = "returned"]
        /\ result' = [result EXCEPT ![e] = "parse_queue_full"]
        /\ UNCHANGED <<reply, calls, verdict>>
    BY <1>5 DEF Refuse, workerVars
  <2>2. /\ req'[e] = "returned" /\ result'[e] = "parse_queue_full"
        /\ \A x \in Exports : x # e => req'[x] = req[x] /\ result'[x] = result[x]
    BY <2>1 DEF TypeInv, TypeOK
  <2>3. Mapped' = [Mapped EXCEPT ![e] = "refused"]
    BY <1>1, <2>1, <2>2, StateOfSame, OneStateChanges DEF StateFacts
  <2>4. Told' = [Told EXCEPT ![e] = "refused"]
    BY <2>2, AnswerOfIs, OneAnswerChanges
  <2> QED BY <1>1, <2>1, <2>3, <2>4, ContractStep DEF StateFacts
<1>6. ASSUME NEW e \in Exports, Register(e) \/ Kick(e)
      PROVE  UNCHANGED Contract!vars
  <2>1. UNCHANGED <<result, reply, calls, verdict>>
    BY <1>6 DEF Register, Kick, workerVars
  <2>2. /\ \A x \in Exports : x # e => req'[x] = req[x]
        /\ \/ req[e] = "register" /\ req'[e] = "enqueue"
           \/ req[e] = "kick" /\ req'[e] = "waiting"
    BY <1>6 DEF Register, Kick, TypeInv, TypeOK
  <2>3. StateOf(e)' = StateOf(e)
    BY <2>1, <2>2 DEF StateOf
  <2>4. \A x \in Exports : StateOf(x)' = StateOf(x)
    BY <2>1, <2>2, <2>3, StateOfSame
  <2> QED BY <2>1, <2>4, NoStateChanges, NoAnswerChanges DEF Contract!vars, Mapped, Told
<1>7. ASSUME NEW e \in Exports, ReceiveReply(e)
      PROVE  Contract!Next
  <2>1. /\ req[e] = "waiting" /\ reply[e] # "none"
        /\ req' = [req EXCEPT ![e] = "returned"]
        /\ result' = [result EXCEPT ![e] = reply[e]]
        /\ reply' = [reply EXCEPT ![e] = "none"]
        /\ UNCHANGED <<calls, verdict>>
    BY <1>7 DEF ReceiveReply, workerVars
  <2>2. /\ req'[e] = "returned" /\ result'[e] = reply[e] /\ reply'[e] = "none"
        /\ \A x \in Exports : x # e =>
             req'[x] = req[x] /\ result'[x] = result[x] /\ reply'[x] = reply[x]
    BY <2>1 DEF TypeInv, TypeOK
  <2>3. result[e] = "none"
    BY <2>1 DEF Delivery, NotLost, Awaiting
  <2>4. reply[e] \in Replies
    BY <2>1 DEF TypeInv, TypeOK
  <2>5. CASE reply[e] = "parse_queue_full"
    <3>1. StateOf(e) = "refused" /\ StateOf(e)' = "refused" /\ AnswerOf(reply[e]) = "refused"
      BY <1>1, <2>1, <2>2, <2>5, AnswerOfIs DEF StateFacts
    <3>2. Mapped' = Mapped /\ Told' = [Told EXCEPT ![e] = "refused"]
      BY <2>1, <2>2, <3>1, StateOfSame, NoStateChanges, OneAnswerChanges
    <3> QED BY <1>1, <2>3, <3>1, <3>2, AnswerOfIs, ContractStep
  <2>6. CASE reply[e] \in Verdicts
    <3>1. verdict[e] = reply[e] /\ reply[e] # "parse_queue_full"
      BY <2>6, SinkErrorsType DEF Delivery, TruthfulAnswers, Truthful, Verdicts
    <3>2. /\ StateOf(e) \in {"stored", "failed"}
          /\ StateOf(e)' = StateOf(e) /\ AnswerOf(reply[e]) = StateOf(e)
      BY <1>1, <2>1, <2>2, <2>3, <2>6, <3>1, AnswerOfIs DEF StateFacts, Verdicts
    <3>3. Mapped' = Mapped
      BY <2>1, <2>2, <3>2, StateOfSame, NoStateChanges
    <3>4. Told' = [Told EXCEPT ![e] = Mapped[e]]
      BY <1>1, <2>2, <3>2, OneAnswerChanges
    <3> QED BY <1>1, <2>3, <3>2, <3>3, <3>4, AnswerOfIs, ContractStep
  <2> QED BY <2>4, <2>5, <2>6 DEF Replies
<1>8. ASSUME NEW e \in Exports, GiveUp(e)
      PROVE  Contract!Next
  <2>1. /\ req[e] = "waiting"
        /\ req' = [req EXCEPT ![e] = "returned"]
        /\ result' = [result EXCEPT ![e] = "context_done"]
        /\ UNCHANGED <<reply, calls, verdict>>
    BY <1>8 DEF GiveUp, workerVars
  <2>2. /\ req'[e] = "returned" /\ result'[e] = "context_done"
        /\ \A x \in Exports : x # e => req'[x] = req[x] /\ result'[x] = result[x]
    BY <2>1 DEF TypeInv, TypeOK
  <2>3. result[e] = "none"
    BY <2>1 DEF Delivery, NotLost, Awaiting
  <2>4. /\ StateOf(e)' = StateOf(e)
        /\ StateOf(e) \notin {"idle", "offered"}
    <3>1. verdict[e] \in Verdicts \cup {"none"} /\ calls[e] \in {0, 1}
      BY DEF TypeInv, TypeOK, Delivery, CalledOnce
    <3>2. CASE reply[e] = "parse_queue_full"
      BY <1>1, <2>1, <2>2, <3>2 DEF StateFacts
    <3>3. CASE reply[e] # "parse_queue_full" /\ verdict[e] = "none"
      BY <1>1, <2>1, <2>2, <2>3, <3>1, <3>3 DEF StateFacts
    <3>4. CASE reply[e] # "parse_queue_full" /\ verdict[e] \in Verdicts
      BY <1>1, <2>1, <2>2, <2>3, <3>4 DEF StateFacts, Verdicts
    <3> QED BY <3>1, <3>2, <3>3, <3>4
  <2>5. Mapped' = Mapped /\ Told' = [Told EXCEPT ![e] = "context_done"]
    BY <2>1, <2>2, <2>4, AnswerOfIs, StateOfSame, NoStateChanges, OneAnswerChanges
  <2> QED BY <1>1, <2>3, <2>4, <2>5, AnswerOfIs, ContractStep
<1>9. CASE FailHeld
  <2>1. /\ held \in Exports /\ reply[held] = "none"
        /\ reply' = [reply EXCEPT ![held] = "parse_queue_full"]
        /\ UNCHANGED <<req, result, calls, verdict>>
    BY <1>9 DEF FailHeld, TypeInv, TypeOK, Delivery, OnePlace, Placed, submitVars, workerVars
  <2>2. /\ reply'[held] = "parse_queue_full"
        /\ \A x \in Exports : x # held => reply'[x] = reply[x]
    BY <2>1 DEF TypeInv, TypeOK
  <2>3. PICK e \in Exports : e = held
    BY <2>1
  <2>4. /\ calls[e] = 0 /\ verdict[e] = "none" /\ result[e] \in {"none", "context_done"}
        /\ req[e] \in {"kick", "waiting", "returned"}
    BY <2>3 DEF Delivery, CalledOnce, OnePlace, Fresh, Placed, TypeInv, TypeOK
  <2>5. StateOf(e) = "accepted" /\ StateOf(e)' = "refused"
    BY <1>1, <2>1, <2>2, <2>3, <2>4 DEF StateFacts
  <2>6. Mapped' = [Mapped EXCEPT ![e] = "refused"] /\ Told' = Told
    BY <2>1, <2>2, <2>3, <2>5, StateOfSame, OneStateChanges, NoAnswerChanges
  <2> QED BY <1>1, <2>5, <2>6, ContractStep
<1>10. ASSUME NEW w \in Workers, Take(w)
       PROVE  Contract!Next
  <2>1. PICK e : e = Head(jobs)
    OBVIOUS
  <2>2. /\ e \in Exports /\ Listed(e)
        /\ calls' = [calls EXCEPT ![e] = @ + 1]
        /\ UNCHANGED <<req, result, reply, verdict>>
    BY <1>10, <2>1, TailFacts DEF Take, TypeInv, TypeOK, Listed, submitVars
  <2>3. /\ calls[e] = 0 /\ verdict[e] = "none" /\ result[e] \in {"none", "context_done"}
        /\ req[e] \in {"kick", "waiting", "returned"} /\ reply[e] = "none"
    BY <2>2 DEF Delivery, CalledOnce, OnePlace, Fresh, Placed, TypeInv, TypeOK
  <2>4. calls'[e] = 1 /\ \A x \in Exports : x # e => calls'[x] = calls[x]
    BY <2>2, <2>3 DEF TypeInv, TypeOK
  <2>5. StateOf(e) = "accepted" /\ StateOf(e)' = "ingesting"
    BY <1>1, <2>2, <2>3, <2>4 DEF StateFacts
  <2>6. Mapped' = [Mapped EXCEPT ![e] = "ingesting"] /\ Told' = Told
    BY <2>2, <2>4, <2>5, StateOfSame, OneStateChanges, NoAnswerChanges
  <2> QED BY <1>1, <2>2, <2>5, <2>6, ContractStep
<1>11. ASSUME NEW w \in Workers, SinkReturns(w)
       PROVE  Contract!Next
  <2>1. PICK e : e = wjob[w]
    OBVIOUS
  <2>2. PICK v \in Verdicts : verdict' = [verdict EXCEPT ![e] = v]
    BY <1>11, <2>1 DEF SinkReturns
  <2>3. /\ e \in Exports /\ Working(e) /\ calls[e] = 1 /\ verdict[e] = "none"
        /\ UNCHANGED <<req, result, reply, calls>>
    BY <1>11, <2>1 DEF SinkReturns, TypeInv, TypeOK, Delivery, CalledOnce, Working, submitVars
  <2>4. /\ result[e] \in {"none", "context_done"} /\ reply[e] = "none"
        /\ req[e] \in {"kick", "waiting", "returned"}
    BY <2>3 DEF Delivery, OnePlace, Fresh, Placed, TypeInv, TypeOK
  <2>5. verdict'[e] = v /\ \A x \in Exports : x # e => verdict'[x] = verdict[x]
    BY <2>2, <2>3 DEF TypeInv, TypeOK
  <2>6. StateOf(e) = "ingesting" /\ StateOf(e)' \in {"stored", "failed"}
    BY <1>1, <2>3, <2>4, <2>5 DEF StateFacts, Verdicts
  <2>7. PICK o \in {"stored", "failed"} : StateOf(e)' = o
    BY <2>6
  <2>8. Mapped' = [Mapped EXCEPT ![e] = o] /\ Told' = Told
    BY <2>3, <2>5, <2>7, StateOfSame, OneStateChanges, NoAnswerChanges
  <2> QED BY <1>1, <2>3, <2>6, <2>8, ContractStep
<1>12. ASSUME NEW w \in Workers, Reply(w)
       PROVE  UNCHANGED Contract!vars
  <2>1. PICK e : e = wjob[w]
    OBVIOUS
  <2>2. /\ e \in Exports /\ verdict[e] \in Verdicts /\ reply[e] = "none" /\ Working(e)
        /\ UNCHANGED <<req, result, calls, verdict>>
    BY <1>12, <2>1
       DEF Reply, TypeInv, TypeOK, Delivery, CalledOnce, OnePlace, Placed, Working, submitVars
  <2>3. reply' = reply \/ reply' = [reply EXCEPT ![e] = verdict[e]]
    BY <1>12, <2>1, Zenon DEF Reply
  <2>4. "parse_queue_full" \notin Verdicts
    BY SinkErrorsType DEF Verdicts
  <2>5. /\ reply'[e] # "parse_queue_full"
        /\ \A x \in Exports : x # e => reply'[x] = reply[x]
    BY <2>2, <2>3, <2>4 DEF TypeInv, TypeOK
  <2>6. result[e] # "parse_queue_full" /\ req[e] \in {"kick", "waiting", "returned"}
    BY <2>2 DEF Delivery, OnePlace, Fresh, Placed, TypeInv, TypeOK
  <2>7. StateOf(e)' = StateOf(e)
    BY <1>1, <2>2, <2>5, <2>6 DEF StateFacts, Verdicts
  <2>8. \A x \in Exports : StateOf(x)' = StateOf(x)
    BY <2>2, <2>5, <2>7, StateOfSame
  <2> QED BY <2>2, <2>8, NoStateChanges, NoAnswerChanges DEF Contract!vars, Mapped, Told
<1>13. ASSUME Next, ~FailHeld,
              \A e \in Exports : ~Admit(e) /\ ~Submit(e) /\ ~ReceiveReply(e) /\ ~GiveUp(e),
              \A w \in Workers : ~Take(w) /\ ~SinkReturns(w) /\ ~Reply(w)
       PROVE  UNCHANGED <<req, result, reply, verdict, calls>>
  BY <1>13
     DEF Next, Dispatcher, StartRound, Pop, Push, Requeue, Wake, DispatcherExit, Worker,
         WorkerExit, Cancel, submitVars, workerVars
<1>14. UNCHANGED vars => UNCHANGED <<req, result, reply, verdict, calls>>
  BY DEF vars
<1> QED
  BY <1>2, <1>3, <1>4, <1>5, <1>6, <1>7, <1>8, <1>9, <1>10, <1>11, <1>12, <1>13, <1>14
     DEF Submit

(* The scheduler does to an export only what the contract with its         *)
(* exporter allows.                                                        *)
THEOREM SchedulerImplementsContract == Spec => ImplementsContract
<1>1. Init => Contract!Init
  BY InitMaps
<1>2. TypeInv /\ Delivery /\ [Next]_vars => [Contract!Next]_(Contract!vars)
  BY NextMaps
<1> QED BY <1>1, <1>2, DeliveryInvariant, PTL DEF Spec, ImplementsContract, Contract!Spec

-----------------------------------------------------------------------------
(* The receiver around the scheduler. *)

LEMMA ReceiverStepsMap == [ReceiverNext]_receiverVars => [Next]_vars
<1> SUFFICES ASSUME [ReceiverNext]_receiverVars PROVE [Next]_vars
  OBVIOUS
<1>1. CASE \E e \in Exports : Serve(e)
  BY <1>1 DEF Serve, Next
<1>2. CASE Handle
  BY <1>2 DEF Handle, Next
<1>3. CASE StopCancel
  BY <1>3 DEF StopCancel, Next
<1>4. CASE StopGrpc \/ GrpcDrained \/ HttpDrained
  BY <1>4 DEF StopGrpc, GrpcDrained, HttpDrained
<1>5. CASE UNCHANGED receiverVars
  BY <1>5 DEF receiverVars
<1> QED BY <1>1, <1>2, <1>3, <1>4, <1>5 DEF ReceiverNext, Stop

(* Whatever the surfaces and the order in which Stop closes them           *)
(* (receiver.go), a receiver is a scheduler whose exporters keep away at   *)
(* times: it loses and repeats nothing the scheduler would not.            *)
THEOREM ReceiverIsScheduler == ReceiverSpec => Spec
<1>1. ReceiverInit => Init
  BY DEF ReceiverInit
<1> QED BY <1>1, ReceiverStepsMap, PTL DEF ReceiverSpec, Spec

(* The exporters of a receiver that is being stopped see the same contract: *)
(* the requests that are still in admitRequest are answered as before.      *)
THEOREM ReceiverImplementsContract == ReceiverSpec => ImplementsContract
BY ReceiverIsScheduler, SchedulerImplementsContract, PTL

(* Stop has cancelled the scheduler before it closes a surface, and when    *)
(* GracefulStop has returned no RPC is in admitRequest, nor gets there.     *)
StopInv ==
  /\ stop \in {"serving", "cancelled", "grpc", "http", "stopped"}
  /\ stop # "serving" => cancelled
  /\ stop \in {"http", "stopped"} => \A e \in Grpc : ~InHandler(e)

LEMMA StopInductive == DOMAIN req = Exports /\ StopInv /\ [ReceiverNext]_receiverVars => StopInv'
<1> SUFFICES ASSUME DOMAIN req = Exports, StopInv, [ReceiverNext]_receiverVars PROVE StopInv'
  OBVIOUS
<1> USE GrpcType DEF StopInv, InHandler
<1>1. ASSUME NEW e \in Exports, Serve(e) PROVE StopInv'
  <2>1. /\ req' = [req EXCEPT ![e] = "register"] /\ cancelled' = cancelled /\ stop' = stop
        /\ stop \in {"http", "stopped"} => e \notin Grpc
    BY <1>1 DEF Serve, SurfaceOpen, Admit
  <2> QED BY <2>1
<1>2. ASSUME NEW e \in Exports, Submit(e) \/ ReceiveReply(e) \/ GiveUp(e), UNCHANGED stop
      PROVE  StopInv'
  <2>1. /\ cancelled' = cancelled /\ InHandler(e)
        /\ \A x \in Exports : x # e => req'[x] = req[x]
    BY <1>2 DEF Submit, Register, Enqueue, Refuse, Kick, ReceiveReply, GiveUp
  <2>2. \A x \in Exports : InHandler(x)' => InHandler(x)
    BY <2>1
  <2> QED BY <1>2, <2>1, <2>2
<1>3. CASE UNCHANGED <<req, cancelled, stop>>
  BY <1>3
<1>4. CASE Handle
  <2>1. CASE Dispatcher
    <3>1. UNCHANGED <<req, cancelled>>
      BY <2>1 DEF Dispatcher, StartRound, Pop, Push, Requeue, FailHeld, Wake, DispatcherExit, submitVars
    <3> QED BY <1>3, <1>4, <3>1 DEF Handle
  <2>2. ASSUME NEW w \in Workers, Worker(w) PROVE StopInv'
    <3>1. UNCHANGED <<req, cancelled>>
      BY <2>2 DEF Worker, Take, SinkReturns, Reply, WorkerExit, submitVars
    <3> QED BY <1>3, <1>4, <3>1 DEF Handle
  <2> QED BY <1>2, <1>4, <2>1, <2>2 DEF Handle
<1>5. CASE StopCancel
  <2>1. stop = "serving" /\ stop' = "cancelled" /\ cancelled' = TRUE
    BY <1>5 DEF StopCancel, Cancel
  <2> QED BY <2>1
<1>6. CASE StopGrpc \/ GrpcDrained \/ HttpDrained
  <2>1. /\ req' = req /\ cancelled' = cancelled
        /\ \/ stop = "cancelled" /\ stop' = "grpc"
           \/ stop = "grpc" /\ stop' = "http" /\ \A e \in Grpc : ~InHandler(e)
           \/ stop = "http" /\ stop' = "stopped"
    BY <1>6 DEF StopGrpc, GrpcDrained, HttpDrained, vars
  <2> QED BY <2>1
<1>7. CASE UNCHANGED receiverVars
  BY <1>3, <1>7 DEF receiverVars, vars
<1> QED BY <1>1, <1>2, <1>4, <1>5, <1>6, <1>7 DEF ReceiverNext, Handle, Stop

(* When GracefulStop has returned (receiver.go), no gRPC request is in      *)
(* admitRequest and none gets there, however HTTP requests and the          *)
(* scheduler's goroutines go on; and whoever is still inside by then is     *)
(* inside a scheduler that was told to stop.                                *)
THEOREM NoCallOutlivesStop ==
  ReceiverSpec => [](stop \in {"http", "stopped"} => cancelled /\ \A e \in Grpc : ~InHandler(e))
<1>1. ReceiverInit => StopInv
  BY DEF ReceiverInit, StopInv
<1>2. TypeInv => DOMAIN req = Exports
  BY DEF TypeInv, TypeOK
<1>3. StopInv => (stop \in {"http", "stopped"} => cancelled /\ \A e \in Grpc : ~InHandler(e))
  BY DEF StopInv
<1> QED BY <1>1, <1>2, <1>3, StopInductive, ReceiverIsScheduler, DeliveryInvariant, PTL DEF ReceiverSpec
=============================================================================
