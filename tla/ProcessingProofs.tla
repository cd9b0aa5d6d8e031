-------------------------- MODULE ProcessingProofs --------------------------
(***************************************************************************)
(* Proofs about RewardProcessing, for every value of its constants: any    *)
(* number of workers, events and accounts, and all the faults.             *)
(***************************************************************************)
EXTENDS RewardProcessing, LedgerProofs

(***************************************************************************)
(* The shapes of the variables.  Whether the numbers in them are numbers   *)
(* is left open here (some set S): that is the matter of Amounts below.    *)
(***************************************************************************)
EventStatuses == {"absent", "accepted", "processing", "processed", "failed"}

WorksOver(S) == [pc : PCs, batch : SUBSET Event, event : Event \cup {NoEvent},
                 first : BOOLEAN, used : S, prior : S]

Shapes ==
    /\ \E B : balance \in [Account -> B]
    /\ status \in [Event -> EventStatuses]
    /\ \E C : calculation \in [Event -> C]
    /\ \E S : work \in [Worker -> WorksOver(S)]

Active == {"limit", "award", "reverse", "failing"}

(***************************************************************************)
(* A worker is on an event of its batch, a refund if it reverses one, and  *)
(* has claimed every event of the batch.  An event still to be settled has *)
(* no calculation, and any other calculation is a success or a failure.    *)
(***************************************************************************)
WorkersOnBatch ==
    \A w \in Worker : /\ IF work[w].pc \in Active THEN work[w].event \in work[w].batch
                                                 ELSE work[w].event = NoEvent
                      /\ work[w].pc = "reverse" => Type[work[w].event] = "refund"
                      /\ \A e \in work[w].batch : status[e] \notin {"absent", "accepted"}

CalculatedIsSettled ==
    \A e \in Event :
        \/ calculation[e] = NoCalculation
        \/ /\ calculation[e].status \in {"succeeded", "failed"}
           /\ status[e] \in {"processed", "failed"}

Inv == /\ Shapes
       /\ WorkersOnBatch
       /\ ClaimedOnce
       /\ CalculatedIsSettled
       /\ LedgerMatchesCalculation

LEMMA InvInit == Init => Inv
<1> SUFFICES ASSUME Init PROVE Inv
  OBVIOUS
<1>1. Shapes
  <2>1. work \in [Worker -> WorksOver({0})]
    BY DEF Init, Idle, WorksOver, PCs
  <2>2. balance \in [Account -> {Zero}] /\ calculation \in [Event -> {NoCalculation}]
    BY DEF Init, LedgerInit
  <2> QED
    BY <2>1, <2>2 DEF Init, Shapes, EventStatuses
<1>2. WorkersOnBatch /\ ClaimedOnce
  BY DEF Init, Idle, WorkersOnBatch, ClaimedOnce, Active
<1>3. CalculatedIsSettled
  BY DEF Init, CalculatedIsSettled
<1>4. LedgerMatchesCalculation
  BY DEF Init, LedgerInit, LedgerMatchesCalculation, Succeeded, NoCalculation, Calculation
<1> QED
  BY <1>1, <1>2, <1>3, <1>4 DEF Inv

-----------------------------------------------------------------------------
(***************************************************************************)
(* Numbers of one row are numbers of all of them, over a larger set.       *)
(***************************************************************************)
LEMMA WorkShape ==
    ASSUME Shapes, NEW w \in Worker, NEW T, NEW row \in WorksOver(T),
           work' = [work EXCEPT ![w] = row]
    PROVE  /\ \E S : work' \in [Worker -> WorksOver(S)]
           /\ \A v \in Worker : work'[v] = IF v = w THEN row ELSE work[v]
<1>1. PICK S : work \in [Worker -> WorksOver(S)]
  BY DEF Shapes
<1>2. work' \in [Worker -> WorksOver(S \cup T)]
  <2>1. row \in WorksOver(S \cup T)
    BY DEF WorksOver
  <2>2. \A v \in Worker : work[v] \in WorksOver(S \cup T)
    BY <1>1 DEF WorksOver
  <2> HIDE DEF WorksOver
  <2> QED
    BY <1>1, <2>1, <2>2
<1> QED
  BY <1>1, <1>2

(***************************************************************************)
(* What every step of a worker within its batch keeps: it settles at most  *)
(* the event it is on, and an event it is done with leaves the batch.      *)
(***************************************************************************)
LEMMA StepKeepsClaims ==
    ASSUME Inv, NEW w \in Worker, NEW T, NEW row \in WorksOver(T),
           work' = [work EXCEPT ![w] = row],
           row.batch \subseteq work[w].batch,
           IF row.pc \in Active THEN row.event \in row.batch ELSE row.event = NoEvent,
           row.pc = "reverse" => Type[row.event] = "refund",
           work[w].event \in row.batch => row.event = work[w].event,
           \A e \in Event :
               \/ status'[e] = status[e]
               \/ /\ work[w].pc \in Active /\ e = work[w].event
                  /\ status'[e] \in {"processed", "failed"}
    PROVE  WorkersOnBatch' /\ ClaimedOnce'
<1>1. \A v \in Worker : work'[v] = IF v = w THEN row ELSE work[v]
  BY WorkShape DEF Inv
<1>2. \A v \in Worker : work[v].batch \subseteq Event
  BY DEF Inv, Shapes, WorksOver
<1>3. ASSUME NEW v \in Worker, NEW e \in work'[v].batch
      PROVE  /\ e \in Event
             /\ e \in work[v].batch
             /\ status'[e] \notin {"absent", "accepted"}
             /\ work'[v].event # e => status'[e] = "processing"
             /\ \A u \in Worker \ {v} : e \notin work'[u].batch
  <2>1. e \in work[v].batch /\ e \in Event
    BY <1>1, <1>2
  <2>2. status[e] \notin {"absent", "accepted"}
    BY <2>1 DEF Inv, WorkersOnBatch
  <2>3. \A u \in Worker \ {v} : e \notin work[u].batch
    BY <2>1 DEF Inv, ClaimedOnce
  <2>4. \A u \in Worker \ {v} : e \notin work'[u].batch
    BY <1>1, <2>3
  <2>5. status'[e] # status[e] => v = w /\ e = work[w].event
    BY <2>1, <2>3 DEF Inv, WorkersOnBatch
  <2>6. work'[v].event # e => status'[e] = "processing"
    <3>1. CASE v = w
      BY <1>1, <2>1, <2>5, <3>1 DEF Inv, ClaimedOnce
    <3>2. CASE v # w
      BY <1>1, <2>1, <2>5, <3>2 DEF Inv, ClaimedOnce
    <3> QED
      BY <3>1, <3>2
  <2> QED
    BY <2>1, <2>2, <2>4, <2>6
<1>4. ASSUME NEW v \in Worker
      PROVE  /\ IF work'[v].pc \in Active THEN work'[v].event \in work'[v].batch
                                          ELSE work'[v].event = NoEvent
             /\ work'[v].pc = "reverse" => Type[work'[v].event] = "refund"
  BY <1>1 DEF Inv, WorkersOnBatch
<1> QED
  BY <1>3, <1>4 DEF WorkersOnBatch, ClaimedOnce

LEMMA FinishedRow ==
    ASSUME Shapes, NEW w \in Worker
    PROVE  /\ Finished(w) \in WorksOver({0})
           /\ Finished(w).batch = work[w].batch \ {work[w].event}
           /\ Finished(w).pc \notin Active /\ Finished(w).pc # "reverse"
           /\ Finished(w).event = NoEvent
<1>1. PICK S : work[w] \in WorksOver(S)
  BY DEF Shapes
<1>2. work[w].batch \subseteq Event
  BY <1>1 DEF WorksOver
<1> QED
  BY <1>2 DEF Finished, Idle, WorksOver, PCs, Active

-----------------------------------------------------------------------------
(***************************************************************************)
(* The three variables that carry an outcome change together, for the      *)
(* event that gets it.                                                     *)
(***************************************************************************)
EntryOf(e, calc) ==
    Entry(Member[e], IF Type[e] = "purchase" THEN "earn" ELSE "refund", e,
          AvailableDelta(Points(calc.awards)))

LEMMA PersistKeepsLedger ==
    ASSUME Inv, NEW e \in Event, NEW type, NEW calc,
           calc.status = "succeeded", Member[e] \in Account,
           type = IF Type[e] = "purchase" THEN "earn" ELSE "refund",
           PersistSuccess(e, type, calc)
    PROVE  /\ \E B : balance' \in [Account -> B]
           /\ \E C : calculation' \in [Event -> C]
           /\ status' \in [Event -> EventStatuses]
           /\ CalculatedIsSettled'
           /\ LedgerMatchesCalculation'
<1> DEFINE points == Points(calc.awards)
           entry == EntryOf(e, calc)
<1>1. /\ calculation[e] = NoCalculation
      /\ calculation' = [calculation EXCEPT ![e] = calc]
      /\ status' = [status EXCEPT ![e] = "processed"]
      /\ IF points = 0 THEN UNCHANGED <<balance, entries>> ELSE PostLedgerEntry(entry)
  BY DEF PersistSuccess, EntryOf
<1>2. PICK C : calculation \in [Event -> C]
  BY DEF Inv, Shapes
<1>3. calculation' \in [Event -> C \cup {calc}]
      /\ \A f \in Event : calculation'[f] = IF f = e THEN calc ELSE calculation[f]
  BY <1>1, <1>2
<1>4. \E B : balance' \in [Account -> B]
  <2>1. PICK B : balance \in [Account -> B]
    BY DEF Inv, Shapes
  <2>2. balance' \in [Account -> B \cup {Plus(balance[entry.account], entry.delta)}]
    BY <1>1, <2>1 DEF PostLedgerEntry
  <2> QED
    BY <2>2
<1>5. status' \in [Event -> EventStatuses]
      /\ \A f \in Event : status'[f] = IF f = e THEN "processed" ELSE status[f]
  BY <1>1 DEF Inv, Shapes, EventStatuses
<1>6. CalculatedIsSettled'
  BY <1>3, <1>5 DEF Inv, CalculatedIsSettled
<1>7. entries' = IF points = 0 THEN entries ELSE entries \cup {entry}
  BY <1>1 DEF PostLedgerEntry
<1>8. entry.source = e
  BY DEF EntryOf, Entry
<1>9. ~Succeeded(e) /\ Succeeded(e)'
  BY <1>1, <1>3 DEF Succeeded, NoCalculation, Calculation
<1>10. {f \in entries : f.source = e} = {}
  BY <1>9 DEF Inv, LedgerMatchesCalculation
<1>11. ASSUME NEW g \in Event
       PROVE  {f \in entries' : f.source = g}
                = IF Succeeded(g)' /\ Points(calculation'[g].awards) # 0
                  THEN {EntryOf(g, calculation'[g])} ELSE {}
  <2>1. CASE g = e
    <3>1. {f \in entries' : f.source = e} = IF points = 0 THEN {} ELSE {entry}
      BY <1>7, <1>8, <1>10
    <3> QED
      BY <1>3, <1>9, <2>1, <3>1
  <2>2. CASE g # e
    <3>1. {f \in entries' : f.source = g} = {f \in entries : f.source = g}
      BY <1>7, <1>8, <2>2
    <3>2. calculation'[g] = calculation[g] /\ (Succeeded(g)' <=> Succeeded(g))
      BY <1>3, <2>2 DEF Succeeded
    <3> QED
      BY <3>1, <3>2 DEF Inv, LedgerMatchesCalculation, EntryOf
  <2> QED
    BY <2>1, <2>2
<1>12. LedgerMatchesCalculation'
  BY <1>11 DEF LedgerMatchesCalculation, EntryOf
<1> QED
  BY <1>3, <1>4, <1>5, <1>6, <1>12

(***************************************************************************)
(* A failure is recorded only for an event without a calculation.          *)
(***************************************************************************)
LEMMA RecordKeepsLedger ==
    ASSUME Inv, NEW e \in Event, NEW calc, calc.status = "failed",
           calculation' = [calculation EXCEPT ![e] = IF @ = NoCalculation THEN calc ELSE @],
           status' = [status EXCEPT ![e] = "failed"],
           UNCHANGED entries
    PROVE  /\ \E C : calculation' \in [Event -> C]
           /\ status' \in [Event -> EventStatuses]
           /\ CalculatedIsSettled'
           /\ LedgerMatchesCalculation'
<1>1. PICK C : calculation \in [Event -> C]
  BY DEF Inv, Shapes
<1>2. /\ calculation' \in [Event -> C \cup {calc}]
      /\ \A f \in Event : calculation'[f] =
             IF f = e /\ calculation[f] = NoCalculation THEN calc ELSE calculation[f]
  BY <1>1
<1>3. status' \in [Event -> EventStatuses]
      /\ \A f \in Event : status'[f] = IF f = e THEN "failed" ELSE status[f]
  BY DEF Inv, Shapes, EventStatuses
<1>4. CalculatedIsSettled'
  BY <1>2, <1>3 DEF Inv, CalculatedIsSettled
<1>5. ASSUME NEW g \in Event
      PROVE  /\ Succeeded(g)' <=> Succeeded(g)
             /\ Succeeded(g) => calculation'[g] = calculation[g]
  BY <1>2 DEF Succeeded, NoCalculation, Calculation
<1>6. LedgerMatchesCalculation'
  BY <1>5 DEF Inv, LedgerMatchesCalculation
<1> QED
  BY <1>2, <1>3, <1>4, <1>6

-----------------------------------------------------------------------------
(***************************************************************************)
(* A step of a worker that writes nothing to the database.                 *)
(***************************************************************************)
LEMMA QuietStepKeepsInv ==
    ASSUME Inv, NEW w \in Worker, NEW T, NEW row \in WorksOver(T),
           work' = [work EXCEPT ![w] = row],
           row.batch \subseteq work[w].batch,
           IF row.pc \in Active THEN row.event \in row.batch ELSE row.event = NoEvent,
           row.pc = "reverse" => Type[row.event] = "refund",
           work[w].event \in row.batch => row.event = work[w].event,
           UNCHANGED <<balance, entries, status, calculation>>
    PROVE  Inv'
<1>1. WorkersOnBatch' /\ ClaimedOnce'
  BY StepKeepsClaims
<1>2. \E S : work' \in [Worker -> WorksOver(S)]
  BY WorkShape DEF Inv
<1>3. Shapes'
  BY <1>2 DEF Inv, Shapes
<1>4. CalculatedIsSettled' /\ LedgerMatchesCalculation'
  BY DEF Inv, CalculatedIsSettled, LedgerMatchesCalculation, Succeeded
<1> QED
  BY <1>1, <1>3, <1>4 DEF Inv

(***************************************************************************)
(* The row of a worker that takes an event of its batch up.                *)
(***************************************************************************)
LEMMA StartKeepsInv ==
    ASSUME Inv, NEW w \in Worker, NEW e \in Event, NEW p \in Active, NEW b \in BOOLEAN, NEW n,
           work[w].pc = "next", e \in work[w].batch, p = "reverse" => Type[e] = "refund",
           \/ work' = [work EXCEPT ![w] = [@ EXCEPT !.pc = p, !.event = e, !.first = b]]
           \/ work' = [work EXCEPT ![w] = [@ EXCEPT !.pc = p, !.event = e, !.prior = n]],
           UNCHANGED <<balance, entries, status, calculation>>
    PROVE  Inv'
<1>1. PICK S : work \in [Worker -> WorksOver(S)]
  BY DEF Inv, Shapes
<1>2. work[w] \in WorksOver(S)
  BY <1>1
<1>3. work[w].event = NoEvent /\ NoEvent \notin work[w].batch
  BY <1>2, EventAssumption DEF Inv, WorkersOnBatch, Active, WorksOver
<1> DEFINE row1 == [work[w] EXCEPT !.pc = p, !.event = e, !.first = b]
           row2 == [work[w] EXCEPT !.pc = p, !.event = e, !.prior = n]
<1>4. row1 \in WorksOver(S) /\ row1.pc = p /\ row1.event = e /\ row1.batch = work[w].batch
  BY <1>2 DEF WorksOver, Active, PCs
<1>5. row2 \in WorksOver(S \cup {n}) /\ row2.pc = p /\ row2.event = e
      /\ row2.batch = work[w].batch
  BY <1>2 DEF WorksOver, Active, PCs
<1> HIDE DEF row1, row2
<1>6. CASE work' = [work EXCEPT ![w] = row1]
  BY <1>3, <1>4, <1>6, QuietStepKeepsInv
<1>7. CASE work' = [work EXCEPT ![w] = row2]
  BY <1>3, <1>5, <1>7, QuietStepKeepsInv
<1> QED
  BY <1>6, <1>7 DEF row1, row2

LEMMA ReadKeepsInv ==
    ASSUME Inv, NEW w \in Worker, ReadLimitUsage(w)
    PROVE  Inv'
<1>1. PICK S : work \in [Worker -> WorksOver(S)]
  BY DEF Inv, Shapes
<1>2. work[w] \in WorksOver(S)
  BY <1>1
<1> DEFINE n == usage[Member[work[w].event]].points
           row == [work[w] EXCEPT !.pc = "award", !.used = n]
<1>3. row \in WorksOver(S \cup {n}) /\ row.pc = "award" /\ row.event = work[w].event
      /\ row.batch = work[w].batch
  BY <1>2 DEF WorksOver, PCs
<1>4. work' = [work EXCEPT ![w] = row] /\ UNCHANGED <<balance, entries, status, calculation>>
  BY DEF ReadLimitUsage
<1>5. work[w].event \in work[w].batch
  BY DEF ReadLimitUsage, Inv, WorkersOnBatch, Active
<1> HIDE DEF row
<1> QED
  BY <1>3, <1>4, <1>5, QuietStepKeepsInv DEF Active

LEMMA FailKeepsInv ==
    ASSUME Inv, NEW w \in Worker, Fail(w)
    PROVE  Inv'
<1>1. PICK S : work \in [Worker -> WorksOver(S)]
  BY DEF Inv, Shapes
<1>2. work[w] \in WorksOver(S)
  BY <1>1
<1> DEFINE row == [work[w] EXCEPT !.pc = "failing", !.used = 0, !.prior = 0, !.first = FALSE]
<1>3. row \in WorksOver(S \cup {0}) /\ row.pc = "failing" /\ row.event = work[w].event
      /\ row.batch = work[w].batch
  BY <1>2 DEF WorksOver, PCs
<1>4. work' = [work EXCEPT ![w] = row] /\ UNCHANGED <<balance, entries, status, calculation>>
  BY DEF Fail
<1>5. work[w].event \in work[w].batch
  BY DEF Fail, Inv, WorkersOnBatch, Active
<1> HIDE DEF row
<1> QED
  BY <1>3, <1>4, <1>5, QuietStepKeepsInv DEF Active

(***************************************************************************)
(* A worker that is done with its event, or gives up.                      *)
(***************************************************************************)
LEMMA LeaveKeepsInv ==
    ASSUME Inv, NEW w \in Worker, LoseFailure(w) \/ Crash(w)
    PROVE  Inv'
<1>1. CASE LoseFailure(w)
  <2>1. /\ work' = [work EXCEPT ![w] = Finished(w)]
        /\ UNCHANGED <<balance, entries, status, calculation>>
    BY <1>1 DEF LoseFailure
  <2> QED
    BY <2>1, FinishedRow, QuietStepKeepsInv DEF Inv
<1>2. CASE Crash(w)
  <2>1. /\ work' = [work EXCEPT ![w] = Idle]
        /\ UNCHANGED <<balance, entries, status, calculation>>
    BY <1>2 DEF Crash
  <2>2. Idle \in WorksOver({0}) /\ Idle.batch = {} /\ Idle.pc \notin Active /\ Idle.pc # "reverse"
        /\ Idle.event = NoEvent
    BY DEF Idle, WorksOver, PCs, Active
  <2> QED
    BY <2>1, <2>2, QuietStepKeepsInv
<1> QED
  BY <1>1, <1>2

LEMMA FinishKeepsClaims ==
    ASSUME Inv, NEW w \in Worker, work[w].pc \in Active,
           work' = [work EXCEPT ![w] = Finished(w)],
           \A f \in Event : \/ status'[f] = status[f]
                            \/ f = work[w].event /\ status'[f] \in {"processed", "failed"}
    PROVE  WorkersOnBatch' /\ ClaimedOnce' /\ \E T : work' \in [Worker -> WorksOver(T)]
<1> DEFINE row == Finished(w)
<1>1. /\ row \in WorksOver({0}) /\ row.batch = work[w].batch \ {work[w].event}
      /\ row.pc \notin Active /\ row.pc # "reverse" /\ row.event = NoEvent
  BY FinishedRow DEF Inv
<1> HIDE DEF row
<1>2. work' = [work EXCEPT ![w] = row]
  BY DEF row
<1>3. WorkersOnBatch' /\ ClaimedOnce'
  BY <1>1, <1>2, StepKeepsClaims
<1>4. \E T : work' \in [Worker -> WorksOver(T)]
  BY <1>1, <1>2, WorkShape DEF Inv
<1> QED
  BY <1>3, <1>4

LEMMA CommitKeepsInv ==
    ASSUME Inv, NEW w \in Worker, NEW type, NEW calc,
           work[w].pc \in Active,
           calc.status = "succeeded",
           type = IF Type[work[w].event] = "purchase" THEN "earn" ELSE "refund",
           PersistSuccess(work[w].event, type, calc),
           Committed(w)
    PROVE  Inv'
<1> DEFINE e == work[w].event
<1>1. PICK S : work \in [Worker -> WorksOver(S)]
  BY DEF Inv, Shapes
<1>2. work[w] \in WorksOver(S)
  BY <1>1
<1>3. e \in work[w].batch /\ e \in Event
  BY <1>2 DEF Inv, WorkersOnBatch, WorksOver
<1>4. Member[e] \in Account
  BY <1>3, InputAssumption
<1>5. /\ \E B : balance' \in [Account -> B]
      /\ \E C : calculation' \in [Event -> C]
      /\ status' \in [Event -> EventStatuses]
      /\ CalculatedIsSettled'
      /\ LedgerMatchesCalculation'
  BY <1>3, <1>4, PersistKeepsLedger
<1>6. \A f \in Event : status'[f] = IF f = e THEN "processed" ELSE status[f]
  BY <1>3 DEF PersistSuccess, Inv, Shapes
<1> DEFINE row == [work[w] EXCEPT !.pc = "failing"]
<1>7. row \in WorksOver(S) /\ row.pc = "failing" /\ row.event = e /\ row.batch = work[w].batch
  BY <1>2 DEF WorksOver, PCs
<1>8. work' = [work EXCEPT ![w] = Finished(w)] \/ work' = [work EXCEPT ![w] = row]
  BY DEF Committed
<1> HIDE DEF row
<1>9. WorkersOnBatch' /\ ClaimedOnce' /\ \E T : work' \in [Worker -> WorksOver(T)]
  <2>1. CASE work' = [work EXCEPT ![w] = Finished(w)]
    BY <1>6, <2>1, FinishKeepsClaims
  <2>2. CASE work' = [work EXCEPT ![w] = row]
    <3>1. WorkersOnBatch' /\ ClaimedOnce'
      <4>1. "failing" \in Active
        BY DEF Active
      <4> QED
        BY <1>3, <1>6, <1>7, <2>2, <4>1, StepKeepsClaims
    <3>2. \E T : work' \in [Worker -> WorksOver(T)]
      BY <1>7, <2>2, WorkShape DEF Inv
    <3> QED
      BY <3>1, <3>2
  <2> QED
    BY <1>8, <2>1, <2>2
<1> QED
  BY <1>5, <1>9 DEF Inv, Shapes

LEMMA RecordKeepsInv ==
    ASSUME Inv, NEW w \in Worker, RecordFailure(w)
    PROVE  Inv'
<1> DEFINE e == work[w].event
           calc == Calculation("failed", NoAwards, Eligible[e], FALSE)
<1>1. e \in work[w].batch /\ e \in Event
  BY DEF RecordFailure, Inv, WorkersOnBatch, Active, Shapes, WorksOver
<1>2. /\ calculation' = [calculation EXCEPT ![e] = IF @ = NoCalculation THEN calc ELSE @]
      /\ status' = [status EXCEPT ![e] = "failed"]
      /\ work' = [work EXCEPT ![w] = Finished(w)]
      /\ UNCHANGED <<balance, entries>>
  BY DEF RecordFailure
<1>3. calc.status = "failed"
  BY DEF Calculation
<1>4. /\ \E C : calculation' \in [Event -> C]
      /\ status' \in [Event -> EventStatuses]
      /\ CalculatedIsSettled'
      /\ LedgerMatchesCalculation'
  BY <1>1, <1>2, <1>3, RecordKeepsLedger
<1>5. \A f \in Event : status'[f] = IF f = e THEN "failed" ELSE status[f]
  BY <1>1, <1>2 DEF Inv, Shapes
<1>6. WorkersOnBatch' /\ ClaimedOnce' /\ \E T : work' \in [Worker -> WorksOver(T)]
  <2>1. work[w].pc \in Active
    BY DEF RecordFailure, Active
  <2> QED
    BY <1>2, <1>5, <2>1, FinishKeepsClaims
<1> QED
  BY <1>2, <1>4, <1>6 DEF Inv, Shapes

\* A claim marks accepted events, and the worker has them or, if it does not
\* learn of the commit, none.
LEMMA ClaimRow ==
    ASSUME NEW w \in Worker, Claim(w)
    PROVE  \E batch \in SUBSET Event, row \in WorksOver({0}) :
              /\ \A e \in batch : status[e] = "accepted"
              /\ status' = [e \in Event |-> IF e \in batch THEN "processing" ELSE status[e]]
              /\ work' = [work EXCEPT ![w] = row]
              /\ row.batch \subseteq batch /\ row.event = NoEvent /\ row.pc \in {"idle", "next"}
<1>1. PICK locked : LET batch == Oldest(Accepted \ locked, BatchSize) IN
          /\ status' = [e \in Event |-> IF e \in batch THEN "processing" ELSE status[e]]
          /\ Claimed(w, batch)
  BY DEF Claim
<1> DEFINE batch == Oldest(Accepted \ locked, BatchSize)
           claimed == [Idle EXCEPT !.pc = "next", !.batch = batch]
<1>2. batch \in SUBSET Event /\ \A e \in batch : status[e] = "accepted"
  BY DEF Oldest, Accepted
<1>3. /\ status' = [e \in Event |-> IF e \in batch THEN "processing" ELSE status[e]]
      /\ work' = [work EXCEPT ![w] = claimed] \/ work' = [work EXCEPT ![w] = Idle]
  BY <1>1 DEF Claimed
<1> HIDE DEF batch
<1>4. /\ claimed \in WorksOver({0}) /\ claimed.batch = batch
      /\ claimed.pc = "next" /\ claimed.event = NoEvent
  BY <1>2 DEF Idle, WorksOver, PCs
<1>5. /\ Idle \in WorksOver({0}) /\ Idle.batch = {}
      /\ Idle.pc = "idle" /\ Idle.event = NoEvent
  BY DEF Idle, WorksOver, PCs
<1> HIDE DEF claimed
<1> QED BY <1>2, <1>3, <1>4, <1>5

(***************************************************************************)
(* What is accepted is in no batch, so a claim takes what nobody has.      *)
(***************************************************************************)
LEMMA ClaimKeepsInv ==
    ASSUME Inv, NEW w \in Worker, Claim(w)
    PROVE  Inv'
<1>1. PICK batch \in SUBSET Event, row \in WorksOver({0}) :
          /\ \A e \in batch : status[e] = "accepted"
          /\ status' = [e \in Event |-> IF e \in batch THEN "processing" ELSE status[e]]
          /\ work' = [work EXCEPT ![w] = row]
          /\ row.batch \subseteq batch /\ row.event = NoEvent /\ row.pc \in {"idle", "next"}
  BY ClaimRow
<1>2. batch \subseteq Event /\ \A e \in batch : status[e] = "accepted"
  BY <1>1
<1>3. /\ row \in WorksOver({0}) /\ row.batch \subseteq batch
      /\ row.pc \notin Active /\ row.pc # "reverse" /\ row.event = NoEvent
  BY <1>1 DEF Active
<1>4. /\ status' = [e \in Event |-> IF e \in batch THEN "processing" ELSE status[e]]
      /\ work' = [work EXCEPT ![w] = row]
  BY <1>1
<1>5. /\ \E S : work' \in [Worker -> WorksOver(S)]
      /\ \A v \in Worker : work'[v] = IF v = w THEN row ELSE work[v]
  BY <1>3, <1>4, WorkShape DEF Inv
<1>6. UNCHANGED <<balance, entries, calculation>>
  BY DEF Claim
<1>7. Shapes'
  <2>1. status' \in [Event -> EventStatuses]
    BY <1>4 DEF Inv, Shapes, EventStatuses
  <2> QED
    BY <1>5, <1>6, <2>1 DEF Inv, Shapes
<1>8. \A v \in Worker : \A e \in work[v].batch : e \in Event /\ e \notin batch
  <2>1. \A v \in Worker : work[v].batch \subseteq Event
    BY DEF Inv, Shapes, WorksOver
  <2> QED
    BY <1>2, <2>1 DEF Inv, WorkersOnBatch
<1>9. WorkersOnBatch'
  BY <1>2, <1>3, <1>4, <1>5, <1>8 DEF Inv, WorkersOnBatch
<1>10. ClaimedOnce'
  <2>1. ASSUME NEW v \in Worker, NEW e \in work'[v].batch
        PROVE  /\ \A u \in Worker \ {v} : e \notin work'[u].batch
               /\ work'[v].event # e => status'[e] = "processing"
    <3>1. CASE v = w
      BY <1>2, <1>3, <1>4, <1>5, <1>8, <2>1, <3>1
    <3>2. CASE v # w
      <4>1. e \in work[v].batch /\ e \in Event /\ e \notin batch /\ work'[v] = work[v]
        BY <1>5, <1>8, <2>1, <3>2
      <4>2. \A u \in Worker \ {v} : e \notin work[u].batch
        BY <4>1 DEF Inv, ClaimedOnce
      <4>3. status'[e] = status[e]
        BY <1>4, <4>1
      <4> QED
        BY <1>3, <1>5, <4>1, <4>2, <4>3 DEF Inv, ClaimedOnce
    <3> QED
      BY <3>1, <3>2
  <2> QED
    BY <2>1 DEF ClaimedOnce
<1>11. CalculatedIsSettled'
  BY <1>2, <1>4, <1>6 DEF Inv, CalculatedIsSettled
<1>12. LedgerMatchesCalculation'
  BY <1>6 DEF Inv, LedgerMatchesCalculation, Succeeded
<1> QED
  BY <1>7, <1>9, <1>10, <1>11, <1>12 DEF Inv

LEMMA IngestKeepsInv ==
    ASSUME Inv, NEW e \in Event, Ingest(e)
    PROVE  Inv'
<1>1. /\ status[e] = "absent" /\ status' = [status EXCEPT ![e] = "accepted"]
      /\ UNCHANGED <<balance, entries, calculation, usage, usageLock, work>>
  BY DEF Ingest
<1>2. /\ status' \in [Event -> EventStatuses]
      /\ \A f \in Event : status'[f] = IF f = e THEN "accepted" ELSE status[f]
  BY <1>1 DEF Inv, Shapes, EventStatuses
<1>3. Shapes'
  BY <1>1, <1>2 DEF Inv, Shapes
<1>4. \A w \in Worker : \A f \in work[w].batch : f \in Event /\ f # e
  <2>1. \A w \in Worker : work[w].batch \subseteq Event
    BY DEF Inv, Shapes, WorksOver
  <2> QED
    BY <1>1, <2>1 DEF Inv, WorkersOnBatch
<1>5. WorkersOnBatch' /\ ClaimedOnce'
  BY <1>1, <1>2, <1>4 DEF Inv, WorkersOnBatch, ClaimedOnce
<1>6. CalculatedIsSettled' /\ LedgerMatchesCalculation'
  BY <1>1, <1>2 DEF Inv, CalculatedIsSettled, LedgerMatchesCalculation, Succeeded
<1> QED
  BY <1>3, <1>5, <1>6 DEF Inv

-----------------------------------------------------------------------------
(***************************************************************************)
(* The three kinds of success all persist and commit in the same way.      *)
(***************************************************************************)
Success(w) ==
    \E type, calc :
        /\ work[w].pc \in Active
        /\ calc.status = "succeeded"
        /\ type = IF Type[work[w].event] = "purchase" THEN "earn" ELSE "refund"
        /\ PersistSuccess(work[w].event, type, calc)
        /\ Committed(w)

LEMMA CommitsSucceed ==
    ASSUME Inv, NEW w \in Worker,
           CommitPurchase(w) \/ CommitFallbackRefund(w) \/ CommitReversal(w)
    PROVE  Success(w)
<1>1. CASE CommitPurchase(w)
  <2> DEFINE e == work[w].event
             calc == Calculation("succeeded", PurchaseAwards(Basis(e), work[w].first, work[w].used),
                                 Eligible[e], FALSE)
  <2>1. calc.status = "succeeded"
    BY DEF Calculation
  <2>2. work[w].pc \in Active /\ Type[e] = "purchase" /\ PersistSuccess(e, "earn", calc)
        /\ Committed(w)
    BY <1>1 DEF CommitPurchase, Active
  <2> HIDE DEF calc
  <2> QED
    BY <2>1, <2>2 DEF Success
<1>2. CASE CommitFallbackRefund(w)
  <2> DEFINE e == work[w].event
             awards == PurchaseAwards(Basis(e), work[w].first, work[w].used)
             calc == Calculation("succeeded", [bonus |-> -awards.bonus, earn |-> -awards.earn],
                                 Basis(e), TRUE)
  <2>1. calc.status = "succeeded"
    BY DEF Calculation
  <2>2. work[w].pc \in Active /\ Type[e] = "refund" /\ PersistSuccess(e, "refund", calc)
        /\ Committed(w)
    BY <1>2 DEF CommitFallbackRefund, Active
  <2> HIDE DEF calc
  <2> QED
    BY <2>1, <2>2 DEF Success
<1>3. CASE CommitReversal(w)
  <2> DEFINE e == work[w].event
             calc == Reversal(e, work[w].prior)
  <2>1. calc.status = "succeeded"
    BY DEF Reversal, Calculation
  <2>2. work[w].pc = "reverse" /\ PersistSuccess(e, "refund", calc) /\ Committed(w)
    BY <1>3 DEF CommitReversal
  <2>3. Type[e] = "refund"
    BY <2>2 DEF Inv, WorkersOnBatch
  <2> HIDE DEF calc
  <2> QED
    BY <2>1, <2>2, <2>3 DEF Success, Active
<1> QED
  BY <1>1, <1>2, <1>3

LEMMA InvNext == Inv /\ [Next]_vars => Inv'
<1> SUFFICES ASSUME Inv, [Next]_vars PROVE Inv'
  OBVIOUS
<1>1. ASSUME NEW e \in Event, Ingest(e)
      PROVE  Inv'
  BY <1>1, IngestKeepsInv
<1>2. ASSUME NEW w \in Worker, Claim(w)
      PROVE  Inv'
  BY <1>2, ClaimKeepsInv
<1>3. ASSUME NEW w \in Worker, NEW e \in Event, StartPurchaseRules(w, e)
      PROVE  Inv'
  <2> DEFINE b == PriorPurchases(e) = {}
  <2>1. b \in BOOLEAN /\ "limit" \in Active
    BY DEF Active
  <2>2. /\ work[w].pc = "next" /\ e \in work[w].batch
        /\ work' = [work EXCEPT ![w] = [@ EXCEPT !.pc = "limit", !.event = e, !.first = b]]
        /\ UNCHANGED <<balance, entries, status, calculation>>
    BY <1>3 DEF StartPurchaseRules
  <2> HIDE DEF b
  <2> QED
    BY <2>1, <2>2, StartKeepsInv
<1>4. ASSUME NEW w \in Worker, NEW e \in Event, StartReversal(w, e)
      PROVE  Inv'
  <2> DEFINE n == PriorRefundedBasis(e)
  <2>1. "reverse" \in Active
    BY DEF Active
  <2>2. /\ work[w].pc = "next" /\ e \in work[w].batch /\ Type[e] = "refund"
        /\ work' = [work EXCEPT ![w] = [@ EXCEPT !.pc = "reverse", !.event = e, !.prior = n]]
        /\ UNCHANGED <<balance, entries, status, calculation>>
    BY <1>4 DEF StartReversal
  <2> HIDE DEF n
  <2> QED
    BY <2>1, <2>2, StartKeepsInv
<1>5. ASSUME NEW w \in Worker, ReadLimitUsage(w)
      PROVE  Inv'
  BY <1>5, ReadKeepsInv
<1>6. ASSUME NEW w \in Worker,
             CommitPurchase(w) \/ CommitFallbackRefund(w) \/ CommitReversal(w)
      PROVE  Inv'
  BY <1>6, CommitsSucceed, CommitKeepsInv DEF Success
<1>7. ASSUME NEW w \in Worker, RecordFailure(w)
      PROVE  Inv'
  BY <1>7, RecordKeepsInv
<1>8. ASSUME NEW w \in Worker, Fail(w)
      PROVE  Inv'
  BY <1>8, FailKeepsInv
<1>9. ASSUME NEW w \in Worker, LoseFailure(w) \/ Crash(w)
      PROVE  Inv'
  BY <1>9, LeaveKeepsInv
<1>10. CASE UNCHANGED vars
  BY <1>10
  DEF vars, Inv, Shapes, WorkersOnBatch, ClaimedOnce, CalculatedIsSettled,
      LedgerMatchesCalculation, Succeeded
<1> QED
  BY <1>1, <1>2, <1>3, <1>4, <1>5, <1>6, <1>7, <1>8, <1>9, <1>10 DEF Next, Work

THEOREM Invariance == Spec => []Inv
<1> QED
  BY InvInit, InvNext, PTL DEF Spec

(***************************************************************************)
(* However many workers claim at the same time, and wherever they crash,   *)
(* no event is handed out twice.                                           *)
(***************************************************************************)
THEOREM ClaimedOnceAlways == Spec => []ClaimedOnce
<1>1. Inv => ClaimedOnce
  BY DEF Inv
<1> QED
  BY <1>1, Invariance, PTL

(***************************************************************************)
(* The ledger has what the calculations say, under every fault.            *)
(***************************************************************************)
THEOREM LedgerAlwaysMatches == Spec => []LedgerMatchesCalculation
<1>1. Inv => LedgerMatchesCalculation
  BY DEF Inv
<1> QED
  BY <1>1, Invariance, PTL

-----------------------------------------------------------------------------
(***************************************************************************)
(* RewardProcessing implements Outcomes.                                   *)
(***************************************************************************)
LEMMA OutcomeOfCalculation ==
    ASSUME NEW s, NEW calc
    PROVE  LET state == IF s = "absent" THEN "absent"
                        ELSE IF calc.status = "none" THEN "accepted"
                        ELSE IF calc.status = "succeeded" THEN "rewarded" ELSE "refused"
           IN calc.status \in {"none", "succeeded", "failed"} =>
                 Outcome(s, calc) = [state |-> state, points |-> Points(calc.awards)]
<1>1. CASE s = "absent"
  BY <1>1 DEF Outcome
<1>2. CASE s # "absent"
  BY <1>2 DEF Outcome
<1> QED
  BY <1>1, <1>2

LEMMA NoCalculationIsAccepted ==
    ASSUME NEW s
    PROVE  /\ Outcome("absent", NoCalculation) = Outcomes!Stage("absent", 0)
           /\ s # "absent" => Outcome(s, NoCalculation) = Outcomes!Stage("accepted", 0)
<1>1. NoCalculation.status = "none" /\ Points(NoCalculation.awards) = 0
  BY DEF NoCalculation, Calculation, NoAwards, Points
<1> QED
  BY <1>1, OutcomeOfCalculation DEF Outcomes!Stage

LEMMA InitImplements == Init => Outcomes!Init
  BY NoCalculationIsAccepted
  DEF Init, LedgerInit, Zero, Outcomes!Init, outcomeBar, availableBar

LEMMA SuccessRewards ==
    ASSUME Inv, NEW w \in Worker, Success(w)
    PROVE  Outcomes!Next
<1> DEFINE e == work[w].event
<1>1. PICK type, calc :
          /\ work[w].pc \in Active
          /\ calc.status = "succeeded"
          /\ PersistSuccess(e, type, calc)
  BY DEF Success
<1>2. e \in work[w].batch /\ e \in Event /\ status[e] # "absent"
  BY <1>1 DEF Inv, WorkersOnBatch, Shapes, WorksOver
<1> DEFINE points == Points(calc.awards)
           entry == Entry(Member[e], type, e, AvailableDelta(points))
<1>3. /\ calculation[e] = NoCalculation
      /\ calculation' = [calculation EXCEPT ![e] = calc]
      /\ status' = [status EXCEPT ![e] = "processed"]
      /\ IF points = 0 THEN UNCHANGED <<balance, entries>> ELSE PostLedgerEntry(entry)
  BY <1>1 DEF PersistSuccess
<1>4. \A f \in Event : /\ calculation'[f] = IF f = e THEN calc ELSE calculation[f]
                       /\ status'[f] = IF f = e THEN "processed" ELSE status[f]
  BY <1>3 DEF Inv, Shapes
<1>5. Outcome("processed", calc) = Outcomes!Stage("rewarded", points)
  BY <1>1, OutcomeOfCalculation DEF Outcomes!Stage
<1>6. outcomeBar' = [outcomeBar EXCEPT ![e] = Outcomes!Stage("rewarded", points)]
  <2>1. \A f \in Event : outcomeBar'[f] = IF f = e THEN Outcomes!Stage("rewarded", points)
                                          ELSE outcomeBar[f]
    BY <1>4, <1>5 DEF outcomeBar
  <2> QED
    BY <1>2, <2>1 DEF outcomeBar
<1>7. outcomeBar'[e].points = points
  BY <1>2, <1>6 DEF outcomeBar, Outcomes!Stage
<1>8. outcomeBar[e].state = "accepted"
  BY <1>2, <1>3, NoCalculationIsAccepted DEF outcomeBar, Outcomes!Stage
<1>9. availableBar' = IF points = 0 THEN availableBar
                      ELSE [availableBar EXCEPT ![Member[e]] = @ + points]
  <2>1. CASE points = 0
    BY <1>3, <2>1 DEF availableBar
  <2>2. CASE points # 0
    <3>1. balance' = [balance EXCEPT ![Member[e]] = Plus(@, AvailableDelta(points))]
      BY <1>3, <2>2 DEF PostLedgerEntry, Entry
    <3>2. Plus(balance[Member[e]], AvailableDelta(points)).available
            = balance[Member[e]].available + points
      BY DEF Plus, AvailableDelta
    <3>3. Member[e] \in Account /\ \E B : balance \in [Account -> B]
      BY <1>2, InputAssumption DEF Inv, Shapes
    <3>4. \A a \in Account : availableBar'[a] = IF a = Member[e] THEN availableBar[a] + points
                                                ELSE availableBar[a]
      BY <3>1, <3>2, <3>3 DEF availableBar
    <3> QED
      BY <2>2, <3>3, <3>4 DEF availableBar
  <2> QED
    BY <2>1, <2>2
<1> HIDE DEF points
<1>10. Outcomes!Reward(e)
  BY <1>6, <1>7, <1>8, <1>9 DEF Outcomes!Reward
<1> QED
  BY <1>2, <1>10 DEF Outcomes!Next

(***************************************************************************)
(* A recorded failure refuses the event, unless a success was committed of *)
(* which the worker did not learn: then it changes nothing.                *)
(***************************************************************************)
LEMMA FailureRefuses ==
    ASSUME Inv, NEW w \in Worker, RecordFailure(w)
    PROVE  Outcomes!Next \/ UNCHANGED <<outcomeBar, availableBar>>
<1> DEFINE e == work[w].event
           calc == Calculation("failed", NoAwards, Eligible[e], FALSE)
<1>1. /\ e \in Event /\ status[e] # "absent"
  BY DEF RecordFailure, Inv, WorkersOnBatch, Active, Shapes, WorksOver
<1>2. \A f \in Event :
          /\ calculation'[f] = IF f = e /\ calculation[f] = NoCalculation THEN calc
                               ELSE calculation[f]
          /\ status'[f] = IF f = e THEN "failed" ELSE status[f]
  BY DEF RecordFailure, Inv, Shapes
<1>3. UNCHANGED availableBar
  BY DEF RecordFailure, availableBar
<1>4. CASE calculation[e] = NoCalculation
  <2>1. Outcome("failed", calc) = Outcomes!Stage("refused", 0)
    <3>1. calc.status = "failed" /\ Points(calc.awards) = 0
      BY DEF Calculation, NoAwards, Points
    <3> HIDE DEF calc
    <3> QED
      BY <3>1, OutcomeOfCalculation DEF Outcomes!Stage
  <2>2. \A f \in Event : outcomeBar'[f] = IF f = e THEN Outcomes!Stage("refused", 0)
                                          ELSE outcomeBar[f]
    BY <1>2, <1>4, <2>1 DEF outcomeBar
  <2>3. outcomeBar' = [outcomeBar EXCEPT ![e] = Outcomes!Stage("refused", 0)]
    BY <1>1, <2>2 DEF outcomeBar
  <2>4. outcomeBar[e].state = "accepted"
    BY <1>1, <1>4, NoCalculationIsAccepted DEF outcomeBar, Outcomes!Stage
  <2>5. Outcomes!Refuse(e)
    BY <1>3, <2>3, <2>4 DEF Outcomes!Refuse
  <2> QED
    BY <1>1, <2>5 DEF Outcomes!Next
<1>5. CASE calculation[e] # NoCalculation
  <2>1. calculation[e].status \in {"succeeded", "failed"}
    BY <1>1, <1>5 DEF Inv, CalculatedIsSettled
  <2>2. Outcome("failed", calculation[e]) = Outcome(status[e], calculation[e])
    BY <1>1, <2>1, OutcomeOfCalculation
  <2>3. \A f \in Event : outcomeBar'[f] = outcomeBar[f]
    BY <1>2, <1>5, <2>2 DEF outcomeBar
  <2> QED
    BY <1>3, <2>3 DEF outcomeBar
<1> QED
  BY <1>4, <1>5

LEMMA ClaimTakesNoDecision ==
    ASSUME Inv, NEW w \in Worker, Claim(w)
    PROVE  UNCHANGED <<outcomeBar, availableBar>>
<1>1. PICK batch : /\ \A e \in batch : e \in Event /\ status[e] = "accepted"
                   /\ status' = [e \in Event |-> IF e \in batch THEN "processing" ELSE status[e]]
  BY ClaimRow
<1>2. \A e \in batch : calculation[e] = NoCalculation
  BY <1>1 DEF Inv, CalculatedIsSettled
<1>3. UNCHANGED <<balance, calculation>>
  BY DEF Claim
<1>4. \A e \in Event : Outcome(status'[e], calculation[e]) = Outcome(status[e], calculation[e])
  BY <1>1, <1>2, NoCalculationIsAccepted
<1> QED
  BY <1>3, <1>4 DEF outcomeBar, availableBar

LEMMA IngestAccepts ==
    ASSUME Inv, NEW e \in Event, Ingest(e)
    PROVE  Outcomes!Next
<1>1. calculation[e] = NoCalculation
  BY DEF Ingest, Inv, CalculatedIsSettled
<1>2. \A f \in Event : status'[f] = IF f = e THEN "accepted" ELSE status[f]
  BY DEF Ingest, Inv, Shapes
<1>3. \A f \in Event : outcomeBar'[f] = IF f = e THEN Outcomes!Stage("accepted", 0)
                                        ELSE outcomeBar[f]
  BY <1>1, <1>2, NoCalculationIsAccepted DEF outcomeBar, Ingest
<1>4. outcomeBar[e].state = "absent"
  BY <1>1, NoCalculationIsAccepted DEF outcomeBar, Outcomes!Stage, Ingest
<1>5. outcomeBar' = [outcomeBar EXCEPT ![e] = Outcomes!Stage("accepted", 0)]
  BY <1>3 DEF outcomeBar
<1>6. Outcomes!Accept(e)
  BY <1>4, <1>5 DEF Outcomes!Accept, availableBar, Ingest
<1> QED
  BY <1>6 DEF Outcomes!Next

LEMMA StepImplements == Inv /\ [Next]_vars => [Outcomes!Next]_<<outcomeBar, availableBar>>
<1> SUFFICES ASSUME Inv, [Next]_vars
             PROVE  Outcomes!Next \/ UNCHANGED <<outcomeBar, availableBar>>
  OBVIOUS
<1>1. ASSUME UNCHANGED <<balance, status, calculation>>
      PROVE  UNCHANGED <<outcomeBar, availableBar>>
  BY <1>1 DEF outcomeBar, availableBar
<1> QED
  BY <1>1, IngestAccepts, ClaimTakesNoDecision, CommitsSucceed, SuccessRewards, FailureRefuses
  DEF Next, Work, StartPurchaseRules, StartReversal, ReadLimitUsage, Fail, LoseFailure,
      Crash, vars

(***************************************************************************)
(* Whatever fails, is lost or is processed at the same time, an accepted   *)
(* event gets one outcome for good, and its points move with it.           *)
(***************************************************************************)
THEOREM ProcessingImplementsOutcomes == Spec => ImplementsOutcomes
<1> QED
  BY InitImplements, StepImplements, Invariance, PTL
  DEF Spec, ImplementsOutcomes, Outcomes!Spec, Outcomes!vars

-----------------------------------------------------------------------------
(***************************************************************************)
(* What holds under conditions on the faults and the first state: status   *)
(* and calculation agree if no commit is reported as failed, and no member *)
(* exceeds the limit if every usage row exists.                            *)
(***************************************************************************)

(***************************************************************************)
(* How a step of a worker changes what it is doing.  Every other worker's  *)
(* row stays as it is.                                                     *)
(***************************************************************************)
LEMMA RowAfter ==
    ASSUME Shapes, NEW w \in Worker
    PROVE  /\ \A row : work' = [work EXCEPT ![w] = row] =>
                 \A v \in Worker : work'[v] = IF v = w THEN row ELSE work[v]
           /\ work[w].event \in Event \cup {NoEvent}
           /\ work[w].batch \subseteq Event
<1>1. PICK S : work \in [Worker -> WorksOver(S)]
  BY DEF Shapes
<1>2. work[w] \in WorksOver(S)
  BY <1>1
<1> QED
  BY <1>1, <1>2 DEF WorksOver

LEMMA RowFields ==
    ASSUME Shapes, NEW w \in Worker, NEW p, NEW e, NEW b \in BOOLEAN, NEW n
    PROVE  /\ LET row == [work[w] EXCEPT !.pc = p, !.event = e, !.first = b]
              IN row.pc = p /\ row.event = e /\ row.used = work[w].used
           /\ LET row == [work[w] EXCEPT !.pc = p, !.event = e, !.prior = n]
              IN row.pc = p /\ row.event = e
           /\ LET row == [work[w] EXCEPT !.pc = p, !.used = n]
              IN row.pc = p /\ row.event = work[w].event /\ row.used = n
           /\ LET row == [work[w] EXCEPT !.pc = p]
              IN row.pc = p /\ row.event = work[w].event
           /\ LET row == [work[w] EXCEPT !.pc = p, !.used = 0, !.prior = 0, !.first = FALSE]
              IN row.pc = p /\ row.event = work[w].event
<1>1. PICK S : work[w] \in WorksOver(S)
  BY DEF Shapes
<1> QED
  BY <1>1 DEF WorksOver

-----------------------------------------------------------------------------
(***************************************************************************)
(* Without lost acknowledgements the event a worker is on is always still  *)
(* marked processing, so a failure is never recorded over a success.       *)
(***************************************************************************)
Pending == \A w \in Worker : work[w].pc \in Active => status[work[w].event] = "processing"

RecordedInv == Inv /\ Pending /\ OutcomeRecorded

LEMMA RecordedInit == Init => RecordedInv
  BY InvInit
  DEF Init, RecordedInv, Pending, Idle, Active, OutcomeRecorded, SuccessPersistedTogether,
      FailurePersistedTogether, Succeeded, NoCalculation, Calculation

LEMMA QuietKeepsRecorded ==
    ASSUME RecordedInv, NEW w \in Worker, NEW row, work' = [work EXCEPT ![w] = row],
           row.pc \in Active => status[row.event] = "processing",
           UNCHANGED <<status, calculation>>
    PROVE  Pending' /\ OutcomeRecorded'
<1>1. \A v \in Worker : work'[v] = IF v = w THEN row ELSE work[v]
  BY RowAfter DEF RecordedInv, Inv
<1>2. Pending'
  BY <1>1 DEF RecordedInv, Pending
<1> QED
  BY <1>2 DEF RecordedInv, OutcomeRecorded, SuccessPersistedTogether,
      FailurePersistedTogether, Succeeded

(***************************************************************************)
(* A step that settles the event of a worker, and is done with it.         *)
(***************************************************************************)
LEMMA SettlingKeepsRecorded ==
    ASSUME RecordedInv, NEW w \in Worker, work[w].pc \in Active,
           work' = [work EXCEPT ![w] = Finished(w)],
           NEW calc, NEW s,
           \/ calc.status = "succeeded" /\ s = "processed"
           \/ calc.status = "failed" /\ s = "failed",
           calculation' = [calculation EXCEPT ![work[w].event] = calc],
           status' = [status EXCEPT ![work[w].event] = s]
    PROVE  Pending' /\ OutcomeRecorded'
<1> DEFINE e == work[w].event
<1>1. e \in work[w].batch /\ e \in Event
  BY RowAfter DEF RecordedInv, Inv, WorkersOnBatch
<1>2. \A f \in Event : /\ calculation'[f] = IF f = e THEN calc ELSE calculation[f]
                       /\ status'[f] = IF f = e THEN s ELSE status[f]
  BY DEF RecordedInv, Inv, Shapes
<1>3. \A v \in Worker : work'[v] = IF v = w THEN Finished(w) ELSE work[v]
  BY RowAfter DEF RecordedInv, Inv
<1>4. Pending'
  <2>1. ASSUME NEW v \in Worker, work'[v].pc \in Active
        PROVE  status'[work'[v].event] = "processing"
    <3>1. v # w /\ work'[v] = work[v]
      BY <1>3, <2>1, FinishedRow DEF RecordedInv, Inv
    <3>2. work[v].event \in work[v].batch /\ work[v].event \in Event
      BY <2>1, <3>1, RowAfter DEF RecordedInv, Inv, WorkersOnBatch
    <3>3. work[v].event # e
      BY <1>1, <3>1, <3>2 DEF RecordedInv, Inv, ClaimedOnce
    <3> QED
      BY <1>2, <2>1, <3>1, <3>2, <3>3 DEF RecordedInv, Pending
  <2> QED
    BY <2>1 DEF Pending
<1>5. OutcomeRecorded'
  BY <1>2 DEF RecordedInv, OutcomeRecorded, SuccessPersistedTogether,
      FailurePersistedTogether, Succeeded
<1> QED
  BY <1>4, <1>5

LEMMA RecordedNext ==
    "lost_commit_ack" \notin Faults /\ RecordedInv /\ [Next]_vars => RecordedInv'
<1> SUFFICES ASSUME "lost_commit_ack" \notin Faults, RecordedInv, [Next]_vars
             PROVE  Pending' /\ OutcomeRecorded'
  BY InvNext DEF RecordedInv
<1>a. Shapes /\ Inv
  BY DEF RecordedInv, Inv
<1>1. ASSUME NEW e \in Event, Ingest(e)
      PROVE  Pending' /\ OutcomeRecorded'
  <2>1. \A f \in Event : status'[f] = IF f = e THEN "accepted" ELSE status[f]
    BY <1>1, <1>a DEF Ingest, Shapes
  <2>2. status[e] = "absent" /\ UNCHANGED <<calculation, work>>
    BY <1>1 DEF Ingest
  <2>3. \A w \in Worker : work[w].pc \in Active =>
            work[w].event \in Event /\ work[w].event # e
    BY <1>a, <2>2, RowAfter DEF Inv, WorkersOnBatch
  <2> QED
    BY <2>1, <2>2, <2>3
    DEF RecordedInv, Pending, OutcomeRecorded, SuccessPersistedTogether,
        FailurePersistedTogether, Succeeded
<1>2. ASSUME NEW w \in Worker, Claim(w)
      PROVE  Pending' /\ OutcomeRecorded'
  <2>1. PICK batch \in SUBSET Event, row \in WorksOver({0}) :
            /\ \A e \in batch : status[e] = "accepted"
            /\ status' = [e \in Event |-> IF e \in batch THEN "processing" ELSE status[e]]
            /\ work' = [work EXCEPT ![w] = row]
            /\ row.pc \in {"idle", "next"}
    BY <1>2, ClaimRow
  <2>2. \A v \in Worker : work'[v] = IF v = w THEN row ELSE work[v]
    <3>1. work' = [work EXCEPT ![w] = row]
      BY <2>1
    <3> QED
      BY <1>a, <3>1, RowAfter
  <2>3. \A v \in Worker : work[v].pc \in Active => work[v].event \in Event
    BY <1>a, RowAfter DEF Inv, WorkersOnBatch
  <2>4. Pending'
    BY <2>1, <2>2, <2>3 DEF RecordedInv, Pending, Active
  <2>5. UNCHANGED calculation
    BY <1>2 DEF Claim
  <2> QED
    BY <2>1, <2>4, <2>5
    DEF RecordedInv, OutcomeRecorded, SuccessPersistedTogether, FailurePersistedTogether,
        Succeeded
<1>3. ASSUME NEW w \in Worker, NEW e \in Event, StartPurchaseRules(w, e)
      PROVE  Pending' /\ OutcomeRecorded'
  <2> DEFINE b == PriorPurchases(e) = {}
             row == [work[w] EXCEPT !.pc = "limit", !.event = e, !.first = b]
  <2>1. row.event = e
    <3>1. b \in BOOLEAN
      OBVIOUS
    <3> HIDE DEF b
    <3> QED
      BY <1>a, <3>1, RowFields
  <2>2. status[e] = "processing"
    <3>1. work[w].event = NoEvent
      BY <1>3, <1>a DEF StartPurchaseRules, Inv, WorkersOnBatch, Active
    <3> QED
      BY <1>3, <1>a, <3>1, EventAssumption DEF StartPurchaseRules, Inv, ClaimedOnce
  <2>3. work' = [work EXCEPT ![w] = row] /\ UNCHANGED <<status, calculation>>
    BY <1>3 DEF StartPurchaseRules
  <2> HIDE DEF row
  <2> QED
    BY <2>1, <2>2, <2>3, QuietKeepsRecorded
<1>4. ASSUME NEW w \in Worker, NEW e \in Event, StartReversal(w, e)
      PROVE  Pending' /\ OutcomeRecorded'
  <2> DEFINE n == PriorRefundedBasis(e)
             row == [work[w] EXCEPT !.pc = "reverse", !.event = e, !.prior = n]
  <2>1. row.event = e
    <3> HIDE DEF n
    <3> QED
      BY <1>a, RowFields
  <2>2. status[e] = "processing"
    <3>1. work[w].event = NoEvent
      BY <1>4, <1>a DEF StartReversal, Inv, WorkersOnBatch, Active
    <3> QED
      BY <1>4, <1>a, <3>1, EventAssumption DEF StartReversal, Inv, ClaimedOnce
  <2>3. work' = [work EXCEPT ![w] = row] /\ UNCHANGED <<status, calculation>>
    BY <1>4 DEF StartReversal
  <2> HIDE DEF row
  <2> QED
    BY <2>1, <2>2, <2>3, QuietKeepsRecorded
<1>5. ASSUME NEW w \in Worker, ReadLimitUsage(w)
      PROVE  Pending' /\ OutcomeRecorded'
  <2> DEFINE n == usage[Member[work[w].event]].points
             row == [work[w] EXCEPT !.pc = "award", !.used = n]
  <2>1. row.event = work[w].event
    BY <1>a, RowFields
  <2>2. status[work[w].event] = "processing"
    BY <1>5 DEF ReadLimitUsage, RecordedInv, Pending, Active
  <2>3. work' = [work EXCEPT ![w] = row] /\ UNCHANGED <<status, calculation>>
    BY <1>5 DEF ReadLimitUsage
  <2> HIDE DEF row
  <2> QED
    BY <2>1, <2>2, <2>3, QuietKeepsRecorded
<1>6. ASSUME NEW w \in Worker,
             CommitPurchase(w) \/ CommitFallbackRefund(w) \/ CommitReversal(w)
      PROVE  Pending' /\ OutcomeRecorded'
  <2>1. PICK type, calc :
            /\ work[w].pc \in Active
            /\ calc.status = "succeeded"
            /\ PersistSuccess(work[w].event, type, calc)
            /\ Committed(w)
    BY <1>6, <1>a, CommitsSucceed DEF Success
  <2>2. work' = [work EXCEPT ![w] = Finished(w)]
    BY <2>1 DEF Committed
  <2> QED
    BY <2>1, <2>2, SettlingKeepsRecorded DEF PersistSuccess
<1>7. ASSUME NEW w \in Worker, RecordFailure(w)
      PROVE  Pending' /\ OutcomeRecorded'
  <2> DEFINE e == work[w].event
             calc == Calculation("failed", NoAwards, Eligible[e], FALSE)
  <2>1. work[w].pc \in Active
    BY <1>7 DEF RecordFailure, Active
  <2>2. e \in Event /\ status[e] = "processing"
    BY <1>a, <2>1, RowAfter DEF RecordedInv, Inv, Pending, WorkersOnBatch
  <2>3. calculation[e] = NoCalculation
    BY <1>a, <2>2 DEF Inv, CalculatedIsSettled
  <2>4. calc.status = "failed"
    BY DEF Calculation
  <2>5. /\ calculation' = [calculation EXCEPT ![e] = calc]
        /\ status' = [status EXCEPT ![e] = "failed"]
        /\ work' = [work EXCEPT ![w] = Finished(w)]
    BY <1>7, <2>3 DEF RecordFailure
  <2> HIDE DEF calc
  <2> QED
    BY <2>1, <2>4, <2>5, SettlingKeepsRecorded
<1>8. ASSUME NEW w \in Worker, Fail(w)
      PROVE  Pending' /\ OutcomeRecorded'
  <2> DEFINE row == [work[w] EXCEPT !.pc = "failing", !.used = 0, !.prior = 0, !.first = FALSE]
  <2>1. row.event = work[w].event
    BY <1>a, RowFields
  <2>2. status[work[w].event] = "processing"
    BY <1>8 DEF Fail, RecordedInv, Pending, Active
  <2>3. work' = [work EXCEPT ![w] = row] /\ UNCHANGED <<status, calculation>>
    BY <1>8 DEF Fail
  <2> HIDE DEF row
  <2> QED
    BY <2>1, <2>2, <2>3, QuietKeepsRecorded
<1>9. ASSUME NEW w \in Worker, LoseFailure(w) \/ Crash(w)
      PROVE  Pending' /\ OutcomeRecorded'
  <2>1. PICK row : /\ work' = [work EXCEPT ![w] = row] /\ row.pc \notin Active
                   /\ UNCHANGED <<status, calculation>>
    <3>1. Finished(w).pc \notin Active /\ Idle.pc \notin Active
      BY <1>a, FinishedRow DEF Idle, Active
    <3> QED
      BY <1>9, <3>1 DEF LoseFailure, Crash
  <2> QED
    BY <2>1, QuietKeepsRecorded
<1>10. CASE UNCHANGED vars
  BY <1>10
  DEF vars, RecordedInv, Pending, OutcomeRecorded, SuccessPersistedTogether,
      FailurePersistedTogether, Succeeded
<1> QED
  BY <1>1, <1>2, <1>3, <1>4, <1>5, <1>6, <1>7, <1>8, <1>9, <1>10 DEF Next, Work

(***************************************************************************)
(* Status and calculation of an event agree at any moment, with crashes    *)
(* and failures that are not recorded, if a commit that took effect is     *)
(* never reported as failed.                                               *)
(***************************************************************************)
THEOREM OutcomeAlwaysRecorded ==
    "lost_commit_ack" \notin Faults => (Spec => []OutcomeRecorded)
<1> SUFFICES ASSUME "lost_commit_ack" \notin Faults PROVE Spec => []OutcomeRecorded
  OBVIOUS
<1>1. RecordedInv /\ [Next]_vars => RecordedInv'
  BY RecordedNext
<1>2. RecordedInv => OutcomeRecorded
  BY DEF RecordedInv
<1> QED
  BY RecordedInit, <1>1, <1>2, PTL DEF Spec

-----------------------------------------------------------------------------
(***************************************************************************)
(* Once the usage row of a member exists, an award is computed from what   *)
(* the row says while the worker holds its lock, and the lock is held      *)
(* until the award is committed or given up.                               *)
(***************************************************************************)
AwardsLocked ==
    \A w \in Worker : work[w].pc = "award" =>
        /\ work[w].used \in Nat
        /\ Basis(work[w].event) > 0 =>
              /\ usageLock[Member[work[w].event]] = w
              /\ work[w].used = usage[Member[work[w].event]].points

UsageKnown ==
    /\ usage \in [Account -> Usages]
    /\ usageLock \in [Account -> Worker \cup {NoWorker}]
    /\ \A a \in Account : usage[a].exists

LimitInv == Inv /\ UsageKnown /\ LimitRespected /\ AwardsLocked

LEMMA BasisType ==
    ASSUME NEW e \in Event
    PROVE  Basis(e) \in Int /\ Member[e] \in Account
  BY InputAssumption DEF Basis, RefundBasis

(***************************************************************************)
(* What an award may take of the limit.                                    *)
(***************************************************************************)
LEMMA PointsForBasisNat ==
    ASSUME NEW basis \in Int
    PROVE  PointsForBasis(basis) \in Nat /\ (basis <= 0 => PointsForBasis(basis) = 0)
<1>1. Unit \in Nat \ {0}
  BY RuleAssumption
<1>2. CASE basis <= 0
  BY <1>2 DEF PointsForBasis
<1>3. CASE basis > 0
  <2>1. basis \div Unit \in Int /\ basis \div Unit >= 0
    BY <1>1, <1>3, Z3
  <2> QED
    BY <1>3, <2>1 DEF PointsForBasis
<1> QED
  BY <1>2, <1>3

LEMMA EarnWithinLimit ==
    ASSUME NEW basis \in Int, NEW first, NEW used \in Nat
    PROVE  LET earn == PurchaseAwards(basis, first, used).earn
           IN /\ earn \in Nat
              /\ basis <= 0 => earn = 0
              /\ used <= MaxPoints => used + earn <= MaxPoints
<1>1. MaxPoints \in Nat
  BY RuleAssumption
<1>2. PointsForBasis(basis) \in Nat /\ (basis <= 0 => PointsForBasis(basis) = 0)
  BY PointsForBasisNat
<1>3. PurchaseAwards(basis, first, used).earn
        = Smaller(PointsForBasis(basis), Larger(0, MaxPoints - used))
  BY DEF PurchaseAwards
<1> QED
  BY <1>1, <1>2, <1>3 DEF Smaller, Larger

LEMMA LimitInit ==
    (\A a \in Account : PriorUsage[a].exists /\ PriorUsage[a].points <= MaxPoints)
        /\ Init => LimitInv
  BY InvInit, RuleAssumption
  DEF Init, LimitInv, UsageKnown, LimitRespected, AwardsLocked, Idle

(***************************************************************************)
(* A step that computes no award, and frees at most the locks of its own.  *)
(***************************************************************************)
LEMMA OtherStepKeepsLimit ==
    ASSUME LimitInv, NEW w \in Worker, NEW row, work' = [work EXCEPT ![w] = row],
           row.pc # "award", UNCHANGED usage, usageLock' = usageLock \/ usageLock' = Unlock(w)
    PROVE  UsageKnown' /\ LimitRespected' /\ AwardsLocked'
<1>1. \A v \in Worker : work'[v] = IF v = w THEN row ELSE work[v]
  BY RowAfter DEF LimitInv, Inv
<1>2. /\ usageLock' \in [Account -> Worker \cup {NoWorker}]
      /\ \A a \in Account : usageLock[a] # w => usageLock'[a] = usageLock[a]
  BY DEF LimitInv, UsageKnown, Unlock
<1>3. UsageKnown' /\ LimitRespected'
  BY <1>2 DEF LimitInv, UsageKnown, LimitRespected
<1>4. AwardsLocked'
  <2> SUFFICES ASSUME NEW v \in Worker, work'[v].pc = "award"
               PROVE  /\ work'[v].used \in Nat
                      /\ Basis(work'[v].event) > 0 =>
                            /\ usageLock'[Member[work'[v].event]] = v
                            /\ work'[v].used = usage[Member[work'[v].event]].points
    BY DEF AwardsLocked
  <2>1. v # w /\ work'[v] = work[v]
    BY <1>1
  <2>2. work[v].event \in Event
    BY <2>1, RowAfter DEF LimitInv, Inv, WorkersOnBatch, Active
  <2>3. Member[work[v].event] \in Account
    BY <2>2, BasisType
  <2> QED
    BY <1>2, <2>1, <2>3 DEF LimitInv, AwardsLocked
<1> QED
  BY <1>3, <1>4

LEMMA ReadKeepsLimit ==
    ASSUME LimitInv, NEW w \in Worker, ReadLimitUsage(w)
    PROVE  UsageKnown' /\ LimitRespected' /\ AwardsLocked'
<1> DEFINE e == work[w].event
           a == Member[e]
           n == usage[a].points
           row == [work[w] EXCEPT !.pc = "award", !.used = n]
<1>1. e \in Event /\ a \in Account /\ Basis(e) \in Int
  <2>1. e \in Event
    BY RowAfter DEF ReadLimitUsage, LimitInv, Inv, WorkersOnBatch, Active
  <2> QED
    BY <2>1, BasisType
<1>2. row.event = e /\ row.used = n
  BY RowFields DEF LimitInv, Inv
<1>3. work' = [work EXCEPT ![w] = row] /\ UNCHANGED usage
  BY DEF ReadLimitUsage
<1> HIDE DEF row
<1>4. \A v \in Worker : work'[v] = IF v = w THEN row ELSE work[v]
  BY <1>3, RowAfter DEF LimitInv, Inv
<1>5. n \in Nat
  BY <1>1 DEF LimitInv, UsageKnown, Usages
<1>6. /\ usageLock' \in [Account -> Worker \cup {NoWorker}]
      /\ \A b \in Account : usageLock[b] # NoWorker => usageLock'[b] = usageLock[b]
      /\ Basis(e) > 0 => usageLock'[a] = w
  BY <1>1 DEF ReadLimitUsage, LimitInv, UsageKnown
<1>7. UsageKnown' /\ LimitRespected'
  BY <1>3, <1>6 DEF LimitInv, UsageKnown, LimitRespected
<1>8. AwardsLocked'
  <2> SUFFICES ASSUME NEW v \in Worker, work'[v].pc = "award"
               PROVE  /\ work'[v].used \in Nat
                      /\ Basis(work'[v].event) > 0 =>
                            /\ usageLock'[Member[work'[v].event]] = v
                            /\ work'[v].used = usage[Member[work'[v].event]].points
    BY <1>3 DEF AwardsLocked
  <2>1. CASE v = w
    BY <1>2, <1>4, <1>5, <1>6, <2>1
  <2>2. CASE v # w
    <3>1. work'[v] = work[v]
      BY <1>4, <2>2
    <3>2. Member[work[v].event] \in Account
      BY <3>1, RowAfter, BasisType DEF LimitInv, Inv, WorkersOnBatch, Active
    <3> QED
      BY <1>6, <3>1, <3>2, WorkerAssumption DEF LimitInv, AwardsLocked
  <2> QED
    BY <2>1, <2>2
<1> QED
  BY <1>7, <1>8

(***************************************************************************)
(* A purchase adds to the usage it has read, because the row is locked.    *)
(***************************************************************************)
LEMMA PurchaseKeepsLimit ==
    ASSUME LimitInv, NEW w \in Worker, CommitPurchase(w)
    PROVE  UsageKnown' /\ LimitRespected' /\ AwardsLocked'
<1> DEFINE e == work[w].event
           a == Member[e]
           earn == PurchaseAwards(Basis(e), work[w].first, work[w].used).earn
<1>1. work[w].pc = "award"
  BY DEF CommitPurchase
<1>2. e \in Event /\ a \in Account /\ Basis(e) \in Int
  <2>1. e \in Event
    BY <1>1, RowAfter DEF LimitInv, Inv, WorkersOnBatch, Active
  <2> QED
    BY <2>1, BasisType
<1>3. /\ work[w].used \in Nat
      /\ Basis(e) > 0 => usageLock[a] = w /\ work[w].used = usage[a].points
  BY <1>1 DEF LimitInv, AwardsLocked
<1>4. /\ earn \in Nat
      /\ Basis(e) <= 0 => earn = 0
      /\ work[w].used <= MaxPoints => work[w].used + earn <= MaxPoints
  BY <1>2, <1>3, EarnWithinLimit
<1>5. /\ usage' = IF earn = 0 THEN usage
                  ELSE [usage EXCEPT ![a] = [exists |-> TRUE, points |-> @.points + earn]]
      /\ usageLock' = Unlock(w)
      /\ Committed(w)
  BY DEF CommitPurchase, CommitLimitUsage
<1> HIDE DEF earn
<1>6. earn # 0 => Basis(e) > 0 /\ usageLock[a] = w /\ work[w].used = usage[a].points
  BY <1>2, <1>3, <1>4
<1>7. usage[a] \in Usages /\ usage[a].points \in Nat /\ usage[a].points <= MaxPoints
  BY <1>2 DEF LimitInv, UsageKnown, Usages, LimitRespected
<1>8. /\ usage' \in [Account -> Usages]
      /\ \A b \in Account : usage'[b].exists /\ usage'[b].points <= MaxPoints
      /\ \A b \in Account : b # a \/ earn = 0 => usage'[b] = usage[b]
  <2>1. CASE earn = 0
    BY <1>5, <2>1 DEF LimitInv, UsageKnown, LimitRespected
  <2>2. CASE earn # 0
    <3> DEFINE new == [exists |-> TRUE, points |-> usage[a].points + earn]
    <3>1. new \in Usages /\ new.exists /\ new.points <= MaxPoints
      BY <1>4, <1>6, <1>7, <2>2 DEF Usages
    <3>2. usage' = [usage EXCEPT ![a] = new]
      BY <1>5, <2>2
    <3> HIDE DEF new
    <3> QED
      BY <1>2, <2>2, <3>1, <3>2 DEF LimitInv, UsageKnown, LimitRespected
  <2> QED
    BY <2>1, <2>2
<1>9. /\ usageLock' \in [Account -> Worker \cup {NoWorker}]
      /\ \A b \in Account : usageLock[b] # w => usageLock'[b] = usageLock[b]
  BY <1>5 DEF LimitInv, UsageKnown, Unlock
<1>10. UsageKnown' /\ LimitRespected'
  BY <1>8, <1>9 DEF UsageKnown, LimitRespected
<1>11. \A v \in Worker : v = w => work'[v].pc # "award"
  <2>1. Finished(w).pc # "award"
    BY DEF Finished, Idle
  <2>2. [work[w] EXCEPT !.pc = "failing"].pc = "failing"
    BY RowFields DEF LimitInv, Inv
  <2>3. \/ work' = [work EXCEPT ![w] = Finished(w)]
        \/ work' = [work EXCEPT ![w] = [work[w] EXCEPT !.pc = "failing"]]
    BY <1>5 DEF Committed
  <2>a. Shapes
    BY DEF LimitInv, Inv
  <2>b. \A row : work' = [work EXCEPT ![w] = row] => work'[w] = row
    BY <2>a, RowAfter
  <2>4. CASE work' = [work EXCEPT ![w] = Finished(w)]
    <3>1. work'[w] = Finished(w)
      BY <2>4, <2>b
    <3> QED
      BY <2>1, <3>1
  <2>5. CASE work' = [work EXCEPT ![w] = [work[w] EXCEPT !.pc = "failing"]]
    <3>1. work'[w] = [work[w] EXCEPT !.pc = "failing"]
      BY <2>5, <2>b
    <3> QED
      BY <2>2, <3>1
  <2> QED
    BY <2>3, <2>4, <2>5
<1>12. \A v \in Worker \ {w} : work'[v] = work[v]
  BY <1>5, RowAfter DEF Committed, LimitInv, Inv
<1>13. AwardsLocked'
  <2> SUFFICES ASSUME NEW v \in Worker, work'[v].pc = "award"
               PROVE  /\ work'[v].used \in Nat
                      /\ Basis(work'[v].event) > 0 =>
                            /\ usageLock'[Member[work'[v].event]] = v
                            /\ work'[v].used = usage'[Member[work'[v].event]].points
    BY DEF AwardsLocked
  <2>1. v # w /\ work'[v] = work[v]
    BY <1>11, <1>12
  <2>2. Member[work[v].event] \in Account
    BY <2>1, RowAfter, BasisType DEF LimitInv, Inv, WorkersOnBatch, Active
  <2>3. /\ work[v].used \in Nat
        /\ Basis(work[v].event) > 0 => /\ usageLock[Member[work[v].event]] = v
                                       /\ work[v].used = usage[Member[work[v].event]].points
    BY <2>1 DEF LimitInv, AwardsLocked
  <2>4. Basis(work[v].event) > 0 => Member[work[v].event] # a \/ earn = 0
    BY <1>6, <2>1, <2>3
  <2> QED
    BY <1>8, <1>9, <2>1, <2>2, <2>3, <2>4
<1> QED
  BY <1>10, <1>13

LEMMA LimitNext == LimitInv /\ [Next]_vars => LimitInv'
<1> SUFFICES ASSUME LimitInv, [Next]_vars
             PROVE  UsageKnown' /\ LimitRespected' /\ AwardsLocked'
  BY InvNext DEF LimitInv
<1>a. Shapes /\ Inv
  BY DEF LimitInv, Inv
<1>1. CASE UNCHANGED <<usage, usageLock, work>>
  BY <1>1 DEF LimitInv, UsageKnown, LimitRespected, AwardsLocked
<1>2. ASSUME NEW w \in Worker, Claim(w)
      PROVE  UsageKnown' /\ LimitRespected' /\ AwardsLocked'
  <2>1. PICK row : work' = [work EXCEPT ![w] = row] /\ row.pc \in {"idle", "next"}
    BY <1>2, ClaimRow
  <2>2. row.pc # "award"
    BY <2>1
  <2> QED
    BY <1>2, <2>1, <2>2, OtherStepKeepsLimit DEF Claim
<1>3. ASSUME NEW w \in Worker, NEW e \in Event, StartPurchaseRules(w, e)
      PROVE  UsageKnown' /\ LimitRespected' /\ AwardsLocked'
  <2> DEFINE b == PriorPurchases(e) = {}
             row == [work[w] EXCEPT !.pc = "limit", !.event = e, !.first = b]
  <2>1. row.pc # "award"
    <3>1. b \in BOOLEAN
      OBVIOUS
    <3> HIDE DEF b
    <3> QED
      BY <1>a, <3>1, RowFields
  <2>2. work' = [work EXCEPT ![w] = row] /\ UNCHANGED <<usage, usageLock>>
    BY <1>3 DEF StartPurchaseRules
  <2> HIDE DEF row
  <2> QED
    BY <2>1, <2>2, OtherStepKeepsLimit
<1>4. ASSUME NEW w \in Worker, NEW e \in Event, StartReversal(w, e)
      PROVE  UsageKnown' /\ LimitRespected' /\ AwardsLocked'
  <2> DEFINE n == PriorRefundedBasis(e)
             row == [work[w] EXCEPT !.pc = "reverse", !.event = e, !.prior = n]
  <2>1. row.pc # "award"
    <3> HIDE DEF n
    <3> QED
      BY <1>a, RowFields
  <2>2. work' = [work EXCEPT ![w] = row] /\ UNCHANGED <<usage, usageLock>>
    BY <1>4 DEF StartReversal
  <2> HIDE DEF row
  <2> QED
    BY <2>1, <2>2, OtherStepKeepsLimit
<1>5. ASSUME NEW w \in Worker,
             \/ CommitFallbackRefund(w) \/ CommitReversal(w)
             \/ RecordFailure(w) \/ LoseFailure(w) \/ Fail(w) \/ Crash(w)
      PROVE  UsageKnown' /\ LimitRespected' /\ AwardsLocked'
  <2>1. /\ UNCHANGED usage
        /\ usageLock' = usageLock \/ usageLock' = Unlock(w)
    BY <1>5
    DEF CommitFallbackRefund, CommitReversal, RecordFailure, LoseFailure, Fail, Crash
  <2>2. PICK row :
            /\ work' = [work EXCEPT ![w] = row]
            /\ row \in {Finished(w), Idle, [work[w] EXCEPT !.pc = "failing"],
                        [work[w] EXCEPT !.pc = "failing", !.used = 0, !.prior = 0, !.first = FALSE]}
    BY <1>5
    DEF CommitFallbackRefund, CommitReversal, RecordFailure, LoseFailure, Fail, Crash, Committed
  <2>3. row.pc # "award"
    <3>1. Finished(w).pc # "award" /\ Idle.pc # "award"
      BY DEF Finished, Idle
    <3>2. [work[w] EXCEPT !.pc = "failing"].pc # "award"
      BY <1>a, RowFields
    <3>3. [work[w] EXCEPT !.pc = "failing", !.used = 0, !.prior = 0, !.first = FALSE].pc # "award"
      BY <1>a, RowFields
    <3> QED
      BY <2>2, <3>1, <3>2, <3>3
  <2> QED
    BY <2>1, <2>2, <2>3, OtherStepKeepsLimit
<1>6. ASSUME NEW e \in Event, Ingest(e)
      PROVE  UNCHANGED <<usage, usageLock, work>>
  BY <1>6 DEF Ingest
<1>7. CASE UNCHANGED vars
  BY <1>1, <1>7 DEF vars
<1> QED
  BY <1>1, <1>2, <1>3, <1>4, <1>5, <1>6, <1>7, ReadKeepsLimit, PurchaseKeepsLimit
  DEF Next, Work

(***************************************************************************)
(* No member exceeds the limit, whatever crashes or fails, once the usage  *)
(* row of every member exists.  The first award of a member, which locks   *)
(* nothing, is the case the condition leaves out.                          *)
(***************************************************************************)
THEOREM LimitHoldsOnceUsed ==
    (\A a \in Account : PriorUsage[a].exists /\ PriorUsage[a].points <= MaxPoints)
        => (Spec => []LimitRespected)
<1> SUFFICES ASSUME \A a \in Account : PriorUsage[a].exists /\ PriorUsage[a].points <= MaxPoints
             PROVE  Spec => []LimitRespected
  OBVIOUS
<1>1. Init => LimitInv
  BY LimitInit
<1>2. LimitInv => LimitRespected
  BY DEF LimitInv
<1> QED
  BY <1>1, <1>2, LimitNext, PTL DEF Spec

-----------------------------------------------------------------------------
(***************************************************************************)
(* With one worker, what a calculation has read of the member's purchases  *)
(* is still so when it is committed: a worker on its way to an award with  *)
(* the first purchase bonus has a member without processed purchases.      *)
(***************************************************************************)
First(row) == row.pc \in {"limit", "award"} /\ row.first

FirstKnown == \A w \in Worker : First(work[w]) => PriorPurchases(work[w].event) = {}

BonusInv == RecordedInv /\ FirstKnown /\ FirstBonusOnce

LEMMA BonusInit == Init => BonusInv
  BY RecordedInit
  DEF Init, BonusInv, FirstKnown, First, Idle, FirstBonusOnce, Purchases, Succeeded,
      NoCalculation, Calculation

\* A step that processes no purchase, and leaves the worker with a row that knows
\* of none.
LEMMA QuietKeepsFirst ==
    ASSUME BonusInv, NEW w \in Worker, NEW row, work' = [work EXCEPT ![w] = row],
           First(row) => PriorPurchases(row.event) = {},
           \A p \in Event : status'[p] = "processed" => status[p] = "processed"
    PROVE  FirstKnown'
<1>a. Shapes
  BY DEF BonusInv, RecordedInv, Inv
<1>1. \A v \in Worker : work'[v] = IF v = w THEN row ELSE work[v]
  BY <1>a, RowAfter
<1>2. \A e : PriorPurchases(e) = {} => PriorPurchases(e)' = {}
  BY DEF PriorPurchases
<1> QED
  BY <1>1, <1>2 DEF BonusInv, FirstKnown

LEMMA CommitKeepsBonus ==
    ASSUME "lost_commit_ack" \notin Faults, BonusInv, \A v, w \in Worker : v = w,
           NEW w \in Worker, CommitPurchase(w) \/ CommitFallbackRefund(w) \/ CommitReversal(w)
    PROVE  FirstKnown' /\ FirstBonusOnce'
<1> DEFINE e == work[w].event
<1>1. Inv /\ Shapes /\ OutcomeRecorded
  BY DEF BonusInv, RecordedInv, Inv
<1>2. work[w].pc \in Active /\ Committed(w)
  BY DEF CommitPurchase, CommitFallbackRefund, CommitReversal, Active
<1>3. e \in Event
  BY <1>1, <1>2, RowAfter DEF Inv, WorkersOnBatch
<1>4. FirstKnown'
  <2>1. work' = [work EXCEPT ![w] = Finished(w)]
    BY <1>2 DEF Committed
  <2>2. work'[w] = Finished(w)
    BY <1>1, <2>1 DEF Shapes
  <2> QED
    BY <1>1, <2>2, FinishedRow DEF FirstKnown, First, Active
<1>5. CASE CommitPurchase(w)
  <2> DEFINE awards == PurchaseAwards(Basis(e), work[w].first, work[w].used)
             calc == Calculation("succeeded", awards, Eligible[e], FALSE)
  <2>1. calculation' = [calculation EXCEPT ![e] = calc] /\ work[w].pc = "award"
    BY <1>5 DEF CommitPurchase, PersistSuccess
  <2>2. calc.awards.bonus # 0 => First(work[w])
    BY <2>1 DEF Calculation, PurchaseAwards, First
  <2> HIDE DEF calc
  <2>3. \A f \in Event : calculation'[f] = IF f = e THEN calc ELSE calculation[f]
    BY <1>1, <2>1 DEF Shapes
  <2>4. First(work[w]) => \A f \in Event \ {e} :
            Type[f] = "purchase" /\ Member[f] = Member[e] => calculation[f].status # "succeeded"
    BY <1>1 DEF BonusInv, FirstKnown, PriorPurchases, OutcomeRecorded,
                SuccessPersistedTogether, Succeeded
  <2> QED
    BY <1>3, <1>4, <2>2, <2>3, <2>4 DEF BonusInv, FirstBonusOnce, Purchases, Succeeded
<1>6. CASE CommitFallbackRefund(w) \/ CommitReversal(w)
  <2>1. Type[e] = "refund"
    BY <1>1, <1>6 DEF CommitFallbackRefund, CommitReversal, Inv, WorkersOnBatch
  <2>2. \A f \in Event : Type[f] = "purchase" => calculation'[f] = calculation[f]
    <3>1. PICK calc : calculation' = [calculation EXCEPT ![e] = calc]
      BY <1>6 DEF CommitFallbackRefund, CommitReversal, PersistSuccess
    <3> QED
      BY <1>1, <2>1, <3>1 DEF Shapes
  <2> QED
    BY <1>4, <2>2 DEF BonusInv, FirstBonusOnce, Purchases, Succeeded
<1> QED
  BY <1>5, <1>6

LEMMA BonusNext ==
    ASSUME "lost_commit_ack" \notin Faults, BonusInv, \A v, w \in Worker : v = w, [Next]_vars
    PROVE  BonusInv'
<1> SUFFICES FirstKnown' /\ FirstBonusOnce'
  BY RecordedNext DEF BonusInv
<1>a. Shapes /\ Inv /\ FirstKnown
  BY DEF BonusInv, RecordedInv, Inv
<1>b. ASSUME UNCHANGED calculation PROVE FirstBonusOnce'
  BY <1>b DEF BonusInv, FirstBonusOnce, Purchases, Succeeded
<1>1. ASSUME NEW e \in Event, Ingest(e) PROVE FirstKnown' /\ FirstBonusOnce'
  <2>1. \A p \in Event : status'[p] = "processed" => status[p] = "processed"
    BY <1>1, <1>a DEF Ingest, Shapes
  <2>2. UNCHANGED <<work, calculation>>
    BY <1>1 DEF Ingest
  <2> QED
    BY <1>a, <1>b, <2>1, <2>2 DEF FirstKnown, PriorPurchases
<1>2. ASSUME NEW w \in Worker, Claim(w) PROVE FirstKnown' /\ FirstBonusOnce'
  <2>1. PICK batch \in SUBSET Event, row \in WorksOver({0}) :
            /\ status' = [e \in Event |-> IF e \in batch THEN "processing" ELSE status[e]]
            /\ work' = [work EXCEPT ![w] = row]
            /\ row.pc \in {"idle", "next"}
    BY <1>2, ClaimRow
  <2>2. ~First(row) /\ work' = [work EXCEPT ![w] = row]
    BY <2>1 DEF First
  <2>3. \A p \in Event : status'[p] = "processed" => status[p] = "processed"
    BY <2>1
  <2>4. UNCHANGED calculation
    BY <1>2 DEF Claim
  <2> QED
    BY <1>b, <2>2, <2>3, <2>4, QuietKeepsFirst
<1>3. ASSUME NEW w \in Worker, NEW e \in Event, StartPurchaseRules(w, e)
      PROVE  FirstKnown' /\ FirstBonusOnce'
  <2> DEFINE b == PriorPurchases(e) = {}
             row == [work[w] EXCEPT !.pc = "limit", !.event = e, !.first = b]
  <2>1. row.event = e /\ row.first = b
    <3>1. PICK S : work[w] \in WorksOver(S)
      BY <1>a DEF Shapes
    <3>2. b \in BOOLEAN
      OBVIOUS
    <3> HIDE DEF b
    <3> QED
      BY <3>1, <3>2 DEF WorksOver
  <2>2. work' = [work EXCEPT ![w] = row] /\ UNCHANGED <<status, calculation>>
    BY <1>3 DEF StartPurchaseRules
  <2> HIDE DEF row
  <2>3. First(row) => PriorPurchases(row.event) = {}
    BY <2>1 DEF First
  <2> QED
    BY <1>b, <2>2, <2>3, QuietKeepsFirst
<1>4. ASSUME NEW w \in Worker, ReadLimitUsage(w) PROVE FirstKnown' /\ FirstBonusOnce'
  <2> DEFINE n == usage[Member[work[w].event]].points
             row == [work[w] EXCEPT !.pc = "award", !.used = n]
  <2>1. row.event = work[w].event /\ row.first = work[w].first
    <3>1. PICK S : work[w] \in WorksOver(S)
      BY <1>a DEF Shapes
    <3> QED
      BY <3>1 DEF WorksOver
  <2>2. work' = [work EXCEPT ![w] = row] /\ UNCHANGED <<status, calculation>>
        /\ work[w].pc = "limit"
    BY <1>4 DEF ReadLimitUsage
  <2> HIDE DEF row
  <2>3. First(row) => PriorPurchases(row.event) = {}
    BY <1>a, <2>1, <2>2 DEF First, FirstKnown
  <2> QED
    BY <1>b, <2>2, <2>3, QuietKeepsFirst
<1>5. ASSUME NEW w \in Worker,
             (\E e \in Event : StartReversal(w, e)) \/ Fail(w) \/ LoseFailure(w) \/ Crash(w)
      PROVE  FirstKnown' /\ FirstBonusOnce'
  <2>1. PICK row : work' = [work EXCEPT ![w] = row] /\ row.pc \notin {"limit", "award"}
    <3>1. Finished(w).pc \notin Active /\ Idle.pc = "idle"
      BY <1>a, FinishedRow DEF Idle
    <3>2. PICK S : work[w] \in WorksOver(S)
      BY <1>a DEF Shapes
    <3>3. ASSUME NEW e \in Event, StartReversal(w, e)
          PROVE  \E row : work' = [work EXCEPT ![w] = row] /\ row.pc \notin {"limit", "award"}
      <4> DEFINE n == PriorRefundedBasis(e)
                 row == [work[w] EXCEPT !.pc = "reverse", !.event = e, !.prior = n]
      <4>1. row.pc = "reverse"
        <5> HIDE DEF n
        <5> QED
          BY <3>2 DEF WorksOver
      <4>2. work' = [work EXCEPT ![w] = row]
        BY <3>3 DEF StartReversal
      <4> QED
        BY <4>1, <4>2
    <3>4. CASE Fail(w)
      <4> DEFINE row == [work[w] EXCEPT !.pc = "failing", !.used = 0, !.prior = 0, !.first = FALSE]
      <4>1. row.pc = "failing"
        BY <1>a, RowFields
      <4>2. work' = [work EXCEPT ![w] = row]
        BY <3>4 DEF Fail
      <4> QED
        BY <4>1, <4>2
    <3> QED
      BY <1>5, <3>1, <3>3, <3>4 DEF LoseFailure, Crash, Active
  <2>2. UNCHANGED <<status, calculation>>
    BY <1>5 DEF StartReversal, Fail, LoseFailure, Crash
  <2> QED
    BY <1>b, <2>1, <2>2, QuietKeepsFirst DEF First
<1>6. ASSUME NEW w \in Worker,
             CommitPurchase(w) \/ CommitFallbackRefund(w) \/ CommitReversal(w)
      PROVE  FirstKnown' /\ FirstBonusOnce'
  BY <1>6, CommitKeepsBonus
<1>7. ASSUME NEW w \in Worker, RecordFailure(w) PROVE FirstKnown' /\ FirstBonusOnce'
  <2> DEFINE e == work[w].event
  <2>1. work[w].pc \in Active
    BY <1>7 DEF RecordFailure, Active
  <2>2. e \in Event /\ calculation[e] = NoCalculation
    BY <1>a, <2>1, RowAfter DEF BonusInv, RecordedInv, Inv, Pending, WorkersOnBatch,
                                CalculatedIsSettled
  <2> DEFINE calc == Calculation("failed", NoAwards, Eligible[e], FALSE)
  <2>3. /\ calc.status = "failed"
        /\ calculation' = [calculation EXCEPT ![e] = calc]
        /\ status' = [status EXCEPT ![e] = "failed"]
        /\ work' = [work EXCEPT ![w] = Finished(w)]
    BY <1>7, <2>2 DEF RecordFailure, Calculation
  <2> HIDE DEF calc
  <2>4. \A f \in Event : calculation'[f] = IF f = e THEN calc ELSE calculation[f]
    BY <1>a, <2>3 DEF Shapes
  <2>5. FirstBonusOnce'
    BY <2>3, <2>4 DEF BonusInv, FirstBonusOnce, Purchases, Succeeded
  <2>6. \A p \in Event : status'[p] = "processed" => status[p] = "processed"
    BY <1>a, <2>3 DEF Shapes
  <2>7. Finished(w).pc \notin Active
    BY <1>a, FinishedRow
  <2> QED
    BY <2>3, <2>5, <2>6, <2>7, QuietKeepsFirst DEF First, Active
<1>8. CASE UNCHANGED vars
  BY <1>8, <1>a, <1>b DEF vars, FirstKnown, PriorPurchases
<1> QED
  BY <1>1, <1>2, <1>3, <1>4, <1>5, <1>6, <1>7, <1>8 DEF Next, Work

(***************************************************************************)
(* One worker gives a member the first purchase bonus once, whatever       *)
(* crashes, fails or is not recorded, if no commit that took effect is     *)
(* reported as failed.                                                     *)
(***************************************************************************)
THEOREM BonusGivenOnce ==
    (\A v, w \in Worker : v = w) /\ "lost_commit_ack" \notin Faults
        => (Spec => []FirstBonusOnce)
<1> SUFFICES ASSUME \A v, w \in Worker : v = w, "lost_commit_ack" \notin Faults
             PROVE  Spec => []FirstBonusOnce
  OBVIOUS
<1>1. BonusInv /\ [Next]_vars => BonusInv'
  BY BonusNext
<1>2. BonusInv => FirstBonusOnce
  BY DEF BonusInv
<1> QED
  BY BonusInit, <1>1, <1>2, PTL DEF Spec

-----------------------------------------------------------------------------
(***************************************************************************)
(* The amounts: what the calculations of an account or of a purchase add   *)
(* up to.                                                                  *)
(***************************************************************************)

(* The sums of the model are totals of these functions.                    *)

Bases == [e \in Event |-> calculation[e].basis]
Earns == [e \in Event |-> calculation[e].awards.earn]
Bonuses == [e \in Event |-> calculation[e].awards.bonus]

SumsAreTotals ==
    \A S \in SUBSET Event :
        /\ SumOver(S, LAMBDA e : calculation[e].basis) = Total(Bases, S)
        /\ SumOver(S, LAMBDA e : calculation[e].awards.earn) = Total(Earns, S)
        /\ SumOver(S, LAMBDA e : calculation[e].awards.bonus) = Total(Bonuses, S)

\* A sum of bases.
LEMMA BasisSum ==
    ASSUME NEW S \in SUBSET Event
    PROVE  SumOver(S, LAMBDA e : calculation[e].basis) = Total(Bases, S)
<1> DEFINE P(g) == g = [T \in SUBSET S |->
                IF T = {} THEN 0 ELSE calculation[Some(T)].basis + g[T \ {Some(T)}]]
<1>1. SumOver(S, LAMBDA e : calculation[e].basis) = (CHOOSE g : P(g))[S]
  BY DEF SumOver, MapThenSumSet, MapThenFoldSet, Some
<1>2. \A T \in SUBSET S : T # {} => Bases[Some(T)] = calculation[Some(T)].basis
  BY DEF Some, Bases
<1>3. \A g : P(g) <=> Sums(g, Bases, S)
  BY <1>2 DEF Sums
<1>4. (CHOOSE g : P(g)) = CHOOSE g : Sums(g, Bases, S)
  <2> HIDE DEF Sums, P
  <2> QED BY <1>3
<1> QED BY <1>1, <1>4, TotalChosen

\* A sum of earned points.
LEMMA EarnSum ==
    ASSUME NEW S \in SUBSET Event
    PROVE  SumOver(S, LAMBDA e : calculation[e].awards.earn) = Total(Earns, S)
<1> DEFINE P(g) == g = [T \in SUBSET S |->
                IF T = {} THEN 0 ELSE calculation[Some(T)].awards.earn + g[T \ {Some(T)}]]
<1>1. SumOver(S, LAMBDA e : calculation[e].awards.earn) = (CHOOSE g : P(g))[S]
  BY DEF SumOver, MapThenSumSet, MapThenFoldSet, Some
<1>2. \A T \in SUBSET S : T # {} => Earns[Some(T)] = calculation[Some(T)].awards.earn
  BY DEF Some, Earns
<1>3. \A g : P(g) <=> Sums(g, Earns, S)
  BY <1>2 DEF Sums
<1>4. (CHOOSE g : P(g)) = CHOOSE g : Sums(g, Earns, S)
  <2> HIDE DEF Sums, P
  <2> QED BY <1>3
<1> QED BY <1>1, <1>4, TotalChosen

\* A sum of bonus points.
LEMMA BonusSum ==
    ASSUME NEW S \in SUBSET Event
    PROVE  SumOver(S, LAMBDA e : calculation[e].awards.bonus) = Total(Bonuses, S)
<1> DEFINE P(g) == g = [T \in SUBSET S |->
                IF T = {} THEN 0 ELSE calculation[Some(T)].awards.bonus + g[T \ {Some(T)}]]
<1>1. SumOver(S, LAMBDA e : calculation[e].awards.bonus) = (CHOOSE g : P(g))[S]
  BY DEF SumOver, MapThenSumSet, MapThenFoldSet, Some
<1>2. \A T \in SUBSET S : T # {} => Bonuses[Some(T)] = calculation[Some(T)].awards.bonus
  BY DEF Some, Bonuses
<1>3. \A g : P(g) <=> Sums(g, Bonuses, S)
  BY <1>2 DEF Sums
<1>4. (CHOOSE g : P(g)) = CHOOSE g : Sums(g, Bonuses, S)
  <2> HIDE DEF Sums, P
  <2> QED BY <1>3
<1> QED BY <1>1, <1>4, TotalChosen

\* Any of the sums of the model is a total.
LEMMA SumsTotal == SumsAreTotals
  BY BasisSum, EarnSum, BonusSum DEF SumsAreTotals

-----------------------------------------------------------------------------
(* Types.                                                                  *)

EventEntries == [account : Account, type : EntryTypes, source : Event, delta : Buckets]

Ingested == {e \in Event : status[e] # "absent"}

(***************************************************************************)
(* What is needed for the numbers to be numbers.  The basis that earlier   *)
(* refunds took is a sum over finitely many calculations, each of a        *)
(* natural number, and a reversal divides by the amount of an original     *)
(* that has a calculation.                                                 *)
(***************************************************************************)
Amounts ==
    /\ calculation \in [Event -> Calculations]
    /\ usage \in [Account -> Usages]
    /\ usageLock \in [Account -> Worker \cup {NoWorker}]
    /\ work \in [Worker -> Works]
    /\ LedgerSound
    /\ IsFiniteSet(Ingested)
    /\ \A e \in Event : Type[e] = "refund" /\ Succeeded(e) => calculation[e].basis \in Nat
    /\ \A w \in Worker : work[w].pc = "reverse" => OriginalCalculated(work[w].event)

AmountInv == Inv /\ Amounts

\* At the start there are no amounts.
LEMMA AmountInit == Init => AmountInv
<1> SUFFICES ASSUME Init PROVE Amounts
  BY InvInit DEF AmountInv
<1>1. LedgerSound /\ entries = {}
  BY LedgerSoundInit DEF Init, LedgerInit
<1>2. Idle \in Works /\ Idle.pc = "idle"
  BY DEF Idle, Works, PCs
<1>3. NoCalculation \in Calculations /\ NoCalculation.status = "none"
  BY DEF NoCalculation, Calculation, Calculations, NoAwards, Awards
<1>4. Ingested = {}
  BY DEF Init, Ingested
<1> QED
  BY <1>1, <1>2, <1>3, <1>4, RuleAssumption, FS_EmptySet
  DEF Init, Amounts, Succeeded

\* Prorating keeps integers integers.
LEMMA ProrateInt ==
    ASSUME NEW v \in Int, NEW n \in Int, NEW d \in Nat
    PROVE  Prorate(v, n, d) \in Int
<1>1. CASE d = 0
  BY <1>1 DEF Prorate
<1>2. CASE d # 0
  <2>1. v * n \in Int
    OBVIOUS
  <2>2. \A m \in Int : m \div d \in Int
    BY <1>2, Z3
  <2> QED BY <1>2, <2>1, <2>2 DEF Prorate, Quotient
<1> QED BY <1>1, <1>2

\* What a reversal is made of.
LEMMA ReversalShape ==
    ASSUME NEW e \in Event, Original[e] \in Event,
           calculation[Original[e]] \in Calculations, NEW prior \in Nat
    PROVE  LET calc == Reversal(e, prior)
           IN /\ calc \in Calculations /\ calc.status = "succeeded" /\ ~calc.fallback
              /\ calc.basis \in Nat
              /\ calc.basis <= Larger(0, Eligible[Original[e]] - prior)
<1> DEFINE o == Original[e]
           effective == Smaller(RefundBasis(e), Larger(0, Eligible[o] - prior))
           denominator == IF Eligible[o] <= 0 THEN effective ELSE Eligible[o]
           Reversed(points) == -Prorate(points, effective, denominator)
           awards == [bonus |-> Reversed(calculation[o].awards.bonus),
                      earn |-> Reversed(calculation[o].awards.earn)]
<1>1. Eligible[e] \in Int /\ Eligible[o] \in Int
  BY InputAssumption
<1>2. RefundBasis(e) \in Nat
  BY <1>1 DEF RefundBasis
<1>3. effective \in Nat /\ effective <= Larger(0, Eligible[o] - prior)
  BY <1>1, <1>2 DEF Smaller, Larger
<1> HIDE DEF effective
<1>4. denominator \in Nat
  BY <1>1, <1>3
<1> HIDE DEF denominator
<1>5. calculation[o].awards.bonus \in Int /\ calculation[o].awards.earn \in Int
  BY DEF Calculations, Awards
<1>6. awards \in Awards
  <2>1. \A points \in Int : Reversed(points) \in Int
    BY <1>3, <1>4, ProrateInt
  <2> HIDE DEF Reversed
  <2> QED BY <1>5, <2>1 DEF Awards
<1>7. Reversal(e, prior) = Calculation("succeeded", awards, effective, FALSE)
  BY DEF Reversal, effective, denominator
<1> HIDE DEF awards
<1> QED BY <1>3, <1>6, <1>7 DEF Calculation, Calculations

\* What a worker on an event knows of it.
LEMMA EventInHand ==
    ASSUME Inv, NEW w \in Worker, work[w].pc \in Active
    PROVE  LET e == work[w].event
           IN /\ e \in Event /\ e \in work[w].batch
              /\ status[e] # "absent"
              /\ Member[e] \in Account /\ Basis(e) \in Int /\ Eligible[e] \in Int
              /\ Type[e] \in {"purchase", "refund"}
<1>1. work[w].event \in work[w].batch /\ work[w].event \in Event
  BY RowAfter DEF Inv, WorkersOnBatch
<1>2. status[work[w].event] # "absent"
  BY <1>1 DEF Inv, WorkersOnBatch
<1> QED BY <1>1, <1>2, BasisType, InputAssumption

\* A refund of a purchase with a calculation refers to an event.
LEMMA OriginalIsEvent ==
    ASSUME NEW e \in Event, OriginalCalculated(e)
    PROVE  Original[e] \in Event
BY InputAssumption DEF OriginalCalculated

\* Every event with a calculation was ingested, so there are finitely many.
LEMMA CalculatedFinite ==
    ASSUME AmountInv, NEW S \in SUBSET Event, \A e \in S : Succeeded(e)
    PROVE  /\ IsFiniteSet(S)
           /\ Summable(Bases, S) /\ Summable(Earns, S) /\ Summable(Bonuses, S)
<1>1. \A e \in S : calculation[e] # NoCalculation
  BY DEF Succeeded, NoCalculation, Calculation
<1>2. \A e \in S : status[e] # "absent"
  BY <1>1 DEF AmountInv, Inv, CalculatedIsSettled
<1>3. IsFiniteSet(S)
  BY <1>2, FS_Subset DEF AmountInv, Amounts, Ingested
<1>4. \A e \in S : /\ calculation[e].basis \in Int /\ calculation[e].awards.earn \in Int
                   /\ calculation[e].awards.bonus \in Int
  BY DEF AmountInv, Amounts, Calculations, Awards
<1> QED BY <1>3, <1>4 DEF Summable, Bases, Earns, Bonuses

\* What earlier refunds took is a natural number.
LEMMA PriorNat ==
    ASSUME AmountInv, NEW e \in Event
    PROVE  /\ PriorRefundedBasis(e) \in Nat
           /\ PriorRefundedBasis(e) = Total(Bases, Refunds(Original[e]) \ {e})
<1> DEFINE S == Refunds(Original[e]) \ {e}
<1>1. S \in SUBSET Event /\ \A r \in S : Succeeded(r) /\ Type[r] = "refund"
  BY DEF Refunds, Succeeded
<1>2. PriorRefundedBasis(e) = Total(Bases, S)
  BY <1>1, SumsTotal DEF SumsAreTotals, PriorRefundedBasis
<1>3. IsFiniteSet(S)
  BY <1>1, CalculatedFinite
<1>4. \A r \in S : Bases[r] \in Nat
  BY <1>1 DEF AmountInv, Amounts, Bases
<1> HIDE DEF S
<1>5. Total(Bases, S) \in Nat
  BY <1>3, <1>4, TotalNat
<1> QED BY <1>2, <1>5 DEF S

-----------------------------------------------------------------------------
(* The steps.                                                              *)

\* A step that changes no amount.
LEMMA QuietKeepsAmounts ==
    ASSUME AmountInv, UNCHANGED <<balance, entries, calculation, usage>>,
           usageLock' \in [Account -> Worker \cup {NoWorker}],
           work' \in [Worker -> Works],
           \A w \in Worker : work'[w].pc = "reverse" => OriginalCalculated(work'[w].event),
           IsFiniteSet(Ingested')
    PROVE  Amounts'
BY DEF AmountInv, Amounts, LedgerSound, Succeeded, OriginalCalculated

\* Nothing is ingested by a step that only moves on what was.
LEMMA IngestedKept ==
    ASSUME AmountInv, \A e \in Event : status'[e] # "absent" => status[e] # "absent"
    PROVE  IsFiniteSet(Ingested')
<1>1. Ingested' \subseteq Ingested
  BY DEF Ingested
<1> QED BY <1>1, FS_Subset DEF AmountInv, Amounts

\* A step of one worker that changes no amount.
LEMMA RowKeepsAmounts ==
    ASSUME AmountInv, NEW w \in Worker, NEW row \in Works,
           row.pc = "reverse" => OriginalCalculated(row.event),
           work' = [work EXCEPT ![w] = row],
           UNCHANGED <<balance, entries, calculation, usage>>,
           usageLock' \in [Account -> Worker \cup {NoWorker}],
           \A e \in Event : status'[e] # "absent" => status[e] # "absent"
    PROVE  Amounts'
<1>1. work' \in [Worker -> Works] /\ \A v \in Worker : work'[v] = IF v = w THEN row ELSE work[v]
  BY DEF AmountInv, Amounts
<1>2. \A v \in Worker : work'[v].pc = "reverse" => OriginalCalculated(work'[v].event)
  BY <1>1 DEF AmountInv, Amounts
<1>3. IsFiniteSet(Ingested')
  BY IngestedKept
<1> QED BY <1>1, <1>2, <1>3, QuietKeepsAmounts

\* The rows workers leave behind.
LEMMA RowsLeft ==
    ASSUME AmountInv, NEW w \in Worker
    PROVE  /\ Finished(w) \in Works /\ Finished(w).pc # "reverse"
           /\ Idle \in Works /\ Idle.pc = "idle"
           /\ [work[w] EXCEPT !.pc = "failing"] \in Works
           /\ [work[w] EXCEPT !.pc = "failing"].pc = "failing"
           /\ Unlock(w) \in [Account -> Worker \cup {NoWorker}]
<1>1. work[w] \in Works
  BY DEF AmountInv, Amounts
<1>2. [work[w] EXCEPT !.pc = "failing"] \in Works
      /\ [work[w] EXCEPT !.pc = "failing"].pc = "failing"
  BY <1>1 DEF Works, PCs
<1>3. Finished(w) \in Works /\ Finished(w).pc # "reverse" /\ Idle \in Works /\ Idle.pc = "idle"
  BY <1>1 DEF Finished, Idle, Works, PCs
<1>4. Unlock(w) \in [Account -> Worker \cup {NoWorker}]
  BY DEF Unlock, AmountInv, Amounts
<1> QED BY <1>2, <1>3, <1>4

\* What a worker does before it commits, and when it gives up.
LEMMA WorkKeepsAmounts ==
    ASSUME AmountInv, NEW w \in Worker,
           \/ \E e \in Event : StartPurchaseRules(w, e) \/ StartReversal(w, e)
           \/ ReadLimitUsage(w) \/ Fail(w) \/ LoseFailure(w) \/ Crash(w)
    PROVE  Amounts'
<1>w. work[w] \in Works
  BY DEF AmountInv, Amounts
<1>1. ASSUME NEW e \in Event, StartPurchaseRules(w, e) PROVE Amounts'
  <2> DEFINE first == PriorPurchases(e) = {}
             row == [work[w] EXCEPT !.pc = "limit", !.event = e, !.first = first]
  <2>1. row \in Works /\ row.pc = "limit"
    BY <1>w DEF Works, PCs
  <2>2. work' = [work EXCEPT ![w] = row]
        /\ UNCHANGED <<balance, entries, status, calculation, usage, usageLock>>
    BY <1>1 DEF StartPurchaseRules
  <2> HIDE DEF row
  <2>3. usageLock' \in [Account -> Worker \cup {NoWorker}]
    BY <2>2 DEF AmountInv, Amounts
  <2> QED BY <2>1, <2>2, <2>3, RowKeepsAmounts
<1>2. ASSUME NEW e \in Event, StartReversal(w, e) PROVE Amounts'
  <2> DEFINE prior == PriorRefundedBasis(e)
             row == [work[w] EXCEPT !.pc = "reverse", !.event = e, !.prior = prior]
  <2>0. prior \in Nat
    BY PriorNat
  <2>1. work' = [work EXCEPT ![w] = row] /\ OriginalCalculated(e)
        /\ UNCHANGED <<balance, entries, status, calculation, usage, usageLock>>
    BY <1>2 DEF StartReversal
  <2> HIDE DEF prior
  <2>2. row \in Works /\ row.event = e
    BY <1>w, <2>0 DEF Works, PCs
  <2> HIDE DEF row
  <2>3. usageLock' \in [Account -> Worker \cup {NoWorker}]
    BY <2>1 DEF AmountInv, Amounts
  <2> QED BY <2>1, <2>2, <2>3, RowKeepsAmounts
<1>3. CASE ReadLimitUsage(w)
  <2> DEFINE e == work[w].event
             used == usage[Member[e]].points
             row == [work[w] EXCEPT !.pc = "award", !.used = used]
  <2>1. e \in Event /\ Member[e] \in Account
    BY <1>3, EventInHand DEF ReadLimitUsage, AmountInv, Active
  <2>2. used \in Nat
    BY <2>1 DEF AmountInv, Amounts, Usages
  <2>3. work' = [work EXCEPT ![w] = row]
        /\ UNCHANGED <<balance, entries, status, calculation, usage>>
    BY <1>3 DEF ReadLimitUsage
  <2>4. usageLock' \in [Account -> Worker \cup {NoWorker}]
    BY <1>3, <2>1 DEF ReadLimitUsage, AmountInv, Amounts
  <2> HIDE DEF used
  <2>5. row \in Works /\ row.pc = "award"
    BY <1>w, <2>2 DEF Works, PCs
  <2> HIDE DEF row
  <2> QED BY <2>3, <2>4, <2>5, RowKeepsAmounts
<1>4. CASE Fail(w)
  <2> DEFINE row == [work[w] EXCEPT !.pc = "failing", !.used = 0, !.prior = 0, !.first = FALSE]
  <2>1. work' = [work EXCEPT ![w] = row] /\ usageLock' = Unlock(w)
        /\ UNCHANGED <<balance, entries, status, calculation, usage>>
    BY <1>4 DEF Fail
  <2>2. row \in Works /\ row.pc = "failing"
    BY <1>w DEF Works, PCs
  <2> HIDE DEF row
  <2> QED BY <2>1, <2>2, RowsLeft, RowKeepsAmounts
<1>5. CASE LoseFailure(w)
  <2>1. work' = [work EXCEPT ![w] = Finished(w)]
        /\ UNCHANGED <<balance, entries, status, calculation, usage, usageLock>>
    BY <1>5 DEF LoseFailure
  <2>2. usageLock' \in [Account -> Worker \cup {NoWorker}]
    BY <2>1 DEF AmountInv, Amounts
  <2> QED BY <2>1, <2>2, RowsLeft, RowKeepsAmounts
<1>6. CASE Crash(w)
  <2>1. work' = [work EXCEPT ![w] = Idle] /\ usageLock' = Unlock(w)
        /\ UNCHANGED <<balance, entries, status, calculation, usage>>
    BY <1>6 DEF Crash
  <2> QED BY <2>1, RowsLeft, RowKeepsAmounts
<1> QED BY <1>1, <1>2, <1>3, <1>4, <1>5, <1>6

\* A claim takes events that were ingested.
LEMMA ClaimKeepsAmounts ==
    ASSUME AmountInv, NEW w \in Worker, Claim(w)
    PROVE  Amounts'
<1>1. PICK batch \in SUBSET Event :
          /\ \A e \in batch : status[e] = "accepted"
          /\ status' = [e \in Event |-> IF e \in batch THEN "processing" ELSE status[e]]
          /\ \E row \in WorksOver({0}) :
                work' = [work EXCEPT ![w] = row] /\ row.pc \in {"idle", "next"}
  BY ClaimRow
<1>2. UNCHANGED <<balance, entries, calculation, usage, usageLock>>
  BY DEF Claim
<1>4. PICK row \in WorksOver({0}) : work' = [work EXCEPT ![w] = row] /\ row.pc \in {"idle", "next"}
  BY <1>1
<1>3. row \in Works /\ row.pc # "reverse"
  BY <1>4 DEF WorksOver, Works
<1>5. \A e \in Event : status'[e] # "absent" => status[e] # "absent"
  BY <1>1
<1>6. usageLock' \in [Account -> Worker \cup {NoWorker}]
  BY <1>2 DEF AmountInv, Amounts
<1> QED BY <1>2, <1>3, <1>4, <1>5, <1>6, RowKeepsAmounts

\* One more event is ingested.
LEMMA IngestKeepsAmounts ==
    ASSUME AmountInv, NEW e \in Event, Ingest(e)
    PROVE  Amounts'
<1>1. status' = [status EXCEPT ![e] = "accepted"]
      /\ UNCHANGED <<balance, entries, calculation, usage, usageLock, work>>
  BY DEF Ingest
<1>2. Ingested' \subseteq Ingested \cup {e}
  BY <1>1 DEF Ingested, AmountInv, Inv, Shapes
<1>3. IsFiniteSet(Ingested')
  BY <1>2, FS_AddElement, FS_Subset DEF AmountInv, Amounts
<1>4. /\ usageLock' \in [Account -> Worker \cup {NoWorker}]
      /\ work' \in [Worker -> Works]
      /\ \A w \in Worker : work'[w].pc = "reverse" => OriginalCalculated(work'[w].event)
  BY <1>1 DEF AmountInv, Amounts
<1> QED BY <1>1, <1>3, <1>4, QuietKeepsAmounts

\* A recorded failure is a calculation of no points.
LEMMA RecordKeepsAmounts ==
    ASSUME AmountInv, NEW w \in Worker, RecordFailure(w)
    PROVE  /\ Amounts'
           /\ \A e \in Event : Succeeded(e) \/ Succeeded(e)' => calculation'[e] = calculation[e]
           /\ UNCHANGED <<balance, entries, usage>>
<1> DEFINE e == work[w].event
           calc == Calculation("failed", NoAwards, Eligible[e], FALSE)
<1>1. e \in Event /\ status[e] # "absent" /\ Eligible[e] \in Int
  BY EventInHand DEF RecordFailure, AmountInv, Active
<1>2. /\ calculation' = [calculation EXCEPT ![e] = IF @ = NoCalculation THEN calc ELSE @]
      /\ status' = [status EXCEPT ![e] = "failed"]
      /\ work' = [work EXCEPT ![w] = Finished(w)]
      /\ UNCHANGED <<balance, entries, usage, usageLock>>
  BY DEF RecordFailure
<1>3. calc \in Calculations /\ calc.status = "failed"
  BY <1>1 DEF Calculation, Calculations, NoAwards, Awards
<1> HIDE DEF calc
<1>4. /\ calculation' \in [Event -> Calculations]
      /\ \A f \in Event : calculation'[f] =
            IF f = e /\ calculation[f] = NoCalculation THEN calc ELSE calculation[f]
  BY <1>1, <1>2, <1>3 DEF AmountInv, Amounts
<1>5. \A f \in Event : Succeeded(f) \/ Succeeded(f)' => calculation'[f] = calculation[f]
  BY <1>3, <1>4 DEF Succeeded, NoCalculation, Calculation
<1>6. IsFiniteSet(Ingested')
  <2>1. \A f \in Event : status'[f] # "absent" => status[f] # "absent"
    BY <1>1, <1>2 DEF AmountInv, Inv, Shapes
  <2> QED BY <2>1, IngestedKept
<1>7. work' \in [Worker -> Works]
      /\ \A v \in Worker : work'[v].pc = "reverse" => work'[v] = work[v]
  BY <1>2, RowsLeft DEF AmountInv, Amounts
<1>8. \A f : OriginalCalculated(f) /\ f \in Event => OriginalCalculated(f)'
  <2> SUFFICES ASSUME NEW f \in Event, OriginalCalculated(f) PROVE OriginalCalculated(f)'
    OBVIOUS
  <2>1. Original[f] \in Event /\ Succeeded(Original[f])
    BY OriginalIsEvent DEF OriginalCalculated, Succeeded
  <2>2. calculation'[Original[f]] = calculation[Original[f]]
    BY <1>5, <2>1
  <2> QED BY <2>2 DEF OriginalCalculated
<1>9. \A v \in Worker : (work[v].pc = "reverse" => OriginalCalculated(work[v].event))'
  <2> SUFFICES ASSUME NEW v \in Worker, work'[v].pc = "reverse"
               PROVE  OriginalCalculated(work[v].event)'
    OBVIOUS
  <2>1. work'[v] = work[v] /\ work[v].pc = "reverse"
    BY <1>7
  <2>2. work[v].event \in Event /\ OriginalCalculated(work[v].event)
    BY <2>1, EventInHand DEF AmountInv, Amounts, Active
  <2>3. PICK f \in Event : f = work[v].event
    BY <2>2
  <2>4. OriginalCalculated(f)'
    BY <1>8, <2>2, <2>3
  <2> QED BY <2>1, <2>3, <2>4 DEF OriginalCalculated
<1>10. \A f \in Event : Type[f] = "refund" /\ Succeeded(f)' => calculation'[f].basis \in Nat
  <2> SUFFICES ASSUME NEW f \in Event, Type[f] = "refund", Succeeded(f)'
               PROVE  calculation'[f].basis \in Nat
    OBVIOUS
  <2>1. calculation'[f] = calculation[f]
    BY <1>5
  <2>2. Succeeded(f)
    BY <2>1 DEF Succeeded
  <2> QED BY <2>1, <2>2 DEF AmountInv, Amounts
<1>11. Amounts'
  BY <1>2, <1>4, <1>6, <1>7, <1>9, <1>10 DEF AmountInv, Amounts, LedgerSound
<1> QED BY <1>2, <1>5, <1>11

(***************************************************************************)
(* A commit: the event of a worker gets its calculation, and the limit of  *)
(* its member is used by what a purchase earns.  A refund is a reversal or *)
(* computed from the current rules.                                        *)
(***************************************************************************)
Uses(e, calc, a) == IF Type[e] = "purchase" /\ Member[e] = a THEN calc.awards.earn ELSE 0

Rewards(w, calc) ==
    LET e == work[w].event
    IN /\ work[w].pc \in Active \ {"limit", "failing"}
       /\ calc \in Calculations /\ calc.status = "succeeded"
       /\ Type[e] = "purchase" => calc.awards.bonus \in Nat /\ calc.awards.earn \in Nat
       /\ Type[e] = "refund" =>
             /\ calc.basis \in Nat
             /\ \/ work[w].pc = "award" /\ calc.fallback
                \/ work[w].pc = "reverse" /\ calc = Reversal(e, work[w].prior)
       /\ PersistSuccess(e, IF Type[e] = "purchase" THEN "earn" ELSE "refund", calc)
       /\ Committed(w)
       /\ usage' \in [Account -> Usages]
       /\ \A a \in Account : usage'[a].points = usage[a].points + Uses(e, calc, a)
       /\ usageLock' \in [Account -> Worker \cup {NoWorker}]

\* The purchase of a worker that has read the limit usage.
LEMMA PurchaseRewards ==
    ASSUME AmountInv, NEW w \in Worker, CommitPurchase(w)
    PROVE  \E calc : Rewards(w, calc)
<1> DEFINE e == work[w].event
           awards == PurchaseAwards(Basis(e), work[w].first, work[w].used)
           calc == Calculation("succeeded", awards, Eligible[e], FALSE)
<1>1. /\ work[w].pc \in Active \ {"limit", "failing"} /\ Type[e] = "purchase"
      /\ CommitLimitUsage(Member[e], awards.earn)
      /\ PersistSuccess(e, "earn", calc)
      /\ usageLock' = Unlock(w)
      /\ Committed(w)
  BY DEF CommitPurchase, Active
<1>2. e \in Event /\ Member[e] \in Account /\ Basis(e) \in Int /\ Eligible[e] \in Int
  BY <1>1, EventInHand DEF AmountInv
<1>3. work[w].first \in BOOLEAN /\ work[w].used \in Nat
  BY DEF AmountInv, Amounts, Works
<1>4. awards.earn \in Nat
  BY <1>2, <1>3, EarnWithinLimit
<1>5. awards.bonus \in Nat
  BY <1>3, RuleAssumption DEF PurchaseAwards
<1>6. awards = [bonus |-> awards.bonus, earn |-> awards.earn]
  BY DEF PurchaseAwards
<1>7. awards \in Awards
  BY <1>4, <1>5, <1>6 DEF Awards
<1> HIDE DEF awards
<1>8. calc \in Calculations /\ calc.status = "succeeded" /\ calc.awards = awards
  BY <1>2, <1>7 DEF Calculation, Calculations
<1> HIDE DEF calc
<1>9. usage' \in [Account -> Usages]
      /\ \A a \in Account : usage'[a].points = usage[a].points + Uses(e, calc, a)
  <2>1. \A a \in Account : usage[a].points \in Nat
    BY DEF AmountInv, Amounts, Usages
  <2>2. CASE awards.earn = 0
    BY <1>1, <1>8, <2>1, <2>2 DEF CommitLimitUsage, Uses, AmountInv, Amounts
  <2>3. CASE awards.earn # 0
    <3> DEFINE new == [exists |-> TRUE, points |-> usage[Member[e]].points + awards.earn]
    <3>1. new \in Usages /\ new.points = usage[Member[e]].points + awards.earn
      BY <1>2, <1>4, <2>1 DEF Usages
    <3>2. usage' = [usage EXCEPT ![Member[e]] = new]
      BY <1>1, <2>3 DEF CommitLimitUsage
    <3> HIDE DEF new
    <3>3. usage' \in [Account -> Usages]
      BY <1>2, <3>1, <3>2 DEF AmountInv, Amounts
    <3>4. \A a \in Account : usage'[a] = IF a = Member[e] THEN new ELSE usage[a]
      BY <3>2 DEF AmountInv, Amounts
    <3> QED BY <1>1, <1>2, <1>8, <2>1, <3>1, <3>3, <3>4 DEF Uses
  <2> QED BY <2>2, <2>3
<1>10. Rewards(w, calc)
  BY <1>1, <1>4, <1>5, <1>8, <1>9, RowsLeft DEF Rewards
<1> QED BY <1>10

\* A refund computed from the current rules takes back what they would give.
LEMMA FallbackRewards ==
    ASSUME AmountInv, NEW w \in Worker, CommitFallbackRefund(w)
    PROVE  \E calc : Rewards(w, calc) /\ calc.fallback
<1> DEFINE e == work[w].event
           awards == PurchaseAwards(Basis(e), work[w].first, work[w].used)
           negated == [bonus |-> -awards.bonus, earn |-> -awards.earn]
           calc == Calculation("succeeded", negated, Basis(e), TRUE)
<1>1. /\ work[w].pc \in Active \ {"limit", "failing"} /\ work[w].pc = "award"
      /\ Type[e] = "refund"
      /\ PersistSuccess(e, "refund", calc)
      /\ usageLock' = Unlock(w)
      /\ Committed(w)
      /\ UNCHANGED usage
  BY DEF CommitFallbackRefund, Active
<1>2. e \in Event /\ Basis(e) \in Int /\ Eligible[e] \in Int
  BY <1>1, EventInHand DEF AmountInv
<1>3. work[w].first \in BOOLEAN /\ work[w].used \in Nat
  BY DEF AmountInv, Amounts, Works
<1>4. awards.earn \in Int /\ awards.bonus \in Int
  <2>1. awards.earn \in Nat
    BY <1>2, <1>3, EarnWithinLimit
  <2>2. awards.bonus \in Nat
    BY <1>3, RuleAssumption DEF PurchaseAwards
  <2> QED BY <2>1, <2>2
<1> HIDE DEF awards
<1>5. negated \in Awards
  BY <1>4 DEF Awards
<1> HIDE DEF negated
<1>6. Basis(e) \in Nat
  BY <1>1, <1>2 DEF Basis, RefundBasis
<1>7. /\ calc \in Calculations /\ calc.status = "succeeded" /\ calc.basis \in Nat
      /\ calc.fallback
  BY <1>5, <1>6 DEF Calculation, Calculations
<1> HIDE DEF calc
<1>8. /\ usage' \in [Account -> Usages]
      /\ \A a \in Account : usage'[a].points = usage[a].points + Uses(e, calc, a)
  BY <1>1 DEF AmountInv, Amounts, Usages, Uses
<1>9. Rewards(w, calc)
  BY <1>1, <1>7, <1>8, RowsLeft DEF Rewards
<1> QED BY <1>7, <1>9

\* A reversal.
LEMMA ReversalRewards ==
    ASSUME AmountInv, NEW w \in Worker, CommitReversal(w)
    PROVE  Rewards(w, Reversal(work[w].event, work[w].prior))
<1> DEFINE e == work[w].event
           calc == Reversal(e, work[w].prior)
<1>1. /\ work[w].pc = "reverse" /\ work[w].pc \in Active \ {"limit", "failing"}
      /\ PersistSuccess(e, "refund", calc)
      /\ Committed(w)
      /\ UNCHANGED <<usage, usageLock>>
  BY DEF CommitReversal, Active
<1>2. e \in Event /\ Type[e] = "refund" /\ OriginalCalculated(e)
  BY <1>1, EventInHand DEF AmountInv, Amounts, Inv, WorkersOnBatch
<1>3. Original[e] \in Event /\ calculation[Original[e]] \in Calculations
  BY <1>2, OriginalIsEvent DEF AmountInv, Amounts
<1>4. work[w].prior \in Nat
  BY DEF AmountInv, Amounts, Works
<1>5. calc \in Calculations /\ calc.status = "succeeded" /\ calc.basis \in Nat
  BY <1>2, <1>3, <1>4, ReversalShape
<1> HIDE DEF calc
<1>6. /\ usage' \in [Account -> Usages]
      /\ usageLock' \in [Account -> Worker \cup {NoWorker}]
      /\ \A a \in Account : usage'[a].points = usage[a].points + Uses(e, calc, a)
  BY <1>1, <1>2 DEF AmountInv, Amounts, Usages, Uses
<1>7. Rewards(w, calc)
  <2>1. calc = Reversal(e, work[w].prior)
    BY DEF calc
  <2> QED BY <1>1, <1>2, <1>5, <1>6, <2>1 DEF Rewards
<1> QED BY <1>7 DEF calc

\* What a commit does to calculations and rows.
LEMMA RewardsChange ==
    ASSUME AmountInv, NEW w \in Worker, NEW calc, Rewards(w, calc)
    PROVE  LET e == work[w].event
           IN /\ e \in Event /\ ~Succeeded(e)
              /\ calculation' \in [Event -> Calculations]
              /\ \A f \in Event : calculation'[f] = IF f = e THEN calc ELSE calculation[f]
              /\ work' \in [Worker -> Works]
              /\ \A v \in Worker : work'[v].pc = "reverse" => v # w /\ work'[v] = work[v]
              /\ work'[w].pc \notin {"limit", "award", "reverse"}
              /\ \A v \in Worker \ {w} : work'[v] = work[v]
              /\ \A f \in Event : OriginalCalculated(f) => OriginalCalculated(f)'
<1> DEFINE e == work[w].event
<1>1. e \in Event /\ calculation[e] = NoCalculation
  BY EventInHand DEF AmountInv, Rewards, PersistSuccess
<1>2. ~Succeeded(e)
  BY <1>1 DEF Succeeded, NoCalculation, Calculation
<1>3. /\ calculation' \in [Event -> Calculations]
      /\ \A f \in Event : calculation'[f] = IF f = e THEN calc ELSE calculation[f]
  BY <1>1 DEF Rewards, PersistSuccess, AmountInv, Amounts
<1> DEFINE row == [work[w] EXCEPT !.pc = "failing"]
<1>4. /\ row \in Works /\ row.pc = "failing"
      /\ Finished(w) \in Works /\ Finished(w).pc \in {"idle", "next"}
  BY RowsLeft DEF Finished, Idle
<1>5. work' = [work EXCEPT ![w] = row] \/ work' = [work EXCEPT ![w] = Finished(w)]
  BY DEF Rewards, Committed
<1> HIDE DEF row
<1>6. /\ work' \in [Worker -> Works]
      /\ \A v \in Worker : work'[v].pc = "reverse" => v # w /\ work'[v] = work[v]
      /\ work'[w].pc \notin {"limit", "award", "reverse"}
      /\ \A v \in Worker \ {w} : work'[v] = work[v]
  BY <1>4, <1>5 DEF AmountInv, Amounts
<1>7. \A f \in Event : OriginalCalculated(f) => OriginalCalculated(f)'
  <2> SUFFICES ASSUME NEW f \in Event, OriginalCalculated(f) PROVE OriginalCalculated(f)'
    OBVIOUS
  <2>1. Original[f] \in Event /\ Original[f] # NoEvent /\ Succeeded(Original[f])
    BY OriginalIsEvent DEF OriginalCalculated, Succeeded
  <2>2. calculation'[Original[f]] = calculation[Original[f]]
    BY <1>2, <1>3, <2>1
  <2> QED BY <2>1, <2>2 DEF OriginalCalculated, Succeeded
<1> QED BY <1>1, <1>2, <1>3, <1>6, <1>7

\* What a commit does to the ledger: nothing, or one entry.
LEMMA RewardsPost ==
    ASSUME AmountInv, NEW w \in Worker, NEW calc, Rewards(w, calc)
    PROVE  \/ UNCHANGED <<balance, entries>>
           \/ \E f \in EventEntries : PostLedgerEntry(f)
<1> DEFINE e == work[w].event
           type == IF Type[e] = "purchase" THEN "earn" ELSE "refund"
           delta == AvailableDelta(Points(calc.awards))
<1>1. e \in Event /\ Member[e] \in Account
  BY EventInHand DEF AmountInv, Rewards
<1>2. delta \in Buckets
  BY DEF Rewards, Calculations, Awards, Points, AvailableDelta, Buckets
<1>3. UNCHANGED <<balance, entries>> \/ PostLedgerEntry(Entry(Member[e], type, e, delta))
  BY DEF Rewards, PersistSuccess
<1> HIDE DEF delta
<1>4. Entry(Member[e], type, e, delta) \in EventEntries
  BY <1>1, <1>2 DEF Entry, EventEntries, EntryTypes
<1> QED BY <1>3, <1>4

\* A post of the entry of an event.
LEMMA PostKeepsEntries ==
    ASSUME AmountInv, NEW f \in EventEntries, PostLedgerEntry(f)
    PROVE  LedgerSound' /\ entries' = entries \cup {f}
<1>1. LedgerSound /\ f.account \in Account /\ f.delta \in Buckets
  BY DEF AmountInv, Amounts, EventEntries
<1> QED BY <1>1, PostKeepsSound

\* A commit keeps the numbers numbers.
LEMMA RewardsKeepAmounts ==
    ASSUME AmountInv, NEW w \in Worker, NEW calc, Rewards(w, calc)
    PROVE  Amounts'
<1> DEFINE e == work[w].event
<1>1. /\ e \in Event /\ ~Succeeded(e)
      /\ calculation' \in [Event -> Calculations]
      /\ \A f \in Event : calculation'[f] = IF f = e THEN calc ELSE calculation[f]
      /\ work' \in [Worker -> Works]
      /\ \A v \in Worker : work'[v].pc = "reverse" => v # w /\ work'[v] = work[v]
      /\ \A f \in Event : OriginalCalculated(f) => OriginalCalculated(f)'
  BY RewardsChange
<1>2. LedgerSound'
  <2>1. CASE UNCHANGED <<balance, entries>>
    BY <2>1 DEF AmountInv, Amounts, LedgerSound
  <2> QED BY <2>1, RewardsPost, PostKeepsEntries
<1>3. IsFiniteSet(Ingested')
  <2>1. status[e] # "absent" /\ status' = [status EXCEPT ![e] = "processed"]
    BY EventInHand DEF Rewards, PersistSuccess, AmountInv
  <2>2. \A f \in Event : status'[f] # "absent" => status[f] # "absent"
    BY <2>1 DEF AmountInv, Inv, Shapes
  <2> QED BY <2>2, IngestedKept
<1>4. \A f \in Event : Type[f] = "refund" /\ Succeeded(f)' => calculation'[f].basis \in Nat
  <2> SUFFICES ASSUME NEW f \in Event, Type[f] = "refund", Succeeded(f)'
               PROVE  calculation'[f].basis \in Nat
    OBVIOUS
  <2>1. CASE f = e
    BY <1>1, <2>1 DEF Rewards
  <2>2. CASE f # e
    <3>1. calculation'[f] = calculation[f] /\ Succeeded(f)
      BY <1>1, <2>2 DEF Succeeded
    <3> QED BY <3>1 DEF AmountInv, Amounts
  <2> QED BY <2>1, <2>2
<1>5. \A v \in Worker : (work[v].pc = "reverse" => OriginalCalculated(work[v].event))'
  <2> SUFFICES ASSUME NEW v \in Worker, work'[v].pc = "reverse"
               PROVE  OriginalCalculated(work[v].event)'
    OBVIOUS
  <2>1. work'[v] = work[v] /\ work[v].pc = "reverse"
    BY <1>1
  <2>2. work[v].event \in Event /\ OriginalCalculated(work[v].event)
    BY <2>1, EventInHand DEF AmountInv, Amounts, Active
  <2>3. PICK f \in Event : f = work[v].event
    BY <2>2
  <2>4. OriginalCalculated(f)'
    BY <1>1, <2>2, <2>3
  <2> QED BY <2>1, <2>3, <2>4 DEF OriginalCalculated
<1>6. usage' \in [Account -> Usages] /\ usageLock' \in [Account -> Worker \cup {NoWorker}]
  BY DEF Rewards
<1> QED BY <1>1, <1>2, <1>3, <1>4, <1>5, <1>6 DEF Amounts

(***************************************************************************)
(* Every step is a commit, the record of a failure, or changes neither     *)
(* calculations nor ledger nor usage.                                      *)
(***************************************************************************)
LEMMA StepKinds ==
    ASSUME AmountInv, [Next]_vars
    PROVE  \/ UNCHANGED <<balance, entries, calculation, usage>>
           \/ \E w \in Worker : RecordFailure(w)
           \/ \E w \in Worker, calc \in Calculations : Rewards(w, calc)
<1>1. ASSUME NEW w \in Worker, CommitPurchase(w) \/ CommitFallbackRefund(w) \/ CommitReversal(w)
      PROVE  \E calc \in Calculations : Rewards(w, calc)
  <2>1. \E calc : Rewards(w, calc)
    BY <1>1, PurchaseRewards, FallbackRewards, ReversalRewards
  <2> QED BY <2>1 DEF Rewards
<1>2. ASSUME NEW e \in Event, Ingest(e) PROVE UNCHANGED <<balance, entries, calculation, usage>>
  BY <1>2 DEF Ingest
<1>3. ASSUME NEW w \in Worker,
             \/ Claim(w) \/ ReadLimitUsage(w) \/ Fail(w) \/ LoseFailure(w) \/ Crash(w)
             \/ \E e \in Event : StartPurchaseRules(w, e) \/ StartReversal(w, e)
      PROVE  UNCHANGED <<balance, entries, calculation, usage>>
  BY <1>3 DEF Claim, ReadLimitUsage, Fail, LoseFailure, Crash, StartPurchaseRules, StartReversal
<1>4. CASE UNCHANGED vars
  BY <1>4 DEF vars
<1> QED BY <1>1, <1>2, <1>3, <1>4 DEF Next, Work

\* Every step keeps the numbers numbers.
LEMMA AmountNext == AmountInv /\ [Next]_vars => AmountInv'
<1> SUFFICES ASSUME AmountInv, [Next]_vars PROVE Amounts'
  BY InvNext DEF AmountInv
<1>1. CASE UNCHANGED vars
  <2>1. IsFiniteSet(Ingested')
    BY <1>1, IngestedKept DEF vars
  <2>2. usageLock' = usageLock /\ work' = work
        /\ UNCHANGED <<balance, entries, calculation, usage>>
    BY <1>1 DEF vars
  <2> QED BY <2>1, <2>2, QuietKeepsAmounts DEF AmountInv, Amounts
<1>2. ASSUME NEW w \in Worker, CommitPurchase(w) \/ CommitFallbackRefund(w) \/ CommitReversal(w)
      PROVE  Amounts'
  <2>1. \E calc : Rewards(w, calc)
    BY <1>2, PurchaseRewards, FallbackRewards, ReversalRewards
  <2> QED BY <2>1, RewardsKeepAmounts
<1> QED
  BY <1>1, <1>2, IngestKeepsAmounts, ClaimKeepsAmounts, WorkKeepsAmounts, RecordKeepsAmounts
  DEF Next, Work

\* The amounts are always amounts.
THEOREM AmountInvariance == Spec => []AmountInv
<1> QED BY AmountInit, AmountNext, PTL DEF Spec

\* A step posts the entry of an event, or leaves the ledger alone.
LEMMA LedgerNext ==
    ASSUME AmountInv, [Next]_vars
    PROVE  UNCHANGED <<balance, entries>> \/ \E f \in EventEntries : PostLedgerEntry(f)
BY StepKinds, RewardsPost DEF RecordFailure

\* Processing states keep their types, in particular no balance bucket that a
\* check guards becomes negative and no prorated refund leaves the integers.
THEOREM ProcessingTypeCorrect == Spec => []TypeOK
<1>1. Init => entries \subseteq EventEntries
  BY DEF Init, LedgerInit
<1>2. AmountInv /\ entries \subseteq EventEntries /\ [Next]_vars => (entries \subseteq EventEntries)'
  BY LedgerNext, PostKeepsEntries
<1>3. AmountInv /\ entries \subseteq EventEntries => TypeOK
  BY DEF AmountInv, Amounts, Inv, Shapes, EventStatuses, LedgerSound, EventEntries, TypeOK, RowsOK
<1> QED BY <1>1, <1>2, <1>3, AmountInvariance, PTL DEF Spec

-----------------------------------------------------------------------------
(* The snapshots.                                                          *)

\* A step that leaves the ledger alone leaves the snapshots right.
LEMMA SnapshotKept ==
    ASSUME UNCHANGED <<balance, entries>>, SnapshotIsLedgerSum
    PROVE  SnapshotIsLedgerSum'
<1>1. SumsAreAmounts /\ SumsAreAmounts'
  BY LedgerSums, PTL
<1> QED BY <1>1 DEF SumsAreAmounts, SnapshotIsAmount, EntriesOf

\* Every step keeps the snapshots right.
LEMMA SnapshotNext ==
    ASSUME AmountInv, SnapshotIsLedgerSum, [Next]_vars
    PROVE  SnapshotIsLedgerSum'
<1>1. UNCHANGED <<balance, entries>> \/ \E f \in EventEntries : PostLedgerEntry(f)
  BY LedgerNext
<1>2. ASSUME NEW f \in EventEntries, PostLedgerEntry(f) PROVE SnapshotIsLedgerSum'
  <2>1. LedgerSound /\ f.account \in Account /\ f.delta \in Buckets
    BY DEF AmountInv, Amounts, EventEntries
  <2> QED BY <1>2, <2>1, PostKeepsSnapshot
<1> QED BY <1>1, <1>2, SnapshotKept

\* Under all faults and with any number of workers, the snapshot of a member is
\* what the ledger entries of rewards and refunds add up to.
THEOREM RewardSnapshotsAddUp == Spec => []SnapshotIsLedgerSum
<1>1. Init => SnapshotIsLedgerSum
  BY LedgerSoundInit DEF Init
<1>2. AmountInv /\ SnapshotIsLedgerSum /\ [Next]_vars => SnapshotIsLedgerSum'
  BY SnapshotNext
<1> QED BY <1>1, <1>2, AmountInvariance, PTL DEF Spec

-----------------------------------------------------------------------------
(* Limit usage.                                                            *)

UsageIsTotal ==
    \A a \in Account : usage[a].points = PriorUsage[a].points + Total(Earns, Purchases(a))

UsageSumsAreTotals == UsageMatchesAwards <=> UsageIsTotal

\* UsageMatchesAwards, as equations of totals.
LEMMA UsageSums == UsageSumsAreTotals
<1>1. \A a : Purchases(a) \in SUBSET Event
  BY DEF Purchases
<1>2. \A a : SumOver(Purchases(a), LAMBDA e : calculation[e].awards.earn)
               = Total(Earns, Purchases(a))
  BY <1>1, EarnSum
<1> QED BY <1>2 DEF UsageSumsAreTotals, UsageMatchesAwards, UsageIsTotal

\* A step that leaves the calculations of purchases alone leaves their sum.
LEMMA EarnsKept ==
    ASSUME AmountInv, NEW a,
           \A e \in Event : Type[e] = "purchase" /\ (Succeeded(e) \/ Succeeded(e)')
                               => calculation'[e] = calculation[e]
    PROVE  Total(Earns, Purchases(a))' = Total(Earns, Purchases(a))
<1>1. Purchases(a)' = Purchases(a)
  BY DEF Purchases, Succeeded
<1>2. \A e \in Purchases(a) : Earns'[e] = Earns[e]
  BY DEF Purchases, Earns, Succeeded
<1>3. Summable(Earns, Purchases(a))
  <2>1. Purchases(a) \in SUBSET Event /\ \A e \in Purchases(a) : Succeeded(e)
    BY DEF Purchases
  <2> QED BY <2>1, CalculatedFinite
<1>4. Total(Earns', Purchases(a)) = Total(Earns, Purchases(a))
  BY <1>2, <1>3, TotalEqual
<1> QED BY <1>1, <1>4

\* A commit adds what it earned to both sides.
LEMMA RewardsKeepUsage ==
    ASSUME AmountInv, UsageIsTotal, NEW w \in Worker, NEW calc, Rewards(w, calc)
    PROVE  UsageIsTotal'
<1> DEFINE e == work[w].event
<1>1. /\ e \in Event /\ ~Succeeded(e)
      /\ calculation' \in [Event -> Calculations]
      /\ \A f \in Event : calculation'[f] = IF f = e THEN calc ELSE calculation[f]
  BY RewardsChange
<1>2. calc.awards.earn \in Int /\ calc.status = "succeeded"
  BY DEF Rewards, Calculations, Awards
<1> SUFFICES ASSUME NEW a \in Account
             PROVE  usage'[a].points = PriorUsage[a].points + Total(Earns, Purchases(a))'
  BY DEF UsageIsTotal
<1> DEFINE old == Purchases(a)
           new == Purchases(a)'
<1>3. usage[a].points = PriorUsage[a].points + Total(Earns, old)
  BY DEF UsageIsTotal
<1>4. usage'[a].points = usage[a].points + Uses(e, calc, a)
  BY DEF Rewards
<1>5. Summable(Earns, old) /\ Total(Earns, old) \in Int /\ PriorUsage[a].points \in Int
  <2>1. old \in SUBSET Event /\ \A f \in old : Succeeded(f)
    BY DEF Purchases
  <2> HIDE DEF old
  <2>2. Summable(Earns, old)
    BY <2>1, CalculatedFinite
  <2>3. PriorUsage[a].points \in Int
    BY RuleAssumption DEF Usages
  <2> QED BY <2>2, <2>3, TotalWithout
<1>6. e \notin old /\ \A f \in old : Earns'[f] = Earns[f]
  BY <1>1 DEF Purchases, Earns
<1>7. CASE Type[e] = "purchase" /\ Member[e] = a
  <2>1. new = old \cup {e}
    BY <1>1, <1>2, <1>7 DEF Purchases, Succeeded
  <2>2. Earns'[e] = calc.awards.earn
    BY <1>1 DEF Earns
  <2> HIDE DEF old, new
  <2>3. Summable(Earns', old \cup {e})
    BY <1>2, <1>5, <1>6, <2>2, FS_AddElement DEF Summable
  <2>4. Total(Earns', old \cup {e}) = Earns'[e] + Total(Earns', old)
    BY <1>6, <2>3, TotalAdd
  <2>5. Total(Earns', old) = Total(Earns, old)
    BY <1>5, <1>6, TotalEqual
  <2>6. Total(Earns', new) = calc.awards.earn + Total(Earns, old)
    BY <2>1, <2>2, <2>4, <2>5
  <2> QED BY <1>2, <1>3, <1>4, <1>5, <1>7, <2>6 DEF Uses, new
<1>8. CASE ~(Type[e] = "purchase" /\ Member[e] = a)
  <2>1. new = old
    BY <1>1, <1>2, <1>8 DEF Purchases, Succeeded
  <2> HIDE DEF old, new
  <2>2. Total(Earns', old) = Total(Earns, old)
    BY <1>5, <1>6, TotalEqual
  <2>3. Total(Earns', new) = Total(Earns, old)
    BY <2>1, <2>2
  <2> QED BY <1>3, <1>4, <1>5, <1>8, <2>3 DEF Uses, new
<1> QED BY <1>7, <1>8

\* Every step keeps usage and awards in agreement.
LEMMA UsageNext ==
    ASSUME AmountInv, UsageIsTotal, [Next]_vars
    PROVE  UsageIsTotal'
<1>1. ASSUME UNCHANGED usage,
             \A e \in Event : Type[e] = "purchase" /\ (Succeeded(e) \/ Succeeded(e)')
                                 => calculation'[e] = calculation[e]
      PROVE  UsageIsTotal'
  <2> SUFFICES ASSUME NEW a \in Account
               PROVE  usage'[a].points = PriorUsage[a].points + Total(Earns, Purchases(a))'
    BY DEF UsageIsTotal
  <2>1. Total(Earns, Purchases(a))' = Total(Earns, Purchases(a))
    BY <1>1, EarnsKept
  <2> QED BY <1>1, <2>1 DEF UsageIsTotal
<1>2. CASE UNCHANGED <<balance, entries, calculation, usage>>
  BY <1>1, <1>2
<1>3. ASSUME NEW w \in Worker, RecordFailure(w) PROVE UsageIsTotal'
  BY <1>1, <1>3, RecordKeepsAmounts
<1> QED BY <1>2, <1>3, StepKinds, RewardsKeepUsage

(***************************************************************************)
(* The usage row of a member and the awards of its purchases agree at any  *)
(* moment: however many workers commit, crash and record failures, no use  *)
(* of the limit is lost, none is counted twice, and refunds use nothing.   *)
(***************************************************************************)
THEOREM UsageAlwaysMatches == Spec => []UsageMatchesAwards
<1>1. Init => UsageIsTotal
  <2> SUFFICES ASSUME Init PROVE UsageIsTotal
    OBVIOUS
  <2>1. \A a : Purchases(a) = {}
    BY DEF Purchases, Init, Succeeded, NoCalculation, Calculation
  <2>2. Total(Earns, {}) = 0
    BY TotalEmpty
  <2>3. ASSUME NEW a \in Account
        PROVE  usage[a].points = PriorUsage[a].points + Total(Earns, Purchases(a))
    <3>1. usage[a].points = PriorUsage[a].points /\ PriorUsage[a].points \in Nat
      BY RuleAssumption DEF Init, Usages
    <3>2. Total(Earns, Purchases(a)) = 0
      BY <2>1, <2>2
    <3> QED BY <3>1, <3>2
  <2> QED BY <2>3 DEF UsageIsTotal
<1>2. AmountInv /\ UsageIsTotal /\ [Next]_vars => UsageIsTotal'
  BY UsageNext
<1>3. UsageIsTotal => UsageMatchesAwards
  BY UsageSums DEF UsageSumsAreTotals
<1> QED BY <1>1, <1>2, <1>3, AmountInvariance, PTL DEF Spec

-----------------------------------------------------------------------------
(* Refunds.                                                                *)

\* The refunds computed from the calculation of an original, those processed before
\* there was one, and what the latter left to refund.
Reversals(o) == {r \in Refunds(o) : ~calculation[r].fallback}
Early(o) == {r \in Refunds(o) : calculation[r].fallback}
Refundable(o) == Larger(0, Eligible[o] - Total(Bases, Early(o)))

(***************************************************************************)
(* A reversal takes back a part of the awards no larger than the part of   *)
(* the eligible amount it refunds; of a purchase of nothing, nothing.      *)
(***************************************************************************)
Proportional(calc, o) ==
    IF Eligible[o] > 0
    THEN /\ (-Eligible[o]) * calc.awards.earn <= calculation[o].awards.earn * calc.basis
         /\ (-Eligible[o]) * calc.awards.bonus <= calculation[o].awards.bonus * calc.basis
    ELSE calc.awards.earn = 0 /\ calc.awards.bonus = 0 /\ calc.basis = 0

\* A rounded part is no larger than the part.
LEMMA ProrateBound ==
    ASSUME NEW v \in Nat, NEW n \in Nat, NEW d \in Nat \ {0}
    PROVE  d * Prorate(v, n, d) <= v * n
<1>1. v * n \in Nat
  <2>1. \A i, j \in Nat : i * j \in Nat
    BY Z3
  <2> QED BY <2>1
<1>2. \A m \in Nat : d * (m \div d) <= m
  BY Z3
<1>3. Prorate(v, n, d) = (v * n) \div d
  BY <1>1 DEF Prorate, Quotient
<1> HIDE DEF Prorate
<1> QED BY <1>1, <1>2, <1>3

\* A reversal of a purchase is proportional, if the earlier refunds are known.
LEMMA ReversalProportional ==
    ASSUME NEW e \in Event, Original[e] \in Event,
           calculation[Original[e]].awards.earn \in Nat,
           calculation[Original[e]].awards.bonus \in Nat,
           NEW prior \in Nat
    PROVE  Proportional(Reversal(e, prior), Original[e])
<1> DEFINE o == Original[e]
           amount == Eligible[o]
           effective == Smaller(RefundBasis(e), Larger(0, amount - prior))
           denominator == IF amount <= 0 THEN effective ELSE amount
           earn == calculation[o].awards.earn
           bonus == calculation[o].awards.bonus
           calc == Reversal(e, prior)
<1>1. Eligible[e] \in Int /\ amount \in Int
  BY InputAssumption
<1>2. effective \in Nat /\ (amount <= 0 => effective = 0)
  BY <1>1 DEF RefundBasis, Smaller, Larger
<1>3. /\ calc.basis = effective
      /\ calc.awards.earn = -Prorate(earn, effective, denominator)
      /\ calc.awards.bonus = -Prorate(bonus, effective, denominator)
  BY DEF Reversal, Calculation
<1>e. earn \in Nat /\ bonus \in Nat /\ earn \in Int /\ bonus \in Int /\ effective \in Int
  BY <1>2
<1> HIDE DEF effective, calc, earn, bonus, amount
<1>4. CASE amount <= 0
  <2>1. effective = 0 /\ denominator = 0
    BY <1>2, <1>4
  <2>2. Prorate(earn, effective, denominator) = 0 /\ Prorate(bonus, effective, denominator) = 0
    BY <2>1 DEF Prorate
  <2> QED BY <1>1, <1>3, <1>4, <2>1, <2>2 DEF Proportional, calc, amount
<1>5. CASE amount > 0
  <2>1. denominator = amount /\ amount \in Nat \ {0} /\ amount \in Nat
    BY <1>1, <1>5
  <2>2. /\ amount * Prorate(earn, effective, amount) <= earn * effective
        /\ amount * Prorate(bonus, effective, amount) <= bonus * effective
    BY <1>2, <1>e, <2>1, ProrateBound
  <2>3. Prorate(earn, effective, amount) \in Int /\ Prorate(bonus, effective, amount) \in Int
    BY <1>e, <2>1, ProrateInt
  <2>4. \A k, m \in Int : (-k) * (-m) = k * m
    OBVIOUS
  <2>5. /\ (-amount) * calc.awards.earn = amount * Prorate(earn, effective, amount)
        /\ (-amount) * calc.awards.bonus = amount * Prorate(bonus, effective, amount)
    BY <1>3, <2>1, <2>3, <2>4
  <2>6. /\ (-amount) * calc.awards.earn <= earn * calc.basis
        /\ (-amount) * calc.awards.bonus <= bonus * calc.basis
    BY <1>3, <2>2, <2>5
  <2> QED BY <1>5, <2>6 DEF Proportional, calc, amount, earn, bonus
<1> QED BY <1>1, <1>4, <1>5

(***************************************************************************)
(* The inductive invariant of refunds: what a worker about to reverse has  *)
(* read still holds, the original of a refund computed from the current    *)
(* rules has no calculation yet, purchases earn, and the reversals of a    *)
(* purchase are proportional and together take no more than was left.      *)
(***************************************************************************)
PriorsKnown ==
    \A w \in Worker : work[w].pc = "reverse" =>
        work[w].prior = PriorRefundedBasis(work[w].event)

ByRules == {"limit", "award"}

EarlyIsEarly ==
    \A w \in Worker : work[w].pc \in ByRules /\ Type[work[w].event] = "refund" =>
        ~OriginalCalculated(work[w].event)

PurchasesEarn ==
    \A e \in Event : Type[e] = "purchase" /\ Succeeded(e) =>
        calculation[e].awards.earn \in Nat /\ calculation[e].awards.bonus \in Nat

ReversalsProportional ==
    \A r \in Event : Type[r] = "refund" /\ Succeeded(r) /\ ~calculation[r].fallback =>
        /\ OriginalCalculated(r)
        /\ Type[Original[r]] = "purchase" => Proportional(calculation[r], Original[r])

BasesWithin ==
    \A o \in Event : Type[o] = "purchase" /\ Succeeded(o) =>
        Total(Bases, Reversals(o)) <= Refundable(o)

RefundInv ==
    PriorsKnown /\ EarlyIsEarly /\ PurchasesEarn /\ ReversalsProportional /\ BasesWithin

\* What reversals add up to.
LEMMA ReversalsSummable ==
    ASSUME AmountInv, NEW o \in Event
    PROVE  /\ Reversals(o) \in SUBSET Event
           /\ Summable(Bases, Reversals(o)) /\ Summable(Earns, Reversals(o))
           /\ Summable(Bonuses, Reversals(o))
           /\ Total(Bases, Reversals(o)) \in Nat
           /\ Total(Earns, Reversals(o)) \in Int /\ Total(Bonuses, Reversals(o)) \in Int
<1>1. Reversals(o) \in SUBSET Event
      /\ \A r \in Reversals(o) : Type[r] = "refund" /\ Succeeded(r)
  BY DEF Reversals, Refunds, Succeeded
<1>2. \A r \in Reversals(o) : Bases[r] \in Nat
  BY <1>1 DEF Bases, AmountInv, Amounts
<1> HIDE DEF Reversals
<1>3. IsFiniteSet(Reversals(o)) /\ Summable(Bases, Reversals(o))
      /\ Summable(Earns, Reversals(o)) /\ Summable(Bonuses, Reversals(o))
  BY <1>1, CalculatedFinite
<1>4. Total(Bases, Reversals(o)) \in Nat
  BY <1>2, <1>3, TotalNat
<1>5. Total(Earns, Reversals(o)) \in Int /\ Total(Bonuses, Reversals(o)) \in Int
  BY <1>3, TotalWithout
<1> QED BY <1>1, <1>3, <1>4, <1>5

\* What earlier refunds took, and what they left.
LEMMA EarlySummable ==
    ASSUME AmountInv, NEW o \in Event
    PROVE  /\ Early(o) \in SUBSET Event /\ Early(o) \cap Reversals(o) = {}
           /\ Early(o) \cup Reversals(o) = Refunds(o)
           /\ Summable(Bases, Early(o)) /\ Total(Bases, Early(o)) \in Nat
           /\ Refundable(o) \in Nat /\ (Eligible[o] <= 0 => Refundable(o) = 0)
<1>1. /\ Early(o) \in SUBSET Event /\ Early(o) \cap Reversals(o) = {}
      /\ \A r \in Early(o) : Type[r] = "refund" /\ Succeeded(r)
  BY DEF Early, Reversals, Refunds, Succeeded
<1>2. \A r \in Early(o) : Bases[r] \in Nat
  BY <1>1 DEF Bases, AmountInv, Amounts
<1>3. Early(o) \cup Reversals(o) = Refunds(o)
  <2>1. \A r \in Refunds(o) : calculation[r].fallback \/ ~calculation[r].fallback
    OBVIOUS
  <2> QED BY <2>1 DEF Early, Reversals
<1> HIDE DEF Early
<1>4. IsFiniteSet(Early(o)) /\ Summable(Bases, Early(o))
  BY <1>1, CalculatedFinite
<1>5. Total(Bases, Early(o)) \in Nat
  BY <1>2, <1>4, TotalNat
<1>6. Eligible[o] \in Int
  BY InputAssumption
<1> QED BY <1>1, <1>3, <1>4, <1>5, <1>6 DEF Refundable, Larger

\* Shares each no larger than its part of the amount are together no larger than
\* the share of as much as the parts come to.
LEMMA SharesWithin ==
    ASSUME NEW S, NEW f, Summable(f, S), NEW g, Summable(g, S),
           NEW whole \in Nat, NEW amount \in Nat, NEW part \in Nat,
           \A x \in S : (-amount) * f[x] <= whole * g[x],
           Total(g, S) \in Nat, Total(g, S) <= part
    PROVE  (-Total(f, S)) * amount <= whole * part
<1>1. Total(f, S) \in Int
  BY TotalWithout
<1>2. (-amount) * Total(f, S) <= whole * Total(g, S)
  <2>1. -amount \in Int /\ whole \in Int
    OBVIOUS
  <2> QED BY <2>1, TotalBound
<1>3. \A j, k, m \in Nat : j <= k => m * j <= m * k
  OBVIOUS
<1>4. whole * Total(g, S) <= whole * part
  BY <1>3
<1>5. \A i, j \in Int : (-i) * j = (-j) * i
  OBVIOUS
<1>6. (-amount) * Total(f, S) = (-Total(f, S)) * amount
  BY <1>1, <1>5
<1>7. \A i, j \in Int : i * j \in Int
  OBVIOUS
<1>8. whole * Total(g, S) \in Int /\ whole * part \in Int /\ (-Total(f, S)) * amount \in Int
  BY <1>1, <1>7
<1> QED BY <1>2, <1>4, <1>6, <1>8

\* The invariant says what the property says.
LEMMA RefundsWithin == AmountInv /\ RefundInv => RefundsWithinOriginal
<1> SUFFICES ASSUME AmountInv, RefundInv, NEW o \in Event, Type[o] = "purchase", Succeeded(o)
             PROVE  LET early == {r \in Refunds(o) : calculation[r].fallback}
                        late == Refunds(o) \ early
                        refundable == Larger(0, Eligible[o]
                                         - SumOver(early, LAMBDA r : calculation[r].basis))
                        Within(taken, award) ==
                            taken * Larger(1, Eligible[o]) <= award * refundable
                    IN /\ SumOver(late, LAMBDA r : calculation[r].basis) <= refundable
                       /\ Within(-SumOver(late, LAMBDA r : calculation[r].awards.earn),
                                 calculation[o].awards.earn)
                       /\ Within(-SumOver(late, LAMBDA r : calculation[r].awards.bonus),
                                 calculation[o].awards.bonus)
  BY DEF RefundsWithinOriginal
<1> DEFINE S == Reversals(o)
           amount == Larger(1, Eligible[o])
           earn == calculation[o].awards.earn
           bonus == calculation[o].awards.bonus
<1>1. /\ S \in SUBSET Event
      /\ Summable(Bases, S) /\ Summable(Earns, S) /\ Summable(Bonuses, S)
      /\ Total(Bases, S) \in Nat /\ Total(Earns, S) \in Int /\ Total(Bonuses, S) \in Int
  BY ReversalsSummable
<1>2. Total(Bases, S) <= Refundable(o) /\ Refundable(o) \in Nat
      /\ earn \in Nat /\ bonus \in Nat /\ amount \in Nat
  BY EarlySummable, InputAssumption DEF RefundInv, BasesWithin, PurchasesEarn, Larger
<1>3. \A r \in S : Proportional(calculation[r], o)
  BY DEF RefundInv, ReversalsProportional, Reversals, Refunds, Succeeded
<1>4. Eligible[o] \in Int
  BY InputAssumption
<1> HIDE DEF S
<1>5. \A r \in S : /\ Bases[r] = calculation[r].basis
                   /\ Earns[r] = calculation[r].awards.earn
                   /\ Bonuses[r] = calculation[r].awards.bonus
  BY <1>1 DEF Bases, Earns, Bonuses
<1>6. \A r \in S : /\ (-amount) * Earns[r] <= earn * Bases[r]
                   /\ (-amount) * Bonuses[r] <= bonus * Bases[r]
  <2>1. CASE Eligible[o] > 0
    <3>1. amount = Eligible[o]
      BY <1>4, <2>1 DEF Larger
    <3> QED BY <1>3, <1>5, <2>1, <3>1 DEF Proportional
  <2>2. CASE ~(Eligible[o] > 0)
    <3>1. \A r \in S : Earns[r] = 0 /\ Bonuses[r] = 0 /\ Bases[r] = 0
      BY <1>3, <1>5, <2>2 DEF Proportional
    <3>2. \A k \in Nat : (-k) * 0 = 0 /\ k * 0 = 0
      OBVIOUS
    <3> HIDE DEF amount, earn, bonus
    <3> QED BY <1>2, <3>1, <3>2
  <2> QED BY <2>1, <2>2
<1>7. /\ (-Total(Earns, S)) * amount <= earn * Refundable(o)
      /\ (-Total(Bonuses, S)) * amount <= bonus * Refundable(o)
  <2> HIDE DEF amount, earn, bonus
  <2> QED BY <1>1, <1>2, <1>6, SharesWithin
<1>8. /\ SumOver(S, LAMBDA r : calculation[r].basis) = Total(Bases, S)
      /\ SumOver(S, LAMBDA r : calculation[r].awards.earn) = Total(Earns, S)
      /\ SumOver(S, LAMBDA r : calculation[r].awards.bonus) = Total(Bonuses, S)
  BY <1>1, BasisSum, EarnSum, BonusSum
<1>9. Refunds(o) \ Early(o) = S
  BY EarlySummable DEF S
<1>10. Larger(0, Eligible[o] - SumOver(Early(o), LAMBDA r : calculation[r].basis)) = Refundable(o)
  <2>1. Early(o) \in SUBSET Event
    BY EarlySummable
  <2>2. SumOver(Early(o), LAMBDA r : calculation[r].basis) = Total(Bases, Early(o))
    BY <2>1, BasisSum
  <2> QED BY <2>2 DEF Refundable
<1>11. {r \in Refunds(o) : calculation[r].fallback} = Early(o)
  BY DEF Early
<1> QED BY <1>2, <1>7, <1>8, <1>9, <1>10, <1>11

\* A worker that is about to reverse has just read, or has done nothing since.
LEMMA ReverseRead ==
    ASSUME AmountInv, [Next]_vars, NEW v \in Worker, work'[v].pc = "reverse"
    PROVE  work'[v] = work[v] \/ \E e \in Event : StartReversal(v, e)
<1>w. \A w \in Worker : \A row : work' = [work EXCEPT ![w] = row] =>
          \A u \in Worker : work'[u] = IF u = w THEN row ELSE work[u]
  BY DEF AmountInv, Amounts
<1>1. ASSUME NEW w \in Worker, NEW row, work' = [work EXCEPT ![w] = row], row.pc # "reverse"
      PROVE  work'[v] = work[v]
  BY <1>1, <1>w
<1>2. CASE UNCHANGED work
  BY <1>2
<1>3. ASSUME NEW e \in Event, Ingest(e) PROVE work' = work
  BY <1>3 DEF Ingest
<1>4. ASSUME NEW w \in Worker, Claim(w) PROVE work'[v] = work[v]
  <2>1. PICK row \in WorksOver({0}) :
            work' = [work EXCEPT ![w] = row] /\ row.pc \in {"idle", "next"}
    BY <1>4, ClaimRow
  <2> QED BY <1>1, <2>1
<1>5. ASSUME NEW w \in Worker, NEW e \in Event, StartPurchaseRules(w, e) PROVE work'[v] = work[v]
  <2> DEFINE first == PriorPurchases(e) = {}
             row == [work[w] EXCEPT !.pc = "limit", !.event = e, !.first = first]
  <2>1. row.pc = "limit"
    BY DEF AmountInv, Amounts, Works
  <2>2. work' = [work EXCEPT ![w] = row]
    BY <1>5 DEF StartPurchaseRules
  <2> HIDE DEF row
  <2> QED BY <1>1, <2>1, <2>2
<1>6. ASSUME NEW w \in Worker, ReadLimitUsage(w) PROVE work'[v] = work[v]
  <2> DEFINE used == usage[Member[work[w].event]].points
             row == [work[w] EXCEPT !.pc = "award", !.used = used]
  <2>1. row.pc = "award"
    BY DEF AmountInv, Amounts, Works
  <2>2. work' = [work EXCEPT ![w] = row]
    BY <1>6 DEF ReadLimitUsage
  <2> HIDE DEF row
  <2> QED BY <1>1, <2>1, <2>2
<1>7. ASSUME NEW w \in Worker, NEW calc, Rewards(w, calc) PROVE work'[v] = work[v]
  BY <1>7, RewardsChange
<1>8. ASSUME NEW w \in Worker, Fail(w) PROVE work'[v] = work[v]
  <2> DEFINE row == [work[w] EXCEPT !.pc = "failing", !.used = 0, !.prior = 0, !.first = FALSE]
  <2>1. row.pc = "failing"
    BY DEF AmountInv, Amounts, Works
  <2>2. work' = [work EXCEPT ![w] = row]
    BY <1>8 DEF Fail
  <2> HIDE DEF row
  <2> QED BY <1>1, <2>1, <2>2
<1>9. ASSUME NEW w \in Worker, RecordFailure(w) \/ LoseFailure(w) PROVE work'[v] = work[v]
  BY <1>1, <1>9, RowsLeft DEF RecordFailure, LoseFailure
<1>10. ASSUME NEW w \in Worker, Crash(w) PROVE work'[v] = work[v]
  BY <1>1, <1>10, RowsLeft DEF Crash
<1>11. ASSUME NEW w \in Worker, NEW e \in Event, StartReversal(w, e)
       PROVE  work'[v] = work[v] \/ StartReversal(v, e)
  <2> DEFINE prior == PriorRefundedBasis(e)
             row == [work[w] EXCEPT !.pc = "reverse", !.event = e, !.prior = prior]
  <2>1. work' = [work EXCEPT ![w] = row]
    BY <1>11 DEF StartReversal
  <2> HIDE DEF row
  <2>2. v # w => work'[v] = work[v]
    BY <1>w, <2>1
  <2> QED BY <1>11, <2>2
<1>12. CASE UNCHANGED vars
  BY <1>12 DEF vars
<1> QED
  BY <1>3, <1>4, <1>5, <1>6, <1>7, <1>8, <1>9, <1>10, <1>11, <1>12,
     PurchaseRewards, FallbackRewards, ReversalRewards
  DEF Next, Work

\* A worker that computes from the rules has just started, or is where it was.
LEMMA RulesRead ==
    ASSUME AmountInv, [Next]_vars, NEW v \in Worker, work'[v].pc \in ByRules
    PROVE  \/ work[v].pc \in ByRules /\ work'[v].event = work[v].event
           \/ \E e \in Event : StartPurchaseRules(v, e) /\ work'[v].event = e
<1>w. \A w \in Worker : \A row : work' = [work EXCEPT ![w] = row] =>
          \A u \in Worker : work'[u] = IF u = w THEN row ELSE work[u]
  BY DEF AmountInv, Amounts
<1>1. ASSUME NEW w \in Worker, NEW row, work' = [work EXCEPT ![w] = row], row.pc \notin ByRules
      PROVE  work'[v] = work[v]
  BY <1>1, <1>w
<1>2. CASE UNCHANGED work
  BY <1>2
<1>3. ASSUME NEW e \in Event, Ingest(e) PROVE work' = work
  BY <1>3 DEF Ingest
<1>4. ASSUME NEW w \in Worker, Claim(w) PROVE work'[v] = work[v]
  <2>1. PICK row \in WorksOver({0}) :
            work' = [work EXCEPT ![w] = row] /\ row.pc \in {"idle", "next"}
    BY <1>4, ClaimRow
  <2> QED BY <1>1, <2>1 DEF ByRules
<1>5. ASSUME NEW w \in Worker, NEW e \in Event, StartPurchaseRules(w, e)
      PROVE  work'[v] = work[v] \/ (StartPurchaseRules(v, e) /\ work'[v].event = e)
  <2> DEFINE first == PriorPurchases(e) = {}
             row == [work[w] EXCEPT !.pc = "limit", !.event = e, !.first = first]
  <2>1. row.event = e
    BY DEF AmountInv, Amounts, Works
  <2>2. work' = [work EXCEPT ![w] = row]
    BY <1>5 DEF StartPurchaseRules
  <2> HIDE DEF row
  <2> QED BY <1>5, <1>w, <2>1, <2>2
<1>6. ASSUME NEW w \in Worker, ReadLimitUsage(w)
      PROVE  work'[v] = work[v] \/ (work[v].pc \in ByRules /\ work'[v].event = work[v].event)
  <2> DEFINE used == usage[Member[work[w].event]].points
             row == [work[w] EXCEPT !.pc = "award", !.used = used]
  <2>1. row.event = work[w].event /\ work[w].pc \in ByRules
    BY <1>6 DEF ReadLimitUsage, ByRules, AmountInv, Amounts, Works
  <2>2. work' = [work EXCEPT ![w] = row]
    BY <1>6 DEF ReadLimitUsage
  <2> HIDE DEF row
  <2> QED BY <1>w, <2>1, <2>2
<1>7. ASSUME NEW w \in Worker, NEW calc, Rewards(w, calc) PROVE work'[v] = work[v]
  BY <1>7, RewardsChange DEF ByRules
<1>8. ASSUME NEW w \in Worker, Fail(w) PROVE work'[v] = work[v]
  <2> DEFINE row == [work[w] EXCEPT !.pc = "failing", !.used = 0, !.prior = 0, !.first = FALSE]
  <2>1. row.pc = "failing"
    BY DEF AmountInv, Amounts, Works
  <2>2. work' = [work EXCEPT ![w] = row]
    BY <1>8 DEF Fail
  <2> HIDE DEF row
  <2> QED BY <1>1, <2>1, <2>2 DEF ByRules
<1>9. ASSUME NEW w \in Worker, RecordFailure(w) \/ LoseFailure(w) \/ Crash(w)
      PROVE  work'[v] = work[v]
  <2>1. Finished(w).pc \in {"idle", "next"} /\ Idle.pc = "idle"
    BY DEF Finished, Idle
  <2>2. PICK row : work' = [work EXCEPT ![w] = row] /\ row.pc \in {"idle", "next"}
    BY <1>9, <2>1 DEF RecordFailure, LoseFailure, Crash
  <2> QED BY <1>1, <2>2 DEF ByRules
<1>10. ASSUME NEW w \in Worker, NEW e \in Event, StartReversal(w, e) PROVE work'[v] = work[v]
  <2> DEFINE prior == PriorRefundedBasis(e)
             row == [work[w] EXCEPT !.pc = "reverse", !.event = e, !.prior = prior]
  <2>1. row.pc = "reverse"
    BY DEF AmountInv, Amounts, Works
  <2>2. work' = [work EXCEPT ![w] = row]
    BY <1>10 DEF StartReversal
  <2> HIDE DEF row
  <2> QED BY <1>1, <2>1, <2>2 DEF ByRules
<1>11. CASE UNCHANGED vars
  BY <1>11 DEF vars
<1> QED
  BY <1>3, <1>4, <1>5, <1>6, <1>7, <1>8, <1>9, <1>10, <1>11,
     PurchaseRewards, FallbackRewards, ReversalRewards
  DEF Next, Work

\* With one worker, no original gets its calculation meanwhile.
LEMMA EarlyNext ==
    ASSUME AmountInv, EarlyIsEarly, \A v, w \in Worker : v = w, [Next]_vars
    PROVE  EarlyIsEarly'
<1> SUFFICES ASSUME NEW v \in Worker, work'[v].pc \in ByRules, Type[work'[v].event] = "refund"
             PROVE  ~OriginalCalculated(work[v].event)'
  BY DEF EarlyIsEarly
<1>1. ASSUME NEW w \in Worker, RecordFailure(w) PROVE FALSE
  <2>1. work' = [work EXCEPT ![v] = Finished(v)]
    BY <1>1 DEF RecordFailure
  <2>2. Finished(v).pc \in {"idle", "next"}
    BY DEF Finished, Idle
  <2> QED BY <2>1, <2>2 DEF AmountInv, Amounts, ByRules
<1>2. ASSUME NEW w \in Worker, NEW calc, Rewards(w, calc) PROVE FALSE
  BY <1>2, RewardsChange DEF ByRules
<1>3. UNCHANGED calculation
  BY <1>1, <1>2, StepKinds
<1>4. ~OriginalCalculated(work'[v].event)
  <2>1. CASE work[v].pc \in ByRules /\ work'[v].event = work[v].event
    BY <2>1 DEF EarlyIsEarly
  <2>2. ASSUME NEW e \in Event, StartPurchaseRules(v, e), work'[v].event = e
        PROVE  ~OriginalCalculated(work'[v].event)
    BY <2>2 DEF StartPurchaseRules
  <2> QED BY <2>1, <2>2, RulesRead
<1> QED BY <1>3, <1>4 DEF OriginalCalculated

PriorIsTotal ==
    \A e \in Event : PriorRefundedBasis(e) = Total(Bases, Refunds(Original[e]) \ {e})

\* The basis refunded before, as a total.
LEMMA PriorTotal == PriorIsTotal
<1> SUFFICES ASSUME NEW e \in Event
             PROVE  PriorRefundedBasis(e) = Total(Bases, Refunds(Original[e]) \ {e})
  BY DEF PriorIsTotal
<1>1. Refunds(Original[e]) \ {e} \in SUBSET Event
  BY DEF Refunds
<1> QED BY <1>1, BasisSum DEF PriorRefundedBasis

\* It changes with the calculations only.
LEMMA PriorKept ==
    ASSUME UNCHANGED calculation
    PROVE  \A e \in Event : PriorRefundedBasis(e)' = PriorRefundedBasis(e)
<1>1. PriorIsTotal /\ PriorIsTotal'
  BY PriorTotal, PTL
<1>2. Bases' = Bases /\ \A o : Refunds(o)' = Refunds(o)
  BY DEF Bases, Refunds
<1> QED BY <1>1, <1>2 DEF PriorIsTotal

\* With one worker, what it has read is still so when it reverses.
LEMMA PriorsNext ==
    ASSUME AmountInv, PriorsKnown, \A v, w \in Worker : v = w, [Next]_vars
    PROVE  PriorsKnown'
<1> SUFFICES ASSUME NEW v \in Worker, work'[v].pc = "reverse"
             PROVE  work'[v].prior = PriorRefundedBasis(work[v].event)'
  BY DEF PriorsKnown
<1>1. CASE \E e \in Event : StartReversal(v, e)
  <2>1. PICK e \in Event : StartReversal(v, e)
    BY <1>1
  <2> DEFINE prior == PriorRefundedBasis(e)
             row == [work[v] EXCEPT !.pc = "reverse", !.event = e, !.prior = prior]
  <2>2. work' = [work EXCEPT ![v] = row] /\ UNCHANGED calculation
    BY <2>1 DEF StartReversal
  <2>3. row.event = e /\ row.prior = prior
    BY DEF AmountInv, Amounts, Works
  <2> HIDE DEF row
  <2>4. work'[v].event = e /\ work'[v].prior = prior
    BY <2>2, <2>3 DEF AmountInv, Amounts
  <2>5. PriorRefundedBasis(e)' = PriorRefundedBasis(e)
    BY <2>2, PriorKept
  <2> QED BY <2>4, <2>5
<1>2. CASE work'[v] = work[v] /\ UNCHANGED calculation
  <2>1. work[v].prior = PriorRefundedBasis(work[v].event) /\ work[v].event \in Event
    BY <1>2, EventInHand DEF PriorsKnown, AmountInv, Active
  <2>2. PICK e \in Event : e = work[v].event
    BY <2>1
  <2>3. PriorRefundedBasis(e)' = PriorRefundedBasis(e)
    BY <1>2, PriorKept
  <2>4. work'[v].event = e /\ work'[v].prior = PriorRefundedBasis(e)
    BY <1>2, <2>1, <2>2
  <2> QED BY <2>3, <2>4
<1>3. ASSUME NEW w \in Worker, RecordFailure(w) PROVE FALSE
  <2>1. work' = [work EXCEPT ![v] = Finished(v)]
    BY <1>3 DEF RecordFailure
  <2> QED BY <2>1, RowsLeft DEF AmountInv, Amounts
<1>4. ASSUME NEW w \in Worker, NEW calc, Rewards(w, calc) PROVE FALSE
  BY <1>4, RewardsChange
<1> QED BY <1>1, <1>2, <1>3, <1>4, ReverseRead, StepKinds

\* What succeeds keeps its calculation, so only a commit disturbs the rest.
LEMMA RefundsKept ==
    ASSUME AmountInv, RefundInv,
           \A e \in Event : Succeeded(e) \/ Succeeded(e)' => calculation'[e] = calculation[e]
    PROVE  PurchasesEarn' /\ ReversalsProportional' /\ BasesWithin'
<1>1. \A e \in Event : Succeeded(e)' <=> Succeeded(e)
  BY DEF Succeeded
<1>2. PurchasesEarn'
  BY <1>1 DEF RefundInv, PurchasesEarn
<1>3. ASSUME NEW r \in Event, Type[r] = "refund", Succeeded(r)', ~calculation'[r].fallback
      PROVE  /\ OriginalCalculated(r)'
             /\ Type[Original[r]] = "purchase" =>
                   Proportional(calculation[r], Original[r])'
  <2>1. Succeeded(r) /\ calculation'[r] = calculation[r]
    BY <1>1, <1>3
  <2>2. /\ OriginalCalculated(r)
        /\ Type[Original[r]] = "purchase" => Proportional(calculation[r], Original[r])
    BY <1>3, <2>1 DEF RefundInv, ReversalsProportional
  <2>3. Original[r] \in Event /\ Succeeded(Original[r])
    BY <2>2, OriginalIsEvent DEF OriginalCalculated, Succeeded
  <2>4. calculation'[Original[r]] = calculation[Original[r]]
    BY <2>3
  <2> QED BY <2>1, <2>2, <2>4 DEF OriginalCalculated, Proportional
<1>4. ReversalsProportional'
  BY <1>3 DEF ReversalsProportional
<1>5. ASSUME NEW o \in Event, Type[o] = "purchase", Succeeded(o)'
      PROVE  Total(Bases, Reversals(o))' <= Refundable(o)'
  <2>1. Total(Bases, Reversals(o)) <= Refundable(o)
    BY <1>1, <1>5 DEF RefundInv, BasesWithin
  <2>2. Reversals(o)' = Reversals(o) /\ Early(o)' = Early(o)
    BY <1>1 DEF Reversals, Early, Refunds, Succeeded
  <2>3. Summable(Bases, Reversals(o)) /\ Summable(Bases, Early(o))
    BY ReversalsSummable, EarlySummable
  <2>4. \A r \in Reversals(o) \cup Early(o) : Bases'[r] = Bases[r]
    BY DEF Bases, Reversals, Early, Refunds, Succeeded
  <2> HIDE DEF Bases, Reversals, Early
  <2>5. /\ Total(Bases', Reversals(o)) = Total(Bases, Reversals(o))
        /\ Total(Bases', Early(o)) = Total(Bases, Early(o))
    BY <2>3, <2>4, TotalEqual
  <2>6. /\ Total(Bases, Reversals(o))' = Total(Bases, Reversals(o))
        /\ Total(Bases, Early(o))' = Total(Bases, Early(o))
    BY <2>2, <2>5
  <2> QED BY <2>1, <2>6 DEF Refundable
<1>6. BasesWithin'
  BY <1>5 DEF BasesWithin
<1> QED BY <1>2, <1>4, <1>6

\* A commit: a purchase has no reversals yet, and a reversal takes what is left.
LEMMA RewardsKeepRefunds ==
    ASSUME AmountInv, RefundInv, NEW w \in Worker, NEW calc, Rewards(w, calc)
    PROVE  PurchasesEarn' /\ ReversalsProportional' /\ BasesWithin'
<1> DEFINE e == work[w].event
           o == Original[e]
           reversal == Type[e] = "refund" /\ ~calc.fallback
<1>1. /\ e \in Event /\ ~Succeeded(e)
      /\ calculation' \in [Event -> Calculations]
      /\ \A f \in Event : calculation'[f] = IF f = e THEN calc ELSE calculation[f]
      /\ \A f \in Event : OriginalCalculated(f) => OriginalCalculated(f)'
  BY RewardsChange
<1>2. calc.status = "succeeded" /\ (Type[e] = "refund" => calc.basis \in Nat)
      /\ Type[e] \in {"purchase", "refund"}
  BY <1>1, InputAssumption DEF Rewards
<1>3. \A f \in Event : Succeeded(f)' <=> f = e \/ Succeeded(f)
  BY <1>1, <1>2 DEF Succeeded
<1>4. PurchasesEarn'
  <2> SUFFICES ASSUME NEW f \in Event, Type[f] = "purchase", Succeeded(f)'
               PROVE  calculation'[f].awards.earn \in Nat /\ calculation'[f].awards.bonus \in Nat
    BY DEF PurchasesEarn
  <2>1. CASE f = e
    BY <1>1, <2>1 DEF Rewards
  <2>2. CASE f # e
    BY <1>1, <1>3, <2>2 DEF RefundInv, PurchasesEarn
  <2> QED BY <2>1, <2>2
<1>5. ASSUME reversal
      PROVE  /\ OriginalCalculated(e) /\ o \in Event /\ o # e /\ Succeeded(o)
             /\ work[w].prior \in Nat /\ work[w].prior = Total(Bases, Refunds(o) \ {e})
             /\ calc = Reversal(e, work[w].prior)
  <2>1. work[w].pc = "reverse" /\ calc = Reversal(e, work[w].prior)
    BY <1>5 DEF Rewards
  <2>2. OriginalCalculated(e) /\ work[w].prior = PriorRefundedBasis(e)
    BY <2>1 DEF AmountInv, Amounts, RefundInv, PriorsKnown
  <2>3. o \in Event /\ Succeeded(o)
    BY <1>1, <2>2, OriginalIsEvent DEF OriginalCalculated, Succeeded
  <2>4. work[w].prior \in Nat /\ work[w].prior = Total(Bases, Refunds(o) \ {e})
    BY <1>1, <2>2, PriorNat
  <2> QED BY <1>1, <2>1, <2>2, <2>3, <2>4
<1>6. ASSUME NEW r \in Event, Type[r] = "refund", Succeeded(r)', ~calculation'[r].fallback
      PROVE  /\ OriginalCalculated(r)'
             /\ Type[Original[r]] = "purchase" =>
                   Proportional(calculation[r], Original[r])'
  <2>1. CASE r = e
    <3>1. reversal
      BY <1>1, <1>6, <2>1
    <3>2. OriginalCalculated(r)
      BY <1>5, <2>1, <3>1
    <3>3. ASSUME Type[o] = "purchase" PROVE Proportional(calc, o)
      <4>1. calculation[o].awards.earn \in Nat /\ calculation[o].awards.bonus \in Nat
        BY <1>5, <3>1, <3>3 DEF RefundInv, PurchasesEarn
      <4> QED BY <1>1, <1>5, <3>1, <4>1, ReversalProportional
    <3>4. calculation'[e] = calc /\ calculation'[o] = calculation[o]
      BY <1>1, <1>5, <3>1
    <3>5. OriginalCalculated(r)'
      BY <1>1, <3>2
    <3> QED BY <2>1, <3>3, <3>4, <3>5 DEF Proportional
  <2>2. CASE r # e
    <3>1. Succeeded(r) /\ calculation'[r] = calculation[r]
      BY <1>1, <1>3, <1>6, <2>2
    <3>2. /\ OriginalCalculated(r)
          /\ Type[Original[r]] = "purchase" => Proportional(calculation[r], Original[r])
      BY <1>6, <3>1 DEF RefundInv, ReversalsProportional
    <3>3. Original[r] \in Event /\ Original[r] # e
      BY <1>1, <3>2, OriginalIsEvent DEF OriginalCalculated, Succeeded
    <3>4. calculation'[Original[r]] = calculation[Original[r]]
      BY <1>1, <3>3
    <3>5. OriginalCalculated(r)'
      BY <1>1, <3>2
    <3> QED BY <3>1, <3>2, <3>4, <3>5 DEF Proportional
  <2> QED BY <2>1, <2>2
<1>7. ReversalsProportional'
  BY <1>6 DEF ReversalsProportional
<1>8. ASSUME NEW p \in Event, Type[p] = "purchase", Succeeded(p)'
      PROVE  Total(Bases, Reversals(p))' <= Refundable(p)'
  <2>e. Eligible[p] \in Int
    BY InputAssumption
  <2>1. CASE p = e
    <3>1. Reversals(p)' = {}
      <4> SUFFICES ASSUME NEW r \in Event, Type[r] = "refund", Original[r] = p, Succeeded(r)',
                          ~calculation'[r].fallback
                   PROVE  FALSE
        BY DEF Reversals, Refunds, Succeeded
      <4>1. r # e
        BY <1>8, <2>1
      <4>2. Succeeded(r) /\ ~calculation[r].fallback
        BY <1>1, <1>3, <4>1
      <4>3. OriginalCalculated(r)
        BY <4>2 DEF RefundInv, ReversalsProportional
      <4> QED BY <1>1, <2>1, <4>3 DEF OriginalCalculated, Succeeded
    <3>2. Total(Bases', {}) = 0
      BY TotalEmpty
    <3>3. Total(Bases, Reversals(p))' = 0
      BY <3>1, <3>2
    <3>4. Early(p)' = Early(p)
      BY <1>1, <1>3, <1>8, <2>1 DEF Early, Refunds, Succeeded
    <3>5. Total(Bases', Early(p)) = Total(Bases, Early(p)) /\ Total(Bases, Early(p)) \in Nat
      <4>1. \A r \in Early(p) : Bases[r] = Bases'[r]
        BY <1>1, <1>8, <2>1 DEF Bases, Early, Refunds
      <4>2. Summable(Bases, Early(p)) /\ Total(Bases, Early(p)) \in Nat
        BY EarlySummable
      <4> HIDE DEF Bases
      <4> QED BY <4>1, <4>2, TotalEqual
    <3>6. Refundable(p)' = Refundable(p)
      BY <3>4, <3>5 DEF Refundable
    <3> QED BY <2>e, <3>3, <3>5, <3>6 DEF Refundable, Larger
  <2>2. CASE p # e
    <3> DEFINE S == Reversals(p)
    <3> DEFINE E == Early(p)
    <3>1. Succeeded(p) /\ Total(Bases, S) <= Refundable(p)
      BY <1>3, <1>8, <2>2 DEF RefundInv, BasesWithin
    <3>2. /\ S \in SUBSET Event /\ Summable(Bases, S) /\ Total(Bases, S) \in Nat
          /\ E \in SUBSET Event /\ Summable(Bases, E) /\ Total(Bases, E) \in Nat
          /\ E \cap S = {} /\ E \cup S = Refunds(p)
      BY ReversalsSummable, EarlySummable
    <3>3. e \notin Refunds(p) /\ e \notin S /\ \A r \in Refunds(p) : Bases'[r] = Bases[r]
      BY <1>1 DEF Bases, Reversals, Refunds, Succeeded
    <3>4. Total(Bases', S) = Total(Bases, S) /\ Total(Bases', E) = Total(Bases, E)
      <4> HIDE DEF S, E
      <4> QED BY <3>2, <3>3, TotalEqual
    <3>a. ASSUME Type[e] = "refund", o = p PROVE reversal
      <4>1. OriginalCalculated(e)
        BY <1>1, <3>1, <3>a, EventAssumption DEF OriginalCalculated, Succeeded
      <4>2. work[w].pc # "award"
        BY <3>a, <4>1 DEF RefundInv, EarlyIsEarly, ByRules
      <4>3. calc = Reversal(e, work[w].prior)
        BY <3>a, <4>2 DEF Rewards
      <4>4. ~calc.fallback
        BY <4>3 DEF Reversal, Calculation
      <4> QED BY <3>a, <4>4
    <3>b. Early(p)' = E
      BY <1>1, <1>2, <1>3, <3>a DEF Early, Refunds, Succeeded
    <3>c. Refundable(p)' = Refundable(p)
      BY <3>4, <3>b DEF Refundable
    <3>5. CASE reversal /\ o = p
      <4>1. Reversals(p)' = S \cup {e}
        BY <1>1, <1>2, <1>3, <3>5 DEF Reversals, Refunds, Succeeded
      <4>2. Bases'[e] = calc.basis /\ calc.basis \in Nat
        BY <1>1, <1>2, <3>5 DEF Bases
      <4>3. Total(Bases', S \cup {e}) = calc.basis + Total(Bases, S)
        <5> HIDE DEF S
        <5>1. Summable(Bases', S \cup {e})
          BY <3>2, <3>3, <4>2, FS_AddElement DEF Summable
        <5>2. Total(Bases', S \cup {e}) = Bases'[e] + Total(Bases', S)
          BY <3>3, <5>1, TotalAdd
        <5> QED BY <3>4, <4>2, <5>2
      <4>4. work[w].prior = Total(Bases, E) + Total(Bases, S)
        <5>1. Refunds(p) \ {e} = E \cup S
          BY <3>2, <3>3
        <5>2. work[w].prior = Total(Bases, E \cup S)
          BY <1>5, <3>5, <5>1
        <5> HIDE DEF E, S
        <5>3. Summable(Bases, E \cup S)
          BY <3>2, FS_Union DEF Summable
        <5> QED BY <3>2, <5>2, <5>3, TotalUnion
      <4>5. calc.basis <= Larger(0, Eligible[p] - work[w].prior) /\ work[w].prior \in Nat
        <5>1. calculation[o] \in Calculations
          BY <1>5, <3>5 DEF AmountInv, Amounts
        <5> QED BY <1>1, <1>5, <3>5, <5>1, ReversalShape
      <4>6. Total(Bases, Reversals(p))' = calc.basis + Total(Bases, S)
        BY <4>1, <4>3
      <4>7. Total(Bases, S) <= Larger(0, Eligible[p] - Total(Bases, E))
        BY <3>1 DEF Refundable
      <4> HIDE DEF S, E
      <4>8. calc.basis + Total(Bases, S) <= Larger(0, Eligible[p] - Total(Bases, E))
        BY <2>e, <3>2, <4>2, <4>4, <4>5, <4>7 DEF Larger
      <4> QED BY <3>c, <4>6, <4>8 DEF Refundable, E
    <3>6. CASE ~(reversal /\ o = p)
      <4>1. Reversals(p)' = S
        BY <1>1, <1>2, <1>3, <3>6 DEF Reversals, Refunds, Succeeded
      <4>2. Total(Bases, Reversals(p))' = Total(Bases, S)
        BY <3>4, <4>1
      <4> QED BY <3>1, <3>c, <4>2
    <3> QED BY <3>5, <3>6
  <2> QED BY <2>1, <2>2
<1>9. BasesWithin'
  BY <1>8 DEF BasesWithin
<1> QED BY <1>4, <1>7, <1>9

\* Every step of one worker keeps the invariant of refunds.
LEMMA RefundNext ==
    ASSUME AmountInv, RefundInv, \A v, w \in Worker : v = w, [Next]_vars
    PROVE  RefundInv'
<1>1. PriorsKnown' /\ EarlyIsEarly'
  BY PriorsNext, EarlyNext DEF RefundInv
<1>2. PurchasesEarn' /\ ReversalsProportional' /\ BasesWithin'
  <2>1. CASE UNCHANGED <<balance, entries, calculation, usage>>
    BY <2>1, RefundsKept
  <2>2. ASSUME NEW w \in Worker, RecordFailure(w)
        PROVE  PurchasesEarn' /\ ReversalsProportional' /\ BasesWithin'
    BY <2>2, RecordKeepsAmounts, RefundsKept
  <2> QED BY <2>1, <2>2, StepKinds, RewardsKeepRefunds
<1> QED BY <1>1, <1>2 DEF RefundInv

(***************************************************************************)
(* With one worker at a time, the refunds processed after a purchase take  *)
(* back no more than what the refunds processed before it left of its      *)
(* eligible amount, and of each award no more than that share: for any     *)
(* amounts, in any order, and whatever crashes, fails to be recorded or is *)
(* committed without the worker learning of it.                            *)
(***************************************************************************)
THEOREM RefundsAlwaysWithin ==
    (\A v, w \in Worker : v = w) => (Spec => []RefundsWithinOriginal)
<1> SUFFICES ASSUME \A v, w \in Worker : v = w PROVE Spec => []RefundsWithinOriginal
  OBVIOUS
<1>1. Init => RefundInv
  <2> SUFFICES ASSUME Init PROVE RefundInv
    OBVIOUS
  <2>1. \A e \in Event : ~Succeeded(e)
    BY DEF Init, Succeeded, NoCalculation, Calculation
  <2>2. \A w \in Worker : work[w].pc = "idle"
    BY DEF Init, Idle
  <2> QED
    BY <2>1, <2>2
    DEF RefundInv, PriorsKnown, EarlyIsEarly, ByRules, PurchasesEarn, ReversalsProportional,
        BasesWithin
<1>2. AmountInv /\ RefundInv /\ [Next]_vars => RefundInv'
  BY RefundNext
<1> QED BY <1>1, <1>2, RefundsWithin, AmountInvariance, PTL DEF Spec
=============================================================================
