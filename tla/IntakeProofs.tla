---------------------------- MODULE IntakeProofs ----------------------------
(***************************************************************************)
(* For every set of events and handlers: a stored delivery is in one pair  *)
(* of hands at a time, its tries are bounded, its verdict stands, and its  *)
(* work is committed once but for upsets.                                  *)
(*                                                                         *)
(* The inductive invariant says what the claim's condition buys.  A row    *)
(* nobody has claimed has no attempts; a handler past its claim finds the  *)
(* row PROCESSING with the attempt it made; and since a claim starts from  *)
(* RECEIVED or FAILED only, no second handler gets past it.                *)
(***************************************************************************)
EXTENDS Intake, TLAPS

\* A handler that is not idle has a delivery.
HandlersHaveEvents ==
  \A h \in Handlers : handler[h].at # "idle" => handler[h].event \in Events

\* Attempts are counted from the first claim.
UnclaimedIsUntried ==
  \A e \in Events :
    row[e].state \in {"ABSENT", "RECEIVED"} => row[e].attempts = 0

IInv == /\ TypeOK
        /\ HandlersHaveEvents
        /\ UnclaimedIsUntried
        /\ OneHandlerAtATime
        /\ TriesAreBounded

RowType == [state: States, attempts: Nat, due: BOOLEAN]

HandlerType == [at: Stages, event: Events \cup {NoEvent}, attempts: Nat]

-----------------------------------------------------------------------------
\* What a step does to one row: the others are as they were.
LEMMA OneRow ==
  ASSUME TypeOK, NEW e \in Events, NEW r \in RowType,
         row' = [row EXCEPT ![e] = r]
  PROVE  /\ row' \in [Events -> RowType]
         /\ row'[e] = r
         /\ \A f \in Events : f # e => row'[f] = row[f]
BY DEF TypeOK, RowType

\* What a step does to one handler.
LEMMA OneHandler ==
  ASSUME TypeOK, NEW h \in Handlers, NEW n \in HandlerType,
         handler' = [handler EXCEPT ![h] = n]
  PROVE  /\ handler' \in [Handlers -> HandlerType]
         /\ handler'[h] = n
         /\ \A g \in Handlers : g # h => handler'[g] = handler[g]
BY DEF TypeOK, HandlerType

\* The invariant after a step that changes the row of a delivery nobody has
\* claimed, whether or not a handler takes up one to claim.
LEMMA FreeRowKeeps ==
  ASSUME IInv, NEW e \in Events, NEW r \in RowType,
         row' = [row EXCEPT ![e] = r],
         handler' \in [Handlers -> HandlerType],
         HandlersHaveEvents',
         \A h \in Handlers :
           handler'[h].at \in Busy => handler'[h] = handler[h],
         worked' \in [Events -> Nat], UNCHANGED <<upsets, crashes>>,
         row[e].state # "PROCESSING",
         r.due => r.state = "FAILED",
         r.state \in {"ABSENT", "RECEIVED"} => r.attempts = 0,
         r.attempts <= MAX_ATTEMPTS,
         r.state = "FAILED" => r.attempts < MAX_ATTEMPTS
  PROVE  IInv'
<1>1. /\ row' \in [Events -> RowType]
      /\ row'[e] = r
      /\ \A f \in Events : f # e => row'[f] = row[f]
  BY OneRow DEF IInv
<1>2. TypeOK'
  BY <1>1 DEF IInv, TypeOK, RowType, HandlerType
<1>3. UnclaimedIsUntried'
  BY <1>1 DEF IInv, UnclaimedIsUntried
<1>4. OneHandlerAtATime'
  <2>1. \A h \in Handlers : handler'[h].at \in Busy =>
          row'[handler'[h].event] = row[handler[h].event]
    BY <1>1 DEF IInv, OneHandlerAtATime, HandlersHaveEvents, Busy
  <2>2. QED
    BY <2>1 DEF IInv, OneHandlerAtATime
<1>5. TriesAreBounded'
  BY <1>1 DEF IInv, TriesAreBounded
<1>6. QED
  BY <1>2, <1>3, <1>4, <1>5 DEF IInv

\* The invariant after a step of a handler that changes no row.
LEMMA HandlerKeeps ==
  ASSUME IInv, NEW h \in Handlers, NEW n \in HandlerType,
         handler' = [handler EXCEPT ![h] = n], UNCHANGED row,
         worked' \in [Events -> Nat],
         upsets' \in 0..MaxUpsets, crashes' \in 0..MaxCrashes,
         n.at # "idle" => n.event \in Events,
         n.at \in Busy => /\ handler[h].at \in Busy
                          /\ n.event = handler[h].event
                          /\ n.attempts = handler[h].attempts
  PROVE  IInv'
<1>1. /\ handler' \in [Handlers -> HandlerType]
      /\ handler'[h] = n
      /\ \A g \in Handlers : g # h => handler'[g] = handler[g]
  BY OneHandler DEF IInv
<1>2. TypeOK'
  BY <1>1 DEF IInv, TypeOK, HandlerType
<1>3. HandlersHaveEvents'
  BY <1>1 DEF IInv, HandlersHaveEvents
<1>4. UnclaimedIsUntried'
  BY DEF IInv, UnclaimedIsUntried
<1>5. OneHandlerAtATime'
  <2>1. SUFFICES ASSUME NEW g \in Handlers, handler'[g].at \in Busy
        PROVE  /\ row[handler'[g].event].state = "PROCESSING"
               /\ row[handler'[g].event].attempts = handler'[g].attempts + 1
               /\ \A k \in Handlers \ {g} :
                    handler'[k].at \in Busy =>
                      handler'[k].event # handler'[g].event
    BY DEF OneHandlerAtATime
  <2>2. \A k \in Handlers :
          handler'[k].at \in Busy =>
            /\ handler[k].at \in Busy
            /\ handler'[k].event = handler[k].event
            /\ handler'[k].attempts = handler[k].attempts
    BY <1>1
  <2>3. QED
    BY <2>1, <2>2 DEF IInv, OneHandlerAtATime
<1>6. TriesAreBounded'
  BY DEF IInv, TriesAreBounded
<1>7. QED
  BY <1>2, <1>3, <1>4, <1>5, <1>6 DEF IInv

\* A claim: from RECEIVED or FAILED, by a handler that read this attempt.
LEMMA ClaimKeeps ==
  ASSUME IInv, NEW h \in Handlers, ClaimDelivery(h)
  PROVE  IInv'
<1> DEFINE e == handler[h].event
           r == [state |-> "PROCESSING", attempts |-> handler[h].attempts + 1,
                 due |-> FALSE]
           n == [handler[h] EXCEPT !.at = "claimed"]
<1>1. e \in Events /\ handler[h].attempts \in Nat
  BY DEF IInv, HandlersHaveEvents, TypeOK, ClaimDelivery
<1>2. row[e] \in RowType /\ handler[h] \in HandlerType
  BY <1>1 DEF IInv, TypeOK, RowType, HandlerType
<1>3. row' = [row EXCEPT ![e] = r] /\ r \in RowType
  BY <1>1, <1>2 DEF ClaimDelivery, RowType, States
<1>4. /\ handler' = [handler EXCEPT ![h] = n]
      /\ n \in HandlerType
      /\ n.at = "claimed" /\ n.event = e /\ n.attempts = handler[h].attempts
  BY <1>1, <1>2 DEF ClaimDelivery, HandlerType, Stages
<1>5. /\ row' \in [Events -> RowType]
      /\ row'[e] = r
      /\ \A f \in Events : f # e => row'[f] = row[f]
  <2> HIDE DEF r, e
  <2> QED BY <1>1, <1>3, OneRow DEF IInv
<1>6. /\ handler' \in [Handlers -> HandlerType]
      /\ handler'[h] = n
      /\ \A g \in Handlers : g # h => handler'[g] = handler[g]
  <2> HIDE DEF n, e
  <2> QED BY <1>4, OneHandler DEF IInv
<1> HIDE DEF n
<1>7. /\ row[e].state \in {"RECEIVED", "FAILED"}
      /\ row[e].attempts = handler[h].attempts
  BY DEF ClaimDelivery, Claimable
<1>8. \A g \in Handlers : handler[g].at \in Busy => handler[g].event # e
  BY <1>7 DEF IInv, OneHandlerAtATime
<1>9. TypeOK'
  BY <1>5, <1>6 DEF IInv, TypeOK, RowType, HandlerType, ClaimDelivery
<1>10. HandlersHaveEvents'
  BY <1>1, <1>4, <1>6 DEF IInv, HandlersHaveEvents
<1>11. UnclaimedIsUntried'
  BY <1>5 DEF IInv, UnclaimedIsUntried
<1>12. OneHandlerAtATime'
  <2>1. SUFFICES ASSUME NEW g \in Handlers, handler'[g].at \in Busy
        PROVE  /\ row'[handler'[g].event].state = "PROCESSING"
               /\ row'[handler'[g].event].attempts = handler'[g].attempts + 1
               /\ \A k \in Handlers \ {g} :
                    handler'[k].at \in Busy =>
                      handler'[k].event # handler'[g].event
    BY DEF OneHandlerAtATime
  <2>2. CASE g = h
    <3>1. handler'[g] = n
      BY <1>6, <2>2
    <3>2. \A k \in Handlers \ {g} :
            handler'[k].at \in Busy => handler'[k].event # e
      BY <1>6, <1>8, <2>2
    <3>3. QED
      BY <1>4, <1>5, <3>1, <3>2
  <2>3. CASE g # h
    <3>1. handler'[g] = handler[g] /\ handler[g].event # e
      BY <1>6, <1>8, <2>1, <2>3
    <3>2. handler[g].event \in Events
      BY <2>1, <3>1 DEF IInv, HandlersHaveEvents, Busy
    <3>3. /\ row[handler[g].event].state = "PROCESSING"
          /\ row[handler[g].event].attempts = handler[g].attempts + 1
          /\ \A k \in Handlers \ {g} :
               handler[k].at \in Busy => handler[k].event # handler[g].event
      BY <2>1, <3>1 DEF IInv, OneHandlerAtATime
    <3>4. row'[handler[g].event] = row[handler[g].event]
      BY <1>5, <3>1, <3>2
    <3>5. \A k \in Handlers \ {g} :
            handler'[k].at \in Busy => handler'[k].event # handler[g].event
      BY <1>4, <1>6, <3>1, <3>3
    <3>6. QED
      BY <3>1, <3>3, <3>4, <3>5
  <2>4. QED
    BY <2>2, <2>3
<1>13. TriesAreBounded'
  <2>1. handler[h].attempts + 1 <= MAX_ATTEMPTS
    BY <1>1, <1>7, IntakeAssumption
    DEF IInv, UnclaimedIsUntried, TriesAreBounded
  <2>2. QED
    BY <1>5, <2>1 DEF IInv, TriesAreBounded
<1>14. QED
  BY <1>9, <1>10, <1>11, <1>12, <1>13 DEF IInv

\* A mark: the handler lets go of a row that is nobody else's.
LEMMA MarkKeeps ==
  ASSUME IInv, NEW h \in Handlers, NEW s \in Final \cup {"FAILED"},
         handler[h].at \in Busy, Mark(h, s),
         s = "FAILED" => handler[h].attempts + 1 < MAX_ATTEMPTS
  PROVE  IInv'
<1> DEFINE e == handler[h].event
           r == [row[e] EXCEPT !.state = s]
<1>1. e \in Events
  BY DEF IInv, HandlersHaveEvents, Busy
<1>2. /\ row[e].state = "PROCESSING"
      /\ row[e].attempts = handler[h].attempts + 1
      /\ \A g \in Handlers \ {h} :
           handler[g].at \in Busy => handler[g].event # e
  BY DEF IInv, OneHandlerAtATime
<1>3. /\ r \in RowType
      /\ r.state = s
      /\ r.attempts = row[e].attempts
      /\ r.due = row[e].due
  BY <1>1 DEF IInv, TypeOK, RowType, Final, States
<1>4. row' = [row EXCEPT ![e] = r]
  BY DEF Mark
<1>5. Idle \in HandlerType /\ Idle.at = "idle"
  BY DEF Idle, HandlerType, Stages
<1>6. /\ row' \in [Events -> RowType]
      /\ row'[e] = r
      /\ \A f \in Events : f # e => row'[f] = row[f]
  <2> HIDE DEF r, e
  <2> QED BY <1>1, <1>3, <1>4, OneRow DEF IInv
<1>7. /\ handler' \in [Handlers -> HandlerType]
      /\ handler'[h] = Idle
      /\ \A g \in Handlers : g # h => handler'[g] = handler[g]
  BY <1>5, OneHandler DEF IInv, Mark
<1> HIDE DEF r
<1>8. TypeOK'
  <2>1. ~row[e].due
    BY <1>1, <1>2 DEF IInv, TypeOK
  <2>2. \A f \in Events : row'[f].due => row'[f].state = "FAILED"
    BY <1>3, <1>6, <2>1 DEF IInv, TypeOK
  <2>3. QED
    BY <1>6, <1>7, <2>2 DEF IInv, TypeOK, RowType, HandlerType, Mark
<1>9. HandlersHaveEvents'
  BY <1>5, <1>7 DEF IInv, HandlersHaveEvents
<1>10. UnclaimedIsUntried'
  BY <1>3, <1>6 DEF IInv, UnclaimedIsUntried, Final
<1>11. OneHandlerAtATime'
  <2>1. SUFFICES ASSUME NEW g \in Handlers, handler'[g].at \in Busy
        PROVE  /\ row'[handler'[g].event].state = "PROCESSING"
               /\ row'[handler'[g].event].attempts = handler'[g].attempts + 1
               /\ \A k \in Handlers \ {g} :
                    handler'[k].at \in Busy =>
                      handler'[k].event # handler'[g].event
    BY DEF OneHandlerAtATime
  <2>2. \A k \in Handlers : handler'[k].at \in Busy =>
          k # h /\ handler'[k] = handler[k]
    BY <1>5, <1>7 DEF Busy
  <2>3. handler[g].event \in Events /\ handler[g].event # e
    BY <1>2, <2>1, <2>2 DEF IInv, HandlersHaveEvents, Busy
  <2>4. row'[handler[g].event] = row[handler[g].event]
    BY <1>6, <2>3
  <2>5. QED
    BY <2>1, <2>2, <2>4 DEF IInv, OneHandlerAtATime
<1>12. TriesAreBounded'
  BY <1>2, <1>3, <1>6 DEF IInv, TriesAreBounded, Final
<1>13. QED
  BY <1>8, <1>9, <1>10, <1>11, <1>12 DEF IInv

-----------------------------------------------------------------------------
LEMMA Initially == Init => IInv
BY IntakeAssumption
DEF Init, IInv, TypeOK, HandlersHaveEvents, UnclaimedIsUntried,
    OneHandlerAtATime, TriesAreBounded, Idle, Busy, States, Stages

LEMMA ReceiveKeeps ==
  ASSUME IInv, NEW h \in Handlers, NEW e \in Events, Receive(h, e)
  PROVE  IInv'
<1> DEFINE r == [state |-> "RECEIVED", attempts |-> 0, due |-> FALSE]
           n == [at |-> "read", event |-> e, attempts |-> 0]
<1>1. r \in RowType /\ n \in HandlerType
  BY DEF RowType, HandlerType, States, Stages
<1>2. UNCHANGED <<worked, upsets, crashes>>
  BY DEF Receive
<1>3. CASE row[e].state = "ABSENT"
  <2>1. row' = [row EXCEPT ![e] = r]
    BY <1>3 DEF Receive, StoreDelivery
  <2>2. \/ UNCHANGED handler
        \/ handler' = [handler EXCEPT ![h] = n]
    BY DEF Receive
  <2>3. /\ handler' \in [Handlers -> HandlerType]
        /\ HandlersHaveEvents'
        /\ \A g \in Handlers :
             handler'[g].at \in Busy => handler'[g] = handler[g]
    <3>1. CASE UNCHANGED handler
      BY <3>1 DEF IInv, TypeOK, HandlerType, HandlersHaveEvents
    <3>2. CASE handler' = [handler EXCEPT ![h] = n]
      <4>1. n.at = "read" /\ n.event = e
        OBVIOUS
      <4>2. /\ handler' \in [Handlers -> HandlerType]
            /\ handler'[h] = n
            /\ \A g \in Handlers : g # h => handler'[g] = handler[g]
        <5> HIDE DEF n
        <5> QED BY <1>1, <3>2, OneHandler DEF IInv
      <4> HIDE DEF n
      <4>3. QED
        BY <4>1, <4>2 DEF IInv, HandlersHaveEvents, Busy
    <3>3. QED
      BY <2>2, <3>1, <3>2
  <2>4. /\ worked' \in [Events -> Nat]
        /\ r.state = "RECEIVED" /\ r.attempts = 0 /\ r.due = FALSE
        /\ 0 <= MAX_ATTEMPTS
    BY <1>2, IntakeAssumption DEF IInv, TypeOK
  <2> HIDE DEF r
  <2>5. QED
    BY <1>1, <1>2, <1>3, <2>1, <2>3, <2>4, FreeRowKeeps
<1>4. CASE row[e].state # "ABSENT"
  <2>1. UNCHANGED vars
    BY <1>2, <1>4 DEF Receive, StoreDelivery, vars
  <2>2. QED
    BY <2>1
    DEF vars, IInv, TypeOK, HandlersHaveEvents, UnclaimedIsUntried,
        OneHandlerAtATime, TriesAreBounded
<1>5. QED
  BY <1>3, <1>4

\* A step that changes a row nobody has claimed and no handler.
LEMMA RowStepKeeps ==
  ASSUME IInv, NEW e \in Events, Callback(e) \/ NextAttemptComes(e)
  PROVE  IInv'
<1>1. row[e] \in RowType
  BY DEF IInv, TypeOK, RowType
<1>2. /\ handler' \in [Handlers -> HandlerType]
      /\ HandlersHaveEvents'
      /\ \A g \in Handlers :
           handler'[g].at \in Busy => handler'[g] = handler[g]
  BY DEF IInv, TypeOK, HandlerType, HandlersHaveEvents, Callback,
         NextAttemptComes
<1>3. CASE Callback(e)
  <2> DEFINE r == [row[e] EXCEPT !.state = "RECEIVED"]
  <2>1. /\ r \in RowType
        /\ r.state = "RECEIVED"
        /\ r.attempts = row[e].attempts
        /\ r.due = row[e].due
    BY <1>1 DEF RowType, States
  <2>2. row' = [row EXCEPT ![e] = r]
    BY <1>3 DEF Callback
  <2>3. /\ row[e].state = "ABSENT"
        /\ row[e].attempts = 0
        /\ ~row[e].due
        /\ 0 <= MAX_ATTEMPTS
    BY <1>3, IntakeAssumption DEF Callback, IInv, UnclaimedIsUntried, TypeOK
  <2>4. worked' \in [Events -> Nat] /\ UNCHANGED <<upsets, crashes>>
    BY <1>3 DEF Callback, IInv, TypeOK
  <2> HIDE DEF r
  <2>5. QED
    BY <1>2, <2>1, <2>2, <2>3, <2>4, FreeRowKeeps
<1>4. CASE NextAttemptComes(e)
  <2> DEFINE r == [row[e] EXCEPT !.due = TRUE]
  <2>1. /\ r \in RowType
        /\ r.state = row[e].state
        /\ r.attempts = row[e].attempts
    BY <1>1 DEF RowType
  <2>2. row' = [row EXCEPT ![e] = r]
    BY <1>4 DEF NextAttemptComes
  <2>3. row[e].state = "FAILED" /\ row[e].attempts < MAX_ATTEMPTS
    BY <1>4 DEF NextAttemptComes, IInv, TriesAreBounded
  <2>4. row[e].attempts <= MAX_ATTEMPTS
    BY DEF IInv, TriesAreBounded
  <2>5. worked' \in [Events -> Nat] /\ UNCHANGED <<upsets, crashes>>
    BY <1>4 DEF NextAttemptComes, IInv, TypeOK
  <2> HIDE DEF r
  <2>6. QED
    BY <1>2, <2>1, <2>2, <2>3, <2>4, <2>5, FreeRowKeeps
<1>5. QED
  BY <1>3, <1>4

\* A step of a handler that is no claim and no mark.
LEMMA HandlerStepKeeps ==
  ASSUME IInv, NEW h \in Handlers,
         \/ \E e \in Events : ReadDue(h, e)
         \/ AnotherHasIt(h)
         \/ \E outcome \in {"processed", "ignored"} :
              DispatchDelivery(h, outcome)
         \/ Throws(h)
         \/ Crash(h)
  PROVE  IInv'
<1>1. handler[h] \in HandlerType
  BY DEF IInv, TypeOK, HandlerType
<1>2. Idle \in HandlerType /\ Idle.at = "idle" /\ Idle.at \notin Busy
  BY DEF Idle, HandlerType, Stages, Busy
<1>3. /\ worked \in [Events -> Nat]
      /\ upsets \in 0..MaxUpsets
      /\ crashes \in 0..MaxCrashes
      /\ MaxUpsets \in Nat /\ MaxCrashes \in Nat
  BY IntakeAssumption DEF IInv, TypeOK
<1>4. ASSUME NEW e \in Events, ReadDue(h, e) PROVE IInv'
  <2> DEFINE n == [at |-> "read", event |-> e, attempts |-> row[e].attempts]
  <2>1. n \in HandlerType /\ n.at = "read" /\ n.event = e
    BY DEF IInv, TypeOK, HandlerType, Stages
  <2>2. handler' = [handler EXCEPT ![h] = n] /\ UNCHANGED <<row, worked, upsets, crashes>>
    BY <1>4 DEF ReadDue
  <2> HIDE DEF n
  <2>3. QED
    BY <1>3, <2>1, <2>2, HandlerKeeps DEF Busy
<1>5. CASE AnotherHasIt(h)
  BY <1>2, <1>3, <1>5, HandlerKeeps DEF AnotherHasIt
<1>6. ASSUME NEW outcome \in {"processed", "ignored"},
             DispatchDelivery(h, outcome)
      PROVE  IInv'
  <2> DEFINE n == [handler[h] EXCEPT !.at = outcome]
  <2>1. /\ n \in HandlerType
        /\ n.event = handler[h].event
        /\ n.attempts = handler[h].attempts
    BY <1>1 DEF HandlerType, Stages
  <2>2. /\ handler' = [handler EXCEPT ![h] = n]
        /\ UNCHANGED <<row, upsets, crashes>>
        /\ handler[h].at \in Busy /\ handler[h].at # "idle"
    BY <1>6 DEF DispatchDelivery, Busy
  <2>3. handler[h].event \in Events
    BY <2>2 DEF IInv, HandlersHaveEvents
  <2>4. worked' \in [Events -> Nat]
    BY <1>3, <1>6, <2>3 DEF DispatchDelivery
  <2> HIDE DEF n
  <2>5. QED
    BY <1>3, <2>1, <2>2, <2>3, <2>4, HandlerKeeps
<1>7. CASE Throws(h)
  <2> DEFINE n == [handler[h] EXCEPT !.at = "threw"]
  <2>1. /\ n \in HandlerType
        /\ n.event = handler[h].event
        /\ n.attempts = handler[h].attempts
    BY <1>1 DEF HandlerType, Stages
  <2>2. /\ handler' = [handler EXCEPT ![h] = n]
        /\ UNCHANGED <<row, worked, crashes>>
        /\ handler[h].at \in Busy /\ handler[h].at # "idle"
        /\ upsets' \in 0..MaxUpsets
    BY <1>3, <1>7 DEF Throws, Busy
  <2>3. handler[h].event \in Events
    BY <2>2 DEF IInv, HandlersHaveEvents
  <2> HIDE DEF n
  <2>4. QED
    BY <1>3, <2>1, <2>2, <2>3, HandlerKeeps
<1>8. CASE Crash(h)
  <2>1. crashes' \in 0..MaxCrashes
    BY <1>3, <1>8 DEF Crash
  <2>2. QED
    BY <1>2, <1>3, <1>8, <2>1, HandlerKeeps DEF Crash
<1>9. QED
  BY <1>4, <1>5, <1>6, <1>7, <1>8

LEMMA MarksKeep ==
  ASSUME IInv, NEW h \in Handlers,
         MarkProcessed(h) \/ MarkIgnored(h) \/ MarkFailed(h)
  PROVE  IInv'
<1>1. handler[h].at \in Busy
  BY DEF MarkProcessed, MarkIgnored, MarkFailed, Busy
<1>2. \E s \in Final \cup {"FAILED"} :
        Mark(h, s) /\ (s = "FAILED" => handler[h].attempts + 1 < MAX_ATTEMPTS)
  <2>1. CASE MarkProcessed(h) \/ MarkIgnored(h)
    BY <2>1 DEF MarkProcessed, MarkIgnored, Final
  <2>2. CASE MarkFailed(h)
    <3>1. handler[h].attempts \in Nat /\ MAX_ATTEMPTS \in Nat
      BY IntakeAssumption DEF IInv, TypeOK
    <3>2. /\ AfterFailure(h) \in Final \cup {"FAILED"}
          /\ AfterFailure(h) = "FAILED" =>
               handler[h].attempts + 1 < MAX_ATTEMPTS
      BY <3>1 DEF AfterFailure, Final
    <3>3. QED
      BY <2>2, <3>2 DEF MarkFailed
  <2>3. QED
    BY <2>1, <2>2
<1>3. QED
  BY <1>1, <1>2, MarkKeeps

LEMMA Inductive == IInv /\ [Next]_vars => IInv'
<1> SUFFICES ASSUME IInv, [Next]_vars PROVE IInv'
  OBVIOUS
<1>1. ASSUME NEW h \in Handlers, NEW e \in Events, Receive(h, e) PROVE IInv'
  BY <1>1, ReceiveKeeps
<1>2. ASSUME NEW h \in Handlers, NEW e \in Events, ReadDue(h, e) PROVE IInv'
  BY <1>2, HandlerStepKeeps
<1>3. ASSUME NEW h \in Handlers, Process(h) PROVE IInv'
  <2>1. CASE ClaimDelivery(h)
    BY <2>1, ClaimKeeps
  <2>2. CASE AnotherHasIt(h)
    BY <2>2, HandlerStepKeeps
  <2>3. CASE \E outcome \in {"processed", "ignored"} :
               DispatchDelivery(h, outcome)
    BY <2>3, HandlerStepKeeps
  <2>4. CASE MarkProcessed(h) \/ MarkIgnored(h) \/ MarkFailed(h)
    BY <2>4, MarksKeep
  <2>5. QED
    BY <1>3, <2>1, <2>2, <2>3, <2>4 DEF Process
<1>4. ASSUME NEW h \in Handlers, Throws(h) \/ Crash(h) PROVE IInv'
  BY <1>4, HandlerStepKeeps
<1>5. ASSUME NEW e \in Events, Callback(e) \/ NextAttemptComes(e) PROVE IInv'
  BY <1>5, RowStepKeeps
<1>6. CASE UNCHANGED vars
  BY <1>6
  DEF vars, IInv, TypeOK, HandlersHaveEvents, UnclaimedIsUntried,
      OneHandlerAtATime, TriesAreBounded
<1>7. QED
  BY <1>1, <1>2, <1>3, <1>4, <1>5, <1>6 DEF Next

LEMMA Invariance == Spec => []IInv
BY Initially, Inductive, PTL DEF Spec

\* Every row and handler is well formed, and only a FAILED row is due.
THEOREM Typed == Spec => []TypeOK
BY Invariance, PTL DEF IInv

\* Whatever is delivered, read, retried or crashes, a delivery is in one pair
\* of hands from its claim to its mark: the marks may be unconditional.
THEOREM HandledByOne == Spec => []OneHandlerAtATime
BY Invariance, PTL DEF IInv

\* No delivery is tried more than MAX_ATTEMPTS times.
THEOREM Bounded == Spec => []TriesAreBounded
BY Invariance, PTL DEF IInv

-----------------------------------------------------------------------------
(* Work is committed once.                                                 *)

\* What each part of the bound pays for: the one is for a delivery somebody
\* has claimed and may still commit, or has its verdict; whoever has yet to
\* try it, or threw, finds that only what was upset has been committed.
WorkAccounted ==
  \A e \in Events :
    /\ e \in Callbacks =>
         worked[e] <= (IF row[e].state = "ABSENT" THEN 0 ELSE 1)
    /\ e \notin Callbacks =>
         /\ worked[e] <= 1 + upsets
         /\ row[e].state \in {"ABSENT", "RECEIVED", "FAILED"} =>
              worked[e] <= upsets
         /\ \A h \in Handlers :
              (handler[h].at \in {"claimed", "threw"} /\ handler[h].event = e)
              => worked[e] <= upsets

\* Steps that commit nothing, and find in the untried and the failed rows what
\* they were: the account is kept if those who claim or throw have theirs.
LEMMA NothingCommitted ==
  ASSUME TypeOK, TypeOK', WorkAccounted, UNCHANGED worked, upsets' >= upsets,
         \A e \in Events :
           /\ row'[e].state = "ABSENT" => row[e].state = "ABSENT"
           /\ row'[e].state \in {"RECEIVED", "FAILED"} =>
                \/ row[e].state \in {"ABSENT", "RECEIVED", "FAILED"}
                \/ \E h \in Handlers : handler[h].at = "threw"
                                       /\ handler[h].event = e
           /\ \A h \in Handlers :
                (handler'[h].at \in {"claimed", "threw"}
                   /\ handler'[h].event = e)
                => \/ handler'[h] = handler[h]
                   \/ row[e].state \in {"RECEIVED", "FAILED"}
                   \/ upsets' = upsets + 1
  PROVE  WorkAccounted'
<1>1. /\ \A e \in Events : worked[e] \in Nat /\ worked'[e] = worked[e]
      /\ upsets \in Nat /\ upsets' \in Nat
  BY IntakeAssumption DEF TypeOK
<1>2. ASSUME NEW e \in Events, e \in Callbacks
      PROVE  worked'[e] <= (IF row'[e].state = "ABSENT" THEN 0 ELSE 1)
  BY <1>1, <1>2 DEF WorkAccounted
<1>3. ASSUME NEW e \in Events, e \notin Callbacks
      PROVE  /\ worked'[e] <= 1 + upsets'
             /\ row'[e].state \in {"ABSENT", "RECEIVED", "FAILED"} =>
                  worked'[e] <= upsets'
             /\ \A h \in Handlers :
                  (handler'[h].at \in {"claimed", "threw"}
                     /\ handler'[h].event = e)
                  => worked'[e] <= upsets'
  <2>1. worked[e] <= 1 + upsets
    BY <1>3 DEF WorkAccounted
  <2>2. row'[e].state \in {"ABSENT", "RECEIVED", "FAILED"} =>
          worked[e] <= upsets
    BY <1>3 DEF WorkAccounted
  <2>3. ASSUME NEW h \in Handlers, handler'[h].at \in {"claimed", "threw"},
               handler'[h].event = e
        PROVE  worked'[e] <= upsets'
    <3>1. \/ worked[e] <= upsets
          \/ upsets' = upsets + 1
      BY <1>3, <2>3 DEF WorkAccounted
    <3>2. QED
      BY <1>1, <2>1, <3>1
  <2>4. QED
    BY <1>1, <2>1, <2>2, <2>3
<1>4. QED
  BY <1>2, <1>3 DEF WorkAccounted

LEMMA CallbackAccounts ==
  ASSUME TypeOK, WorkAccounted, NEW e \in Events, Callback(e)
  PROVE  WorkAccounted'
<1>1. /\ \A f \in Events \ {e} : worked'[f] = worked[f] /\ row'[f] = row[f]
      /\ row'[e].state = "RECEIVED"
      /\ row[e].state = "ABSENT"
      /\ worked'[e] = worked[e] + 1
      /\ e \in Callbacks
      /\ upsets' = upsets /\ handler' = handler
  BY DEF Callback, TypeOK
<1>2. worked[e] \in Nat /\ worked[e] <= 0
  BY <1>1 DEF TypeOK, WorkAccounted
<1>3. worked'[e] <= 1
  BY <1>1, <1>2
<1>4. QED
  BY <1>1, <1>3 DEF WorkAccounted

\* A commit is by the one pair of hands that has claimed the delivery.
LEMMA CommitAccounts ==
  ASSUME IInv, WorkAccounted, NEW h \in Handlers,
         DispatchDelivery(h, "processed")
  PROVE  WorkAccounted'
<1> DEFINE e == handler[h].event
<1>1. /\ handler[h].at = "claimed"
      /\ e \notin Callbacks
      /\ worked' = [worked EXCEPT ![e] = @ + 1]
      /\ handler' = [handler EXCEPT ![h].at = "processed"]
      /\ row' = row /\ upsets' = upsets
  BY DEF DispatchDelivery
<1>2. e \in Events
  BY <1>1 DEF IInv, HandlersHaveEvents
<1>3. /\ row[e].state = "PROCESSING"
      /\ \A g \in Handlers \ {h} :
           handler[g].at \in Busy => handler[g].event # e
  BY <1>1 DEF IInv, OneHandlerAtATime, Busy
<1>4. worked[e] \in Nat /\ upsets \in Nat /\ worked[e] <= upsets
  BY <1>1, <1>2, IntakeAssumption DEF IInv, TypeOK, WorkAccounted
<1>5. /\ worked'[e] = worked[e] + 1
      /\ \A f \in Events : f # e => worked'[f] = worked[f]
  BY <1>1, <1>2 DEF IInv, TypeOK
<1>6. /\ handler'[h].at = "processed"
      /\ \A g \in Handlers : g # h => handler'[g] = handler[g]
  BY <1>1 DEF IInv, TypeOK
<1> HIDE DEF e
<1>7. \A g \in Handlers :
        handler'[g].at \in {"claimed", "threw"} =>
          /\ handler'[g] = handler[g]
          /\ handler[g].event # e
  BY <1>3, <1>6 DEF Busy
<1>8. worked'[e] <= 1 + upsets
  BY <1>4, <1>5
<1>9. QED
  BY <1>1, <1>3, <1>5, <1>7, <1>8 DEF WorkAccounted

LEMMA AccountKept ==
  ASSUME IInv, IInv', WorkAccounted, [Next]_vars
  PROVE  WorkAccounted'
<1>1. /\ TypeOK /\ TypeOK' /\ upsets \in Nat
  BY IntakeAssumption DEF IInv, TypeOK
<1>2. ASSUME NEW h \in Handlers, NEW e \in Events,
             Receive(h, e) \/ ReadDue(h, e)
      PROVE  WorkAccounted'
  <2>1. /\ \A g \in Handlers : handler'[g].at \in {"claimed", "threw"} =>
             handler'[g] = handler[g]
        /\ \A f \in Events : \/ row'[f] = row[f]
                             \/ /\ row[f].state = "ABSENT"
                                /\ row'[f].state = "RECEIVED"
        /\ UNCHANGED <<worked, upsets>>
    BY <1>1, <1>2 DEF TypeOK, Receive, StoreDelivery, ReadDue
  <2>2. QED
    BY <1>1, <2>1, NothingCommitted
<1>3. ASSUME NEW h \in Handlers, ClaimDelivery(h) PROVE WorkAccounted'
  <2>1. handler[h].event \in Events
    BY <1>3 DEF IInv, HandlersHaveEvents, ClaimDelivery
  <2>2. /\ \A g \in Handlers : g # h => handler'[g] = handler[g]
        /\ handler'[h].event = handler[h].event
        /\ row[handler[h].event].state \in {"RECEIVED", "FAILED"}
        /\ \A f \in Events : row'[f] = row[f] \/ row'[f].state = "PROCESSING"
        /\ UNCHANGED <<worked, upsets>>
    BY <1>1, <1>3, <2>1 DEF TypeOK, ClaimDelivery, Claimable
  <2>3. QED
    BY <1>1, <2>2, NothingCommitted
<1>4. ASSUME NEW h \in Handlers,
             AnotherHasIt(h) \/ Crash(h) \/ DispatchDelivery(h, "ignored")
      PROVE  WorkAccounted'
  <2>1. /\ \A g \in Handlers : handler'[g].at \in {"claimed", "threw"} =>
             handler'[g] = handler[g]
        /\ UNCHANGED <<row, worked, upsets>>
    BY <1>1, <1>4 DEF TypeOK, AnotherHasIt, Crash, DispatchDelivery, Idle
  <2>2. QED
    BY <1>1, <2>1, NothingCommitted
<1>5. ASSUME NEW h \in Handlers, Throws(h) PROVE WorkAccounted'
  <2>1. UNCHANGED <<row, worked>> /\ upsets' = upsets + 1
    BY <1>5 DEF Throws
  <2>2. QED
    BY <1>1, <2>1, NothingCommitted
<1>6. ASSUME NEW h \in Handlers, NEW s, Mark(h, s), s # "ABSENT",
             s \in {"RECEIVED", "FAILED"} => handler[h].at = "threw"
      PROVE  WorkAccounted'
  <2>1. \A f \in Events : \/ row'[f] = row[f]
                          \/ row'[f].state = s /\ f = handler[h].event
    BY <1>1, <1>6 DEF TypeOK, Mark
  <2>2. /\ \A g \in Handlers : handler'[g].at \in {"claimed", "threw"} =>
             handler'[g] = handler[g]
        /\ UNCHANGED <<worked, upsets>>
    BY <1>1, <1>6 DEF TypeOK, Mark, Idle
  <2>3. QED
    BY <1>1, <1>6, <2>1, <2>2, NothingCommitted
<1>7. ASSUME NEW h \in Handlers,
             MarkProcessed(h) \/ MarkIgnored(h) \/ MarkFailed(h)
      PROVE  WorkAccounted'
  BY <1>6, <1>7 DEF MarkProcessed, MarkIgnored, MarkFailed, AfterFailure
<1>8. ASSUME NEW e \in Events, NextAttemptComes(e) PROVE WorkAccounted'
  <2>1. /\ \A f \in Events : row'[f].state = row[f].state
        /\ UNCHANGED <<handler, worked, upsets>>
    BY <1>1, <1>8 DEF TypeOK, NextAttemptComes
  <2>2. QED
    BY <1>1, <2>1, NothingCommitted
<1>9. ASSUME NEW h \in Handlers, Process(h) PROVE WorkAccounted'
  BY <1>3, <1>4, <1>7, <1>9, CommitAccounts DEF Process
<1>10. CASE UNCHANGED vars
  BY <1>10 DEF vars, WorkAccounted
<1>11. QED
  BY <1>1, <1>2, <1>4, <1>5, <1>8, <1>9, <1>10, CallbackAccounts DEF Next

\* However often a delivery arrives and whoever reads it, its work is committed
\* once, and once more only for each handler or mark that was upset: by the
\* account above.
THEOREM CommittedOnce == Spec => []WorkedOnce
<1>1. Init => WorkAccounted
  <2> SUFFICES ASSUME Init PROVE WorkAccounted
    OBVIOUS
  <2>1. /\ \A e \in Events : worked[e] = 0 /\ row[e].state = "ABSENT"
        /\ upsets = 0
    BY DEF Init
  <2>2. 0 <= 0 /\ 0 <= 1 + 0
    OBVIOUS
  <2>3. QED
    BY <2>1, <2>2, Zenon DEF WorkAccounted
<1>2. IInv /\ WorkAccounted => WorkedOnce
  <2> SUFFICES ASSUME IInv, WorkAccounted, NEW e \in Events
               PROVE  worked[e] <= 1 + upsets
    BY DEF WorkedOnce
  <2>1. worked[e] \in Nat /\ upsets \in Nat
    BY IntakeAssumption DEF IInv, TypeOK
  <2>2. worked[e] <= 1 \/ worked[e] <= 1 + upsets
    BY <2>1 DEF WorkAccounted
  <2>3. QED
    BY <2>1, <2>2
<1>3. QED
  BY Invariance, AccountKept, <1>1, <1>2, PTL DEF Spec

-----------------------------------------------------------------------------
\* Under the invariant no step changes a row that has its verdict.
LEMMA NothingReopens ==
  ASSUME IInv, Next, NEW e \in Events, row[e].state \in Final
  PROVE  row'[e] = row[e]
<1> USE DEF Final
<1>1. \A h \in Handlers : handler[h].at \in Busy => handler[h].event # e
  BY DEF IInv, OneHandlerAtATime
<1>2. ASSUME NEW h \in Handlers, NEW f \in Events, Receive(h, f)
      PROVE  row'[e] = row[e]
  BY <1>2 DEF Receive, StoreDelivery, IInv, TypeOK
<1>3. ASSUME NEW h \in Handlers, ClaimDelivery(h)
      PROVE  row'[e] = row[e]
  BY <1>3 DEF ClaimDelivery, Claimable, IInv, TypeOK
<1>4. ASSUME NEW h \in Handlers,
             MarkProcessed(h) \/ MarkIgnored(h) \/ MarkFailed(h)
      PROVE  row'[e] = row[e]
  <2>1. handler[h].at \in Busy
    BY <1>4 DEF MarkProcessed, MarkIgnored, MarkFailed, Busy
  <2>2. PICK s : Mark(h, s)
    BY <1>4 DEF MarkProcessed, MarkIgnored, MarkFailed
  <2>3. QED
    BY <1>1, <2>1, <2>2 DEF Mark, IInv, TypeOK
<1>5. ASSUME NEW f \in Events, Callback(f) \/ NextAttemptComes(f)
      PROVE  row'[e] = row[e]
  BY <1>5 DEF Callback, NextAttemptComes, IInv, TypeOK
<1>6. ASSUME NEW h \in Handlers,
             \/ \E f \in Events : ReadDue(h, f)
             \/ AnotherHasIt(h)
             \/ \E outcome \in {"processed", "ignored"} :
                  DispatchDelivery(h, outcome)
             \/ Throws(h)
             \/ Crash(h)
      PROVE  row'[e] = row[e]
  BY <1>6 DEF ReadDue, AnotherHasIt, DispatchDelivery, Throws, Crash
<1>7. QED
  BY <1>2, <1>3, <1>4, <1>5, <1>6 DEF Next, Process

\* A verdict stands, although the marks name the row by its id alone.
THEOREM Standing == Spec => VerdictsStand
<1>1. IInv /\ [Next]_vars =>
        [\A e \in Events : row[e].state \in Final => row'[e] = row[e]]_vars
  BY NothingReopens
<1>2. QED
  BY Invariance, <1>1, PTL DEF Spec, VerdictsStand
=============================================================================
