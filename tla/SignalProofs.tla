---------------------------- MODULE SignalProofs ----------------------------
(***************************************************************************)
(* Signal for every number of listeners, threads and coroutines: types,    *)
(* the correctness of the swap-removal table, and the anchoring of every   *)
(* scheduled thread.                                                       *)
(***************************************************************************)
EXTENDS Signal, SequenceTheorems, TLAPS

Ids == 1..MaxListeners

TypeTable ==
    /\ listeners \in Seq(Listener) /\ Len(listeners) <= MaxListeners
    /\ DOMAIN id2idx \subseteq Ids
    /\ \A id \in DOMAIN id2idx : id2idx[id] \in Ids
    /\ activeIdx \in Seq(Ids)

----------------------------------------------------------------------------
\* What one removal does to the table.

LEMMA RemovalFacts ==
    ASSUME TypeTable, ActiveTable, NEW id \in DOMAIN id2idx, DisconnectTable(id),
           MaxListeners \in Nat
    PROVE  LET pos == listeners[id].activePos
               n   == Len(activeIdx)
               last == activeIdx[n]
           IN  /\ id2idx[id] = id /\ id \in 1..Len(listeners)
               /\ n \in Nat \ {0} /\ pos \in 1..n /\ activeIdx[pos] = id
               /\ last \in 1..Len(listeners) /\ listeners[last].activePos = n
               /\ activeIdx' \in Seq(Ids) /\ Len(activeIdx') = n - 1
               /\ \A p \in 1..(n - 1) : activeIdx'[p] = IF p = pos THEN last ELSE activeIdx[p]
               /\ listeners' \in Seq(Listener) /\ Len(listeners') = Len(listeners)
               /\ \A i \in 1..Len(listeners) :
                    /\ i = id => listeners'[i].connected = FALSE /\ listeners'[i].activePos = npos
                    /\ i # id /\ i = last => /\ listeners'[i].connected = listeners[i].connected
                                             /\ listeners'[i].activePos = pos
                    /\ i # id /\ i # last => listeners'[i] = listeners[i]
               /\ DOMAIN id2idx' = DOMAIN id2idx \ {id}
               /\ \A j \in DOMAIN id2idx' : id2idx'[j] = id2idx[j]
<1> DEFINE pos == listeners[id].activePos
           n   == Len(activeIdx)
           last == activeIdx[n]
           swapped == [activeIdx EXCEPT ![pos] = last]
<1>1. id2idx[id] = id /\ id \in 1..Len(listeners) /\ Connected(id)
  BY DEF ActiveTable
<1>2. n \in Nat /\ pos \in 1..n /\ activeIdx[pos] = id
  BY <1>1 DEF ActiveTable, TypeTable
<1>3. n \in Nat \ {0} /\ last \in 1..Len(listeners) /\ listeners[last].activePos = n
  BY <1>2 DEF ActiveTable
<1>4. last \in Ids
  BY <1>2, <1>3, ElementOfSeq DEF TypeTable
<1>5. swapped \in Seq(Ids) /\ Len(swapped) = n
      /\ \A p \in 1..n : swapped[p] = IF p = pos THEN last ELSE activeIdx[p]
  BY <1>2, <1>4, ExceptSeq DEF TypeTable
<1>6. activeIdx' = SubSeq(swapped, 1, n - 1)
  BY <1>1 DEF DisconnectTable
<1>7. /\ activeIdx' \in Seq(Ids) /\ Len(activeIdx') = n - 1
      /\ \A p \in 1..(n - 1) : activeIdx'[p] = IF p = pos THEN last ELSE activeIdx[p]
  BY <1>5, <1>6, <1>3
<1>8. \A i \in 1..Len(listeners) : listeners[i] \in Listener
  BY ElementOfSeq DEF TypeTable
<1>9. listeners' = Moved(listeners, id, pos, last)
  BY <1>1 DEF DisconnectTable
<1>10. Len(listeners) \in Nat /\ pos \in Nat
  BY <1>2 DEF TypeTable
<1>11. listeners' \in Seq(Listener) /\ Len(listeners') = Len(listeners)
  BY <1>8, <1>9, <1>10 DEF Moved, NewListener, Listener, npos
<1>12. \A i \in 1..Len(listeners) :
          /\ i = id => listeners'[i].connected = FALSE /\ listeners'[i].activePos = npos
          /\ i # id /\ i = last => /\ listeners'[i].connected = listeners[i].connected
                                   /\ listeners'[i].activePos = pos
          /\ i # id /\ i # last => listeners'[i] = listeners[i]
  BY <1>9, <1>10 DEF Moved, NewListener
<1>13. DOMAIN id2idx' = DOMAIN id2idx \ {id} /\ \A j \in DOMAIN id2idx' : id2idx'[j] = id2idx[j]
  BY <1>1 DEF DisconnectTable
<1> QED
  BY <1>1, <1>2, <1>3, <1>7, <1>11, <1>12, <1>13

LEMMA RemovalKeepsTable ==
    ASSUME TypeTable, ActiveTable, NEW id \in DOMAIN id2idx, DisconnectTable(id),
           MaxListeners \in Nat
    PROVE  TypeTable' /\ ActiveTable'
<1> DEFINE pos == listeners[id].activePos
           n   == Len(activeIdx)
           last == activeIdx[n]
<1>1. /\ id2idx[id] = id /\ id \in 1..Len(listeners)
      /\ n \in Nat \ {0} /\ pos \in 1..n /\ activeIdx[pos] = id
      /\ last \in 1..Len(listeners) /\ listeners[last].activePos = n
      /\ activeIdx' \in Seq(Ids) /\ Len(activeIdx') = n - 1
      /\ listeners' \in Seq(Listener) /\ Len(listeners') = Len(listeners)
      /\ DOMAIN id2idx' = DOMAIN id2idx \ {id}
      /\ \A j \in DOMAIN id2idx' : id2idx'[j] = id2idx[j]
  BY RemovalFacts
<1>2. \A p \in 1..(n - 1) : activeIdx'[p] = IF p = pos THEN last ELSE activeIdx[p]
  BY RemovalFacts
<1>3. \A i \in 1..Len(listeners) :
          /\ i = id => listeners'[i].connected = FALSE /\ listeners'[i].activePos = npos
          /\ i # id /\ i = last => /\ listeners'[i].connected = listeners[i].connected
                                   /\ listeners'[i].activePos = pos
          /\ i # id /\ i # last => listeners'[i] = listeners[i]
  BY RemovalFacts
<1>4. TypeTable'
  BY <1>1 DEF TypeTable
<1> HIDE DEF pos, n, last
<1>a. \A p \in 1..n : /\ activeIdx[p] \in 1..Len(listeners) /\ listeners[activeIdx[p]].connected
                       /\ listeners[activeIdx[p]].activePos = p
  BY DEF ActiveTable, Connected, n
<1>b. \A i \in 1..Len(listeners) :
         /\ listeners[i].connected => /\ listeners[i].activePos \in 1..n
                                      /\ activeIdx[listeners[i].activePos] = i
         /\ ~ listeners[i].connected => listeners[i].activePos = npos
  BY DEF ActiveTable, Connected, n
<1>c. last = activeIdx[n] /\ listeners[id].activePos = pos /\ listeners[last].connected
  BY <1>1, <1>a DEF last, pos
<1>5. ASSUME NEW p \in 1..(n - 1)
      PROVE  LET i == activeIdx'[p]
             IN  i \in 1..Len(listeners') /\ listeners'[i].connected /\ listeners'[i].activePos = p
  <2>1. CASE p = pos
    \* last has moved here; it is not the listener removed, whose place is below n.
    <3>1. activeIdx'[p] = last /\ last # id
      BY <2>1, <1>1, <1>2, <1>c
    <3> QED BY <2>1, <3>1, <1>1, <1>3, <1>c
  <2>2. CASE p # pos
    <3>1. activeIdx'[p] = activeIdx[p] /\ p \in 1..n
      BY <2>2, <1>1, <1>2
    <3>2. activeIdx[p] # id /\ activeIdx[p] # last /\ activeIdx[p] \in 1..Len(listeners)
      BY <2>2, <3>1, <1>1, <1>a, <1>c
    <3>3. listeners'[activeIdx[p]] = listeners[activeIdx[p]]
      BY <3>2, <1>3
    <3> QED BY <3>1, <3>2, <3>3, <1>1, <1>a
  <2> QED BY <2>1, <2>2
<1>6. ASSUME NEW i \in 1..Len(listeners')
      PROVE  IF listeners'[i].connected
             THEN /\ listeners'[i].activePos \in 1..Len(activeIdx')
                  /\ activeIdx'[listeners'[i].activePos] = i
             ELSE listeners'[i].activePos = npos
  <2>1. CASE i = id
    BY <2>1, <1>1, <1>3
  <2>2. CASE i # id /\ i = last
    <3>1. pos # n
      BY <2>2, <1>1, <1>c
    <3> QED BY <2>2, <3>1, <1>1, <1>2, <1>3, <1>c
  <2>3. CASE i # id /\ i # last
    <3>1. listeners'[i] = listeners[i] /\ i \in 1..Len(listeners)
      BY <2>3, <1>1, <1>3
    <3>2. CASE listeners[i].connected
      <4>1. listeners[i].activePos \in 1..(n - 1) /\ listeners[i].activePos # pos
        BY <2>3, <3>1, <3>2, <1>1, <1>b, <1>c
      <4> QED BY <3>1, <3>2, <4>1, <1>1, <1>2, <1>b
    <3>3. CASE ~ listeners[i].connected
      BY <3>1, <3>3, <1>b
    <3> QED BY <3>2, <3>3
  <2> QED BY <2>1, <2>2, <2>3
<1>7. DOMAIN id2idx' = {i \in 1..Len(listeners') : listeners'[i].connected}
  <2>1. DOMAIN id2idx = {i \in 1..Len(listeners) : listeners[i].connected}
    BY DEF ActiveTable, Connected
  <2>2. \A i \in 1..Len(listeners) : i # id => listeners'[i].connected = listeners[i].connected
    BY <1>3
  <2> QED BY <2>1, <2>2, <1>1, <1>3
<1>8. \A j \in DOMAIN id2idx' : id2idx'[j] = j
  BY <1>1 DEF ActiveTable
<1>9. \A p \in 1..Len(activeIdx') :
         LET i == activeIdx'[p]
         IN  i \in 1..Len(listeners') /\ listeners'[i].connected /\ listeners'[i].activePos = p
  BY <1>1, <1>5
<1>10. ActiveTable'
  BY <1>6, <1>7, <1>8, <1>9 DEF ActiveTable, Connected
<1> QED
  BY <1>4, <1>10

----------------------------------------------------------------------------
\* The table under Connect.

LEMMA ConnectKeepsTable ==
    ASSUME TypeTable, ActiveTable, NEW once \in BOOLEAN, Connect(once), MaxListeners \in Nat
    PROVE  TypeTable' /\ ActiveTable'
<1> DEFINE idx == Len(listeners) + 1
           n == Len(activeIdx)
           new == NewListener(once, TRUE, n + 1)
<1>1. /\ Len(listeners) \in Nat /\ idx \in Ids /\ n \in Nat
      /\ new \in Listener /\ new.connected = TRUE /\ new.activePos = n + 1
  BY DEF Connect, ConnectTable, TypeTable, NewListener, Listener, Ids
<1>2. listeners' = Append(listeners, new) /\ activeIdx' = Append(activeIdx, idx)
      /\ id2idx' = [j \in DOMAIN id2idx \cup {idx} |-> IF j = idx THEN idx ELSE id2idx[j]]
  BY DEF Connect, ConnectTable
<1> HIDE DEF idx, n, new
<1>3. /\ listeners' \in Seq(Listener) /\ Len(listeners') = idx
      /\ listeners'[idx] = new
      /\ \A i \in 1..Len(listeners) : listeners'[i] = listeners[i]
  BY <1>1, <1>2 DEF TypeTable, idx
<1>4. /\ activeIdx' \in Seq(Ids) /\ Len(activeIdx') = n + 1
      /\ activeIdx'[n + 1] = idx
      /\ \A p \in 1..n : activeIdx'[p] = activeIdx[p]
  BY <1>1, <1>2 DEF TypeTable, n
<1>5. TypeTable'
  BY <1>1, <1>2, <1>3, <1>4 DEF TypeTable, Ids
<1>6. \A p \in 1..n : /\ activeIdx[p] \in 1..Len(listeners) /\ listeners[activeIdx[p]].connected
                       /\ listeners[activeIdx[p]].activePos = p
  BY DEF ActiveTable, Connected, n
<1>7. \A i \in 1..Len(listeners) :
         /\ listeners[i].connected => /\ listeners[i].activePos \in 1..n
                                      /\ activeIdx[listeners[i].activePos] = i
         /\ ~ listeners[i].connected => listeners[i].activePos = npos
  BY DEF ActiveTable, Connected, n
<1>8. \A p \in 1..Len(activeIdx') :
         LET i == activeIdx'[p]
         IN  i \in 1..Len(listeners') /\ listeners'[i].connected /\ listeners'[i].activePos = p
  BY <1>1, <1>3, <1>4, <1>6 DEF idx
<1>9. \A i \in 1..Len(listeners') :
         IF listeners'[i].connected
         THEN /\ listeners'[i].activePos \in 1..Len(activeIdx')
              /\ activeIdx'[listeners'[i].activePos] = i
         ELSE listeners'[i].activePos = npos
  BY <1>1, <1>3, <1>4, <1>7 DEF idx
<1>10. DOMAIN id2idx = {i \in 1..Len(listeners) : listeners[i].connected}
       /\ \A j \in DOMAIN id2idx : id2idx[j] = j
  BY DEF ActiveTable, Connected
<1>11. DOMAIN id2idx' = {i \in 1..Len(listeners') : listeners'[i].connected}
       /\ \A j \in DOMAIN id2idx' : id2idx'[j] = j
  BY <1>1, <1>2, <1>3, <1>10 DEF idx
<1> QED
  BY <1>5, <1>8, <1>9, <1>11 DEF ActiveTable, Connected

----------------------------------------------------------------------------
\* Types and the table.

\* The walk of a Fire stays within the vector, which never shrinks.
WalkInRange == \A p \in 1..Len(tmpActive) : tmpActive[p] \in 1..Len(listeners)

TableInv == TypeOK /\ ActiveTable /\ WalkInRange

LEMMA ThreadTypes ==
    /\ Ephemerals \subseteq Threads
    /\ \A i \in Ids : Reusable(i) \in Threads
BY DEF Threads, Ids

\* The operations that touch the table, as far as the rest of the types needs it.
LEMMA GrowthKeepsWalk ==
    ASSUME TableInv, UNCHANGED tmpActive, Len(listeners') \in Nat, Len(listeners') >= Len(listeners)
    PROVE  WalkInRange'
<1>1. Len(listeners) \in Nat
  BY DEF TableInv, TypeOK
<1> QED BY <1>1 DEF TableInv, WalkInRange

LEMMA TableStep ==
    ASSUME TableInv, [Next]_vars
    PROVE  TypeTable' /\ ActiveTable' /\ WalkInRange' /\ tmpActive' \in Seq(Ids)
<1>0. MaxListeners \in Nat /\ TypeTable /\ ActiveTable /\ tmpActive \in Seq(Ids) /\ Len(listeners) \in Nat
  BY SignalAssumption DEF TableInv, TypeOK, TypeTable, Ids
<1>1. ASSUME NEW once \in BOOLEAN, Connect(once) PROVE TypeTable' /\ ActiveTable' /\ WalkInRange' /\ tmpActive' \in Seq(Ids)
  <2>1. TypeTable' /\ ActiveTable'
    BY <1>0, <1>1, ConnectKeepsTable
  <2>2. Len(listeners') = Len(listeners) + 1 /\ UNCHANGED tmpActive
    BY <1>0, <1>1 DEF Connect, ConnectTable, walk, TypeTable
  <2> QED BY <2>1, <2>2, <1>0, GrowthKeepsWalk
<1>2. ASSUME NEW id \in DOMAIN id2idx, DisconnectTable(id), UNCHANGED tmpActive
      PROVE  TypeTable' /\ ActiveTable' /\ WalkInRange' /\ tmpActive' \in Seq(Ids)
  <2>1. TypeTable' /\ ActiveTable'
    BY <1>0, <1>2, RemovalKeepsTable
  <2>2. Len(listeners') = Len(listeners)
    BY <1>0, <1>2, RemovalFacts
  <2> QED BY <2>1, <2>2, <1>0, <1>2, GrowthKeepsWalk
<1>a. ASSUME UNCHANGED table PROVE TypeTable' /\ ActiveTable' /\ UNCHANGED listeners
  BY <1>0, <1>a DEF TypeTable, ActiveTable, Connected, table
<1>3. ASSUME UNCHANGED table, UNCHANGED tmpActive PROVE TypeTable' /\ ActiveTable' /\ WalkInRange' /\ tmpActive' \in Seq(Ids)
  BY <1>0, <1>3, <1>a DEF TableInv, WalkInRange
<1>4. CASE BeginFire
  <2>1. UNCHANGED table /\ tmpActive' = activeIdx
    BY <1>4 DEF BeginFire
  <2>2. TypeTable' /\ ActiveTable' /\ UNCHANGED listeners
    BY <2>1, <1>a
  <2>3. activeIdx \in Seq(Ids) /\ \A p \in 1..Len(activeIdx) : activeIdx[p] \in 1..Len(listeners)
    BY <1>0 DEF TypeTable, ActiveTable
  <2> QED BY <2>1, <2>2, <2>3 DEF WalkInRange
<1>5. CASE Dispatch
  <2> DEFINE idx == tmpActive[cursor]
  <2>1. idx \in 1..Len(listeners) /\ Connected(idx) /\ UNCHANGED tmpActive
    BY <1>5 DEF Dispatch, Walk, TableInv, WalkInRange
  <2>2. idx \in DOMAIN id2idx
    BY <2>1, <1>0 DEF ActiveTable
  <2>3. CASE listeners[idx].once
    BY <2>3, <2>1, <2>2, <1>5, <1>2 DEF Dispatch, Walk
  <2>4. CASE ~ listeners[idx].once
    BY <2>4, <2>1, <1>5, <1>3 DEF Dispatch, Walk
  <2> QED BY <2>3, <2>4
<1>6. CASE EndDispatch
  <2>1. UNCHANGED table /\ tmpActive' = << >>
    BY <1>6 DEF EndDispatch
  <2>2. WalkInRange' /\ tmpActive' \in Seq(Ids)
    BY <2>1 DEF WalkInRange
  <2> QED BY <2>1, <2>2, <1>a
<1>7. CASE \E id \in 1..MaxListeners : Disconnect(id)
  BY <1>7, <1>2 DEF Disconnect, walk
<1>8. CASE \E c \in Coroutines : Wait(c)
  BY <1>8, <1>3 DEF Wait, walk
<1>9. CASE WakeWaiter \/ \E c \in Scripts : StopScript(c) \/ WaitStopped(c)
  BY <1>9, <1>3 DEF WakeWaiter, StopScript, WaitStopped, walk
<1>10. CASE \E th \in Threads : CallbackReturns(th) \/ CallbackFails(th)
  BY <1>10, <1>3 DEF CallbackReturns, CallbackFails, EndTask, walk
<1>11. CASE UNCHANGED vars
  BY <1>11, <1>3 DEF vars, walk
<1> QED
  BY <1>1, <1>4, <1>5, <1>6, <1>7, <1>8, <1>9, <1>10, <1>11 DEF Next

\* What TypeOK says of the variables other than the table and the walk.
TypeRest ==
    /\ cursor \in Nat
    /\ waiters \in Seq(Coroutines) /\ waking \in Seq(Coroutines)
    /\ DOMAIN tasks \subseteq Threads /\ \A th \in DOMAIN tasks : tasks[th] \in BOOLEAN
    /\ registry \subseteq Threads /\ lmStack \subseteq Threads /\ dead \subseteq Threads
    /\ suspended \subseteq Coroutines /\ stopped \subseteq Scripts
    /\ owed \in [1..MaxListeners -> Int]

LEMMA RestStep ==
    ASSUME TableInv, [Next]_vars
    PROVE  TypeRest'
<1>0. MaxListeners \in Nat /\ Scripts \subseteq Coroutines /\ TypeRest
  BY SignalAssumption DEF TableInv, TypeOK, TypeRest
<1>1. ASSUME NEW once \in BOOLEAN, Connect(once) PROVE TypeRest'
  <2>1. Len(listeners) + 1 \in Ids
    BY <1>0, <1>1 DEF Connect, ConnectTable, TableInv, TypeOK, Ids
  <2> QED BY <2>1, <1>0, <1>1, ThreadTypes DEF Connect, ConnectTable, Ref, TypeRest, walk, waiting
<1>2. ASSUME NEW id \in 1..MaxListeners, Disconnect(id) PROVE TypeRest'
  BY <1>0, <1>2 DEF Disconnect, TypeRest, walk, waiting
<1>3. CASE BeginFire
  BY <1>0, <1>3 DEF BeginFire, TypeRest, threads, waiting
<1>4. CASE Dispatch
  <2> DEFINE idx == tmpActive[cursor]
             own == Reusable(idx)
             gone == IF listeners[idx].once THEN {own} ELSE {}
  <2>1. idx \in Ids /\ own \in Threads
    BY <1>4, ThreadTypes, ElementOfSeq DEF Dispatch, Walk, TableInv, TypeOK, Ids
  <2>2. owed' \in [1..MaxListeners -> Int] /\ cursor' \in Nat /\ UNCHANGED <<waiting, lmStack, dead>>
    <3>1. owed' = [owed EXCEPT ![idx] = @ - 1] /\ cursor' = cursor + 1 /\ UNCHANGED <<waiting, lmStack, dead>>
      BY <1>4 DEF Dispatch, Walk
    <3> QED BY <3>1, <2>1, <1>0 DEF TypeRest, Ids
  <2>3. CASE /\ tasks' = [th \in DOMAIN tasks \cup {own} |-> IF th = own THEN FALSE ELSE tasks[th]]
             /\ registry' = registry \ gone
    BY <2>1, <2>2, <2>3, <1>0 DEF TypeRest, waiting
  <2>4. CASE \E new \in Ephemerals :
               /\ tasks' = [th \in DOMAIN tasks \cup {new} |-> IF th = new THEN TRUE ELSE tasks[th]]
               /\ registry' = (registry \cup {new}) \ gone
    BY <2>1, <2>2, <2>4, <1>0, ThreadTypes DEF TypeRest, waiting
  <2> QED BY <2>3, <2>4, <1>4 DEF Dispatch, Walk
<1>5. CASE EndDispatch
  BY <1>0, <1>5 DEF EndDispatch, WaitersAfterMove, TypeRest, threads
<1>10. CASE WakeWaiter
  BY <1>0, <1>10, HeadTailProperties DEF WakeWaiter, TypeRest, walk, threads
<1>6. ASSUME NEW c \in Coroutines, Wait(c) PROVE TypeRest'
  BY <1>0, <1>6 DEF Wait, TypeRest, walk, threads
<1>7. ASSUME NEW c \in Scripts, StopScript(c) \/ WaitStopped(c) PROVE TypeRest'
  <2>1. CASE StopScript(c)
    BY <1>0, <2>1 DEF StopScript, TypeRest, walk, threads
  <2>2. CASE WaitStopped(c)
    <3>1. waiters' = Append(waiters, c) /\ c \in Coroutines
          /\ UNCHANGED <<walk, threads, waking, suspended, stopped, owed>>
      BY <1>0, <2>2 DEF WaitStopped
    <3> QED BY <1>0, <3>1 DEF TypeRest, walk, threads
  <2> QED BY <1>7, <2>1, <2>2
<1>8. ASSUME NEW th \in Threads, CallbackReturns(th) \/ CallbackFails(th) PROVE TypeRest'
  BY <1>0, <1>8 DEF CallbackReturns, CallbackFails, EndTask, TypeRest, walk, waiting
<1>9. CASE UNCHANGED vars
  BY <1>0, <1>9 DEF TypeRest, vars, walk, threads, waiting
<1> QED
  BY <1>1, <1>2, <1>3, <1>4, <1>5, <1>6, <1>7, <1>8, <1>9, <1>10 DEF Next

LEMMA TableInit == Init => TableInv
<1> SUFFICES ASSUME Init PROVE TableInv
  OBVIOUS
<1>1. MaxListeners \in Nat
  BY SignalAssumption
<1>2. TypeOK
  BY <1>1 DEF Init, TypeOK
<1>3. ActiveTable /\ WalkInRange
  BY DEF Init, ActiveTable, WalkInRange
<1> QED BY <1>2, <1>3 DEF TableInv

LEMMA TableKept == TableInv /\ [Next]_vars => TableInv'
BY TableStep, RestStep DEF TableInv, TypeOK, TypeTable, TypeRest, Ids

LEMMA TableInvariant == Spec => []TableInv
BY TableInit, TableKept, PTL DEF Spec

\* Every variable keeps its type, however many listeners connect.
THEOREM TypeCorrect == Spec => []TypeOK
<1>1. TableInv => TypeOK
  BY DEF TableInv
<1> QED BY TableInvariant, <1>1, PTL

\* Disconnect's swap-removal (Signal.cpp:75-83) keeps activeIdx and activePos
\* inverse to each other, whatever the order of connects, once dispatches and
\* disconnects, and id2idx knows exactly the connected listeners.
THEOREM TableCorrect == Spec => []ActiveTable
<1>1. TableInv => ActiveTable
  BY DEF TableInv
<1> QED BY TableInvariant, <1>1, PTL

----------------------------------------------------------------------------
\* Anchoring: reusable threads are scheduled without a reference of their own
\* and may lose the listener's, so that the argument rests on the stack slot
\* that Connect leaves; ephemeral ones carry a reference.

AnchorInv ==
    /\ \A i \in 1..Len(listeners) : Reusable(i) \in lmStack
    /\ \A th \in DOMAIN tasks :
         \/ tasks[th] = TRUE /\ th \in Ephemerals /\ th \in registry
         \/ tasks[th] = FALSE /\ \E i \in 1..Len(listeners) : th = Reusable(i)

LEMMA AnchorStep ==
    ASSUME TableInv, AnchorInv, [Next]_vars
    PROVE  AnchorInv'
<1>0. /\ MaxListeners \in Nat /\ Len(listeners) \in Nat /\ Len(listeners) <= MaxListeners
      /\ \A e \in Ephemerals : \A i \in 1..Len(listeners) : e # Reusable(i)
  BY SignalAssumption DEF TableInv, TypeOK
<1>1. ASSUME NEW once \in BOOLEAN, Connect(once) PROVE AnchorInv'
  <2>1. Len(listeners') = Len(listeners) + 1
    BY <1>0, <1>1 DEF Connect, ConnectTable, TableInv, TypeOK
  <2>2. \A i \in 1..Len(listeners') : Reusable(i) \in lmStack'
    BY <2>1, <1>0, <1>1 DEF Connect, ConnectTable, Ref, AnchorInv
  <2>3. UNCHANGED tasks /\ registry \subseteq registry'
    BY <1>1 DEF Connect
  <2> QED BY <2>1, <2>2, <2>3, <1>0 DEF AnchorInv
<1>2. ASSUME NEW id \in 1..MaxListeners, Disconnect(id) PROVE AnchorInv'
  <2>1. id \in DOMAIN id2idx /\ DisconnectTable(id)
    BY <1>2 DEF Disconnect
  <2>2. Len(listeners') = Len(listeners) /\ id2idx[id] \in 1..Len(listeners)
    BY <2>1, <1>0, RemovalFacts DEF TableInv, TypeOK, TypeTable, Ids
  <2>3. registry' = registry \ {Reusable(id2idx[id])} /\ UNCHANGED <<tasks, lmStack>>
    BY <1>2 DEF Disconnect
  <2> QED BY <2>2, <2>3, <1>0 DEF AnchorInv
<1>3. ASSUME UNCHANGED <<listeners, tasks, registry, lmStack>> PROVE AnchorInv'
  BY <1>3 DEF AnchorInv
<1>4. CASE Dispatch
  <2> DEFINE idx == tmpActive[cursor]
             own == Reusable(idx)
             gone == IF listeners[idx].once THEN {own} ELSE {}
  <2>1. idx \in 1..Len(listeners) /\ Connected(idx)
    BY <1>4 DEF Dispatch, Walk, TableInv, WalkInRange
  <2>0. UNCHANGED lmStack
    BY <1>4 DEF Dispatch
  <2>2. Len(listeners') = Len(listeners)
    <3>1. idx \in DOMAIN id2idx
      BY <2>1 DEF TableInv, ActiveTable
    <3>2. CASE listeners[idx].once
      <4>1. DisconnectTable(idx)
        BY <3>2, <1>4 DEF Dispatch, Walk
      <4> QED BY <3>1, <4>1, <1>0, RemovalFacts DEF TableInv, TypeOK, TypeTable, Ids
    <3>3. CASE ~ listeners[idx].once
      BY <3>3, <1>4 DEF Dispatch, Walk, table
    <3> QED BY <3>2, <3>3
  <2>3. CASE /\ tasks' = [th \in DOMAIN tasks \cup {own} |-> IF th = own THEN FALSE ELSE tasks[th]]
             /\ registry' = registry \ gone
    BY <2>0, <2>1, <2>2, <2>3, <1>0 DEF AnchorInv
  <2>4. CASE \E new \in Ephemerals :
               /\ tasks' = [th \in DOMAIN tasks \cup {new} |-> IF th = new THEN TRUE ELSE tasks[th]]
               /\ registry' = (registry \cup {new}) \ gone
    BY <2>0, <2>1, <2>2, <2>4, <1>0 DEF AnchorInv
  <2> QED BY <2>3, <2>4, <1>4 DEF Dispatch, Walk
<1>5. ASSUME NEW th \in Threads, th \in DOMAIN tasks, EndTask(th) PROVE AnchorInv'
  <2>1. /\ tasks' = [x \in DOMAIN tasks \ {th} |-> tasks[x]]
        /\ registry' = IF tasks[th] THEN registry \ {th} ELSE registry
        /\ UNCHANGED <<listeners, lmStack>>
    BY <1>5 DEF EndTask, table
  <2>2. CASE tasks[th] = TRUE
    <3>1. th \in Ephemerals
      BY <2>2, <1>5 DEF AnchorInv
    <3> QED BY <2>1, <2>2, <3>1, <1>0 DEF AnchorInv
  <2>3. CASE tasks[th] = FALSE
    BY <2>1, <2>3, <1>0 DEF AnchorInv
  <2> QED BY <2>2, <2>3, <1>5 DEF AnchorInv
<1>6. CASE BeginFire \/ EndDispatch \/ WakeWaiter
  BY <1>6, <1>3 DEF BeginFire, EndDispatch, WakeWaiter, table, threads
<1>7. CASE \E c \in Coroutines : Wait(c)
  BY <1>7, <1>3 DEF Wait, table, threads
<1>8. CASE \E c \in Scripts : StopScript(c) \/ WaitStopped(c)
  BY <1>8, <1>3 DEF StopScript, WaitStopped, table, threads
<1>9. CASE UNCHANGED vars
  BY <1>9, <1>3 DEF vars, table, threads
<1> QED
  BY <1>1, <1>2, <1>4, <1>5, <1>6, <1>7, <1>8, <1>9 DEF Next, CallbackReturns, CallbackFails

\* Every thread the scheduler holds is kept from the collector (Signal.cpp:
\* 33-38, 153-183; LuaScheduler.cpp:423-432): a disconnected or once listener's
\* only by the slot that lua_ref leaves on the main state's stack.
THEOREM Anchored == Spec => []ScheduledAnchored
<1>1. Init => AnchorInv
  BY DEF Init, AnchorInv
<1>2. TableInv /\ AnchorInv /\ [Next]_vars => AnchorInv'
  BY AnchorStep
<1>3. AnchorInv => ScheduledAnchored
  BY DEF AnchorInv, ScheduledAnchored
<1> QED BY <1>1, <1>2, <1>3, TableInvariant, PTL DEF Spec

----------------------------------------------------------------------------
\* The dispatch loop.  What a Fire still owes is what its snapshot has ahead of
\* the cursor, and a snapshot of activeIdx names no listener twice.

OwesInv ==
    /\ \A p, q \in 1..Len(tmpActive) : tmpActive[p] = tmpActive[q] => p = q
    /\ \A i \in DOMAIN owed :
         IF cursor # 0 /\ \E p \in 1..Len(tmpActive) : p >= cursor /\ tmpActive[p] = i
         THEN owed[i] = 1 ELSE owed[i] = 0

LEMMA OwesStep ==
    ASSUME TableInv, OwesInv, [Next]_vars
    PROVE  OwesInv'
<1>0. MaxListeners \in Nat /\ cursor \in Nat /\ owed \in [1..MaxListeners -> Int]
      /\ tmpActive \in Seq(Ids) /\ activeIdx \in Seq(Ids)
  BY SignalAssumption DEF TableInv, TypeOK, Ids
<1>1. ASSUME UNCHANGED <<walk, owed>> PROVE OwesInv'
  BY <1>1 DEF OwesInv, walk
<1>2. CASE BeginFire
  <2>1. tmpActive' = activeIdx /\ cursor' = 1
        /\ owed' = [i \in DOMAIN owed |-> IF i \in Range(activeIdx) THEN 1 ELSE 0]
    BY <1>2 DEF BeginFire
  <2>2. \A p, q \in 1..Len(activeIdx) : activeIdx[p] = activeIdx[q] => p = q
    BY DEF TableInv, ActiveTable
  <2>3. \A i : i \in Range(activeIdx) <=> \E p \in 1..Len(activeIdx) : activeIdx[p] = i
    BY <1>0 DEF Range
  <2> QED BY <2>1, <2>2, <2>3 DEF OwesInv
<1>3. CASE Dispatch
  <2> DEFINE idx == tmpActive[cursor]
  <2>1. /\ cursor \in 1..Len(tmpActive) /\ cursor' = cursor + 1 /\ UNCHANGED tmpActive
        /\ owed' = [owed EXCEPT ![idx] = @ - 1]
    BY <1>3 DEF Dispatch, Walk
  <2>2. idx \in DOMAIN owed /\ idx \in Ids
    BY <2>1, <1>0, ElementOfSeq DEF Ids
  <2>3. owed[idx] = 1 /\ owed'[idx] = 0
    BY <2>1, <2>2, <1>0 DEF OwesInv
  <2>4. ASSUME NEW i \in DOMAIN owed
        PROVE  IF \E p \in 1..Len(tmpActive) : p >= cursor + 1 /\ tmpActive[p] = i
               THEN owed'[i] = 1 ELSE owed'[i] = 0
    <3>1. CASE i = idx
      BY <3>1, <2>1, <2>3, <1>0 DEF OwesInv
    <3>2. CASE i # idx
      <4>1. owed'[i] = owed[i]
        BY <3>2, <2>1, <1>0
      <4>2. \A p \in 1..Len(tmpActive) : tmpActive[p] = i => p # cursor
        BY <3>2
      <4> QED BY <4>1, <4>2, <2>1, <1>0 DEF OwesInv
    <3> QED BY <3>1, <3>2
  <2>5. DOMAIN owed' = DOMAIN owed /\ cursor' # 0
    BY <2>1, <1>0
  <2> QED BY <2>1, <2>4, <2>5, <1>0 DEF OwesInv
<1>4. CASE EndDispatch
  <2>1. cursor > Len(tmpActive) /\ tmpActive' = << >> /\ cursor' = 0 /\ UNCHANGED owed
    BY <1>4 DEF EndDispatch, Walk
  <2>2. \A i \in DOMAIN owed : owed[i] = 0
    BY <2>1, <1>0 DEF OwesInv
  <2> QED BY <2>1, <2>2 DEF OwesInv
<1> QED
  BY <1>1, <1>2, <1>3, <1>4
  DEF Next, vars, Connect, Disconnect, WakeWaiter, Wait, StopScript, WaitStopped,
      CallbackReturns, CallbackFails, EndTask

\* A Fire dispatches once to each listener that is connected when it begins,
\* although once listeners leave activeIdx while the loop runs (Signal.cpp:136-192).
THEOREM FireComplete == Spec => []FireServesEachOnce
<1>1. Init => OwesInv
  BY DEF Init, OwesInv
<1>2. TableInv /\ OwesInv /\ [Next]_vars => OwesInv'
  BY OwesStep
<1>3. OwesInv => FireServesEachOnce
  BY DEF OwesInv, FireServesEachOnce, Idle
<1> QED BY <1>1, <1>2, <1>3, TableInvariant, PTL DEF Spec

----------------------------------------------------------------------------
\* The waiters.

NoRepeats(q) == \A i, j \in DOMAIN q : q[i] = q[j] => i = j

LEMMA AppendsNew ==
    ASSUME NEW S, NEW q \in Seq(S), NEW c \in S, NoRepeats(q), c \notin Range(q)
    PROVE  NoRepeats(Append(q, c)) /\ Range(Append(q, c)) = Range(q) \cup {c}
<1>1. /\ DOMAIN Append(q, c) = 1..(Len(q) + 1) /\ Append(q, c)[Len(q) + 1] = c
      /\ DOMAIN q = 1..Len(q) /\ Len(q) \in Nat
      /\ \A i \in 1..Len(q) : Append(q, c)[i] = q[i]
  OBVIOUS
<1> QED BY <1>1 DEF NoRepeats, Range

LEMMA TailLosesHead ==
    ASSUME NEW S, NEW q \in Seq(S), NEW r \in Seq(S), NoRepeats(q \o r), r # << >>
    PROVE  NoRepeats(q \o Tail(r)) /\ Range(q \o Tail(r)) = Range(q \o r) \ {Head(r)}
<1>1. /\ DOMAIN (q \o r) = 1..(Len(q) + Len(r)) /\ Len(q) \in Nat /\ Len(r) \in Nat \ {0}
      /\ \A i \in 1..(Len(q) + Len(r)) :
           (q \o r)[i] = IF i <= Len(q) THEN q[i] ELSE r[i - Len(q)]
  OBVIOUS
<1>2. /\ Tail(r) \in Seq(S) /\ Len(Tail(r)) = Len(r) - 1 /\ Head(r) = r[1]
      /\ \A i \in 1..(Len(r) - 1) : Tail(r)[i] = r[i + 1]
  OBVIOUS
<1>3. /\ DOMAIN (q \o Tail(r)) = 1..(Len(q) + Len(r) - 1)
      /\ \A i \in 1..(Len(q) + Len(r) - 1) :
           (q \o Tail(r))[i] = IF i <= Len(q) THEN q[i] ELSE Tail(r)[i - Len(q)]
  BY <1>1, <1>2
<1> DEFINE old(i) == IF i <= Len(q) THEN i ELSE i + 1
           p == Len(q) + 1
<1>4. \A i \in DOMAIN (q \o Tail(r)) : /\ old(i) \in DOMAIN (q \o r) /\ old(i) # p
                                         /\ (q \o Tail(r))[i] = (q \o r)[old(i)]
  BY <1>1, <1>2, <1>3
<1>5. \A j \in DOMAIN (q \o r) : j # p => \E i \in DOMAIN (q \o Tail(r)) : old(i) = j
  <2> TAKE j \in DOMAIN (q \o r)
  <2>1. CASE j <= Len(q)
    BY <2>1, <1>1, <1>3
  <2>2. CASE j > p
    <3>1. j - 1 \in DOMAIN (q \o Tail(r)) /\ old(j - 1) = j
      BY <2>2, <1>1, <1>3
    <3> QED BY <3>1
  <2> QED BY <2>1, <2>2, <1>1
<1>6. \A i, j \in DOMAIN (q \o Tail(r)) : old(i) = old(j) => i = j
  BY <1>1, <1>3
<1>7. p \in DOMAIN (q \o r) /\ (q \o r)[p] = Head(r)
  BY <1>1, <1>2
<1> HIDE DEF old, p
<1>8. NoRepeats(q \o Tail(r))
  BY <1>4, <1>6 DEF NoRepeats
<1>9. Range(q \o Tail(r)) = Range(q \o r) \ {Head(r)}
  <2>1. \A i \in DOMAIN (q \o Tail(r)) :
           (q \o Tail(r))[i] \in Range(q \o r) \ {Head(r)}
    BY <1>4, <1>7 DEF NoRepeats, Range
  <2>2. \A j \in DOMAIN (q \o r) :
           (q \o r)[j] # Head(r) => (q \o r)[j] \in Range(q \o Tail(r))
    BY <1>4, <1>5, <1>7 DEF Range
  <2> QED BY <2>1, <2>2 DEF Range
<1> QED BY <1>8, <1>9

\* Besides, the waiters are moved out when none is left to be woken.
WaitersInv == WaitersExact /\ (cursor # 0 => waking = << >>)

LEMMA WaitersStep ==
    ASSUME TableInv, WaitersInv, [Next]_vars
    PROVE  WaitersInv'
<1>0. /\ waiters \in Seq(Coroutines) /\ waking \in Seq(Coroutines) /\ cursor \in Nat
      /\ NoRepeats(waiters \o waking) /\ Range(waiters \o waking) \ stopped = suspended
      /\ Scripts \subseteq Coroutines
  BY SignalAssumption DEF TableInv, TypeOK, WaitersInv, WaitersExact, Listed, NoRepeats
<1>1. ASSUME UNCHANGED waiting, cursor' # 0 => cursor # 0 \/ Idle PROVE WaitersInv'
  BY <1>1 DEF WaitersInv, WaitersExact, Listed, waiting, Idle
<1>2. ASSUME NEW c \in Coroutines, Wait(c) PROVE WaitersInv'
  <2>1. c \notin suspended /\ c \notin stopped /\ waiters' = Append(waiters, c)
        /\ suspended' = suspended \cup {c} /\ UNCHANGED <<stopped, waking, cursor>>
        /\ waking = << >>
    BY <1>2 DEF Wait, Idle, walk
  <2>2. /\ NoRepeats(waiters' \o waking')
        /\ Range(waiters' \o waking') = Range(waiters \o waking) \cup {c}
    <3>1. waiters \o waking = waiters /\ waiters' \o waking' = Append(waiters, c)
      BY <2>1, <1>0
    <3>2. NoRepeats(waiters) /\ c \notin Range(waiters)
      BY <3>1, <2>1, <1>0
    <3> QED BY <3>1, <3>2, <1>0, AppendsNew
  <2> QED BY <2>1, <2>2, <1>0 DEF WaitersInv, WaitersExact, Listed, NoRepeats
<1>3. ASSUME NEW c \in Scripts, WaitStopped(c) PROVE WaitersInv'
  <2>1. c \in stopped /\ c \notin Range(waiters) /\ waiters' = Append(waiters, c)
        /\ UNCHANGED <<suspended, stopped, waking, cursor>> /\ waking = << >>
    BY <1>3 DEF WaitStopped, Idle, walk
  <2>2. waiters \o waking = waiters
    BY <2>1, <1>0
  <2>3. /\ NoRepeats(waiters' \o waking')
        /\ Range(waiters' \o waking') = Range(waiters \o waking) \cup {c}
    <3>1. waiters' \o waking' = Append(waiters, c) /\ c \in Coroutines
      BY <2>1, <1>0
    <3>2. NoRepeats(waiters) /\ c \notin Range(waiters)
      BY <2>1, <2>2, <1>0
    <3> QED BY <2>2, <3>1, <3>2, <1>0, AppendsNew
  <2> QED BY <2>1, <2>3, <1>0 DEF WaitersInv, WaitersExact, Listed, NoRepeats
<1>4. ASSUME NEW c \in Scripts, StopScript(c) PROVE WaitersInv'
  BY <1>4 DEF StopScript, WaitersInv, WaitersExact, Listed, walk
<1>5. CASE EndDispatch
  <2>1. /\ waking' = waiters /\ waiters' = << >> /\ UNCHANGED <<suspended, stopped>> /\ cursor' = 0
        /\ cursor # 0
    BY <1>0, <1>5 DEF EndDispatch, WaitersAfterMove, Walk
  <2>2. waking = << >>
    BY <2>1 DEF WaitersInv
  <2>3. waiters' \o waking' = waiters \o waking
    BY <2>1, <2>2, <1>0
  <2> QED BY <2>1, <2>3, <1>0 DEF WaitersInv, WaitersExact, Listed, NoRepeats
<1>6. CASE WakeWaiter
  <2>1. /\ waking # << >> /\ waking' = Tail(waking) /\ suspended' = suspended \ {Head(waking)}
        /\ UNCHANGED <<waiters, stopped, cursor>>
    BY <1>6 DEF WakeWaiter, walk
  <2>2. /\ NoRepeats(waiters' \o waking')
        /\ Range(waiters' \o waking') = Range(waiters \o waking) \ {Head(waking)}
    BY <2>1, <1>0, TailLosesHead
  <2>3. cursor' # 0 => waking' = << >>
    BY <2>1 DEF WaitersInv
  <2> QED BY <2>1, <2>2, <2>3, <1>0 DEF WaitersInv, WaitersExact, Listed, NoRepeats
<1>7. CASE BeginFire
  BY <1>1, <1>7 DEF BeginFire
<1>8. CASE Dispatch
  <2>1. cursor # 0 /\ UNCHANGED waiting
    BY <1>0, <1>8 DEF Dispatch
  <2> QED BY <2>1, <1>1
<1> QED
  BY <1>1, <1>2, <1>3, <1>4, <1>5, <1>6, <1>7, <1>8
  DEF Next, vars, walk, Connect, Disconnect, CallbackReturns, CallbackFails, EndTask

\* Whoever is inside Wait is in the list, once, and nobody else is but
\* destroyed scripts, which have no thread (Signal.cpp:97-104, 110-117).
THEOREM WaitersListed == Spec => []WaitersExact
<1>1. Init => WaitersInv
  BY DEF Init, WaitersInv, WaitersExact, Listed, Range
<1>2. TableInv /\ WaitersInv /\ [Next]_vars => WaitersInv'
  BY WaitersStep
<1>3. WaitersInv => WaitersExact
  BY DEF WaitersInv
<1> QED BY <1>1, <1>2, <1>3, TableInvariant, PTL DEF Spec

=============================================================================
