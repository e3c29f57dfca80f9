---------------------------- MODULE EngineProofs ----------------------------
(***************************************************************************)
(* Proofs about Engine, for all sets of keys and values: its types, the    *)
(* discipline of the writer lock, and that the functions of dbEngine.h     *)
(* implement the durable map of KVStore.                                   *)
(***************************************************************************)
EXTENDS Engine, TLAPS

(* The shape of a call, which the record sets of Calls do not show.        *)
LEMMA CallShape ==
  ASSUME NEW c \in Calls
  PROVE  /\ c.op \in Ops
         /\ c.op \in AllOps
         /\ c.op # "drop" => c.key \in Keys
         /\ c.op = "set" => c.val \in Values
BY DEF Calls, AllOps

LEMMA EmptyContents == Empty \in Contents
BY DEF Empty, Contents

LEMMA TypeInit == Init => TypeOK
<1>1. OK \in Results
  BY DEF OK, Results
<1> QED
  BY <1>1, EmptyContents DEF Init, TypeOK, Points

LEMMA TypeNext == TypeOK /\ [Next]_vars => TypeOK'
<1> SUFFICES ASSUME TypeOK, [Next]_vars PROVE TypeOK'
  OBVIOUS
<1> USE DEF TypeOK, Points
<1>1. CASE Open
  BY <1>1 DEF Open
<1>2. CASE Close
  BY <1>2 DEF Close
<1>3. CASE Crash
  BY <1>3 DEF Crash
<1>4. CASE Invoke
  BY <1>4 DEF Invoke
<1>5. CASE TxnBegin
  BY <1>5 DEF TxnBegin
<1>6. CASE OpFails
  BY <1>6 DEF OpFails
<1>7. CASE Put
  <2>1. call \in Calls
    BY <1>7 DEF Put, NoCall
  <2>2. call.val \in Values
    BY <2>1, <1>7, CallShape DEF Put
  <2>3. work' \in Contents
    BY <1>7, <2>2 DEF Put, Contents
  <2> QED
    BY <1>7, <2>3 DEF Put
<1>8. CASE Get
  <2>1. call \in Calls
    BY <1>8 DEF Get, NoCall
  <2>2. call.key \in Keys
    BY <2>1, <1>8, CallShape DEF Get
  <2>3. ret' \in Results
    BY <1>8, <2>2 DEF Get, Contents, Results
  <2> QED
    BY <1>8, <2>3 DEF Get
<1>9. CASE Del
  <2>1. work' \in Contents
    BY <1>9 DEF Del, Contents
  <2> QED
    BY <1>9, <2>1 DEF Del
<1>10. CASE Drop
  BY <1>10, EmptyContents DEF Drop
<1>11. CASE Commit
  <2>1. OK \in Results
    BY DEF OK, Results
  <2> QED
    BY <1>11, <2>1 DEF Commit
<1>12. CASE Exit
  <2>1. OK \in Results /\ Err \in Results
    BY DEF OK, Err, Results
  <2> QED
    BY <1>12, <2>1 DEF Exit
<1>13. CASE Return
  BY <1>13 DEF Return
<1>14. CASE UNCHANGED vars
  BY <1>14 DEF vars
<1> QED
  BY <1>1, <1>2, <1>3, <1>4, <1>5, <1>6, <1>7, <1>8, <1>9, <1>10, <1>11,
     <1>12, <1>13, <1>14 DEF Next, Step

(***************************************************************************)
(* Every variable keeps its type, whatever the order of calls, failures of *)
(* LMDB and crashes.                                                       *)
(***************************************************************************)
THEOREM TypeCorrect == Spec => []TypeOK
BY TypeInit, TypeNext, PTL DEF Spec

(***************************************************************************)
(* The inductive invariant.  That the lock follows the handle depends on   *)
(* the process being up while a call is in progress; that a commit writes  *)
(* the call and nothing else depends on nobody else committing between     *)
(* mdb_txn_begin and mdb_txn_commit.  That a dropped database stays empty  *)
(* depends on no call getting as far as a commit with a cleared dbi.       *)
(***************************************************************************)
CommitsToDb1 == pc = "commit" => dbi = "db1"

IInv ==
  TypeOK /\ LockDiscipline /\ TransactionIsCall /\ OrphanBlocksAll
    /\ DroppedStaysEmpty /\ CommitsToDb1

LEMMA InvInit == Init => IInv
BY TypeInit
   DEF Init, IInv, LockDiscipline, TransactionIsCall, OrphanBlocksAll,
       DroppedStaysEmpty, CommitsToDb1

LEMMA InvNext == IInv /\ [Next]_vars => IInv'
<1> SUFFICES ASSUME IInv, [Next]_vars
             PROVE  /\ LockDiscipline' /\ TransactionIsCall' /\ OrphanBlocksAll'
                    /\ DroppedStaysEmpty' /\ CommitsToDb1'
  BY TypeNext DEF IInv
<1> USE DEF IInv, LockDiscipline, TransactionIsCall, OrphanBlocksAll,
            DroppedStaysEmpty, CommitsToDb1
<1>1. CASE Open \/ Close \/ Crash
  BY <1>1 DEF Open, Close, Crash
<1>2. CASE Invoke
  BY <1>2 DEF Invoke
<1>3. CASE TxnBegin
  BY <1>3 DEF TxnBegin
<1>4. CASE OpFails
  BY <1>4 DEF OpFails
<1>5. CASE Put
  BY <1>5 DEF Put, Effect
<1>6. CASE Get
  BY <1>6 DEF Get
<1>7. CASE Del
  BY <1>7 DEF Del
<1>8. CASE Drop
  BY <1>8 DEF Drop, Effect
<1>9. CASE Commit
  <2>1. call.op = "drop" => work = Empty
    BY <1>9 DEF Commit, Effect
  <2>2. DroppedStaysEmpty'
    BY <1>9, <2>1 DEF Commit, Empty
  <2> QED
    BY <1>9, <2>2 DEF Commit
<1>10. CASE Exit
  BY <1>10 DEF Exit
<1>11. CASE Return
  BY <1>11 DEF Return
<1>12. CASE UNCHANGED vars
  BY <1>12 DEF vars
<1> QED
  BY <1>1, <1>2, <1>3, <1>4, <1>5, <1>6, <1>7, <1>8, <1>9, <1>10, <1>11,
     <1>12 DEF Next, Step

LEMMA Invariant == Spec => []IInv
BY InvInit, InvNext, PTL DEF Spec

(***************************************************************************)
(* No path through dbEngine.c keeps or aborts a transaction it should not, *)
(* the leak of dbEngineGet apart.                                          *)
(***************************************************************************)
THEOREM LockSafe == Spec => []LockDiscipline
<1>1. IInv => LockDiscipline
  BY DEF IInv
<1> QED
  BY <1>1, Invariant, PTL

(***************************************************************************)
(* What a commit makes durable is the call in progress and nothing else.   *)
(***************************************************************************)
THEOREM TransactionSafe == Spec => []TransactionIsCall
<1>1. IInv => TransactionIsCall
  BY DEF IInv
<1> QED
  BY <1>1, Invariant, PTL

(***************************************************************************)
(* After a dbEngineGet that found its key nothing gets past mdb_txn_begin. *)
(***************************************************************************)
THEOREM OrphanBlocks == Spec => []OrphanBlocksAll
<1>1. IInv => OrphanBlocksAll
  BY DEF IInv
<1> QED
  BY <1>1, Invariant, PTL

(***************************************************************************)
(* After db_engine_drop the database is empty until it is opened again.    *)
(***************************************************************************)
THEOREM DroppedIsEmpty == Spec => []DroppedStaysEmpty
<1>1. IInv => DroppedStaysEmpty
  BY DEF IInv
<1> QED
  BY <1>1, Invariant, PTL
-----------------------------------------------------------------------------
LEMMA RefinesInit == Init => KV!Init
BY DEF Init, KV!Init, Phase, Empty, KV!Empty, NoCall, KV!NoCall, OK, KV!OK

(***************************************************************************)
(* Each step of the engine is a step of the abstract store or none of it:  *)
(* Commit and Get are where a call takes effect, Exit is where it is       *)
(* refused, which for remove and drop still answers DB_OK.                 *)
(***************************************************************************)
LEMMA RefinesNext ==
  ASSUME IInv, [Next]_vars
  PROVE  [KV!Next]_(KV!vars)
<1> USE DEF Phase, KV!Next, KV!vars, IInv, TypeOK, Points
<1>2. CASE Open
  BY <1>2 DEF Open, KV!Open
<1>3. CASE Close
  BY <1>3 DEF Close, KV!Stop
<1>4. CASE Crash
  BY <1>4 DEF Crash, KV!Stop
<1>5. CASE Invoke
  <2>1. call' \in KV!Calls
    BY <1>5 DEF Invoke, Calls, KV!Calls
  <2> QED
    BY <1>5, <2>1 DEF Invoke, KV!Request
<1>6. CASE TxnBegin \/ OpFails \/ Put \/ Del \/ Drop
  BY <1>6 DEF TxnBegin, OpFails, Put, Del, Drop, TransactionIsCall
<1>7. CASE Get
  BY <1>7 DEF Get, KV!Perform, KV!Effect, TransactionIsCall
<1>8. CASE Commit
  <2>1. KV!Effect(disk, call) = Effect(disk, call)
    BY DEF KV!Effect, Effect, KV!Empty, Empty
  <2> QED
    BY <1>8, <2>1 DEF Commit, KV!Perform, TransactionIsCall, OK, KV!OK
<1>9. CASE Exit
  BY <1>9 DEF Exit, KV!Refuse, KV!Stop, TransactionIsCall, SilentOps,
              OK, KV!OK, Err, KV!Err
<1>10. CASE Return
  BY <1>10 DEF Return, KV!Respond, TransactionIsCall
<1>11. CASE UNCHANGED vars
  BY <1>11 DEF vars
<1> QED
  BY <1>2, <1>3, <1>4, <1>5, <1>6, <1>7, <1>8, <1>9, <1>10, <1>11
     DEF Next, Step

(***************************************************************************)
(* The functions of dbEngine.h implement the durable map: an acknowledged  *)
(* set is durable whatever crashes, a set or get that was refused changed  *)
(* nothing, and a get answers with the latest committed value.             *)
(***************************************************************************)
THEOREM EngineImplementsStore == Spec => KVSpec
<1>1. IInv /\ [Next]_vars => [KV!Next]_(KV!vars)
  BY RefinesNext
<1> QED
  BY <1>1, RefinesInit, Invariant, PTL DEF Spec, KVSpec, KV!Spec
=============================================================================
