------------------------------- MODULE Engine -------------------------------
(***************************************************************************)
(* The storage engine of src/dbEngine.c.  Each function of dbEngine.h is a *)
(* sequence of calls to LMDB, every one of which may fail: MDBE then jumps *)
(* to the EXIT label.  One action is one LMDB call, so that the process    *)
(* may be killed between any two of them.                                  *)
(*                                                                         *)
(* LMDB itself is external and modelled from how dbEngine.c uses it:       *)
(* mdb_txn_begin(env, NULL, 0, &txn) starts a WRITE transaction, of which  *)
(* there is at most one, and blocks while another one exists; a commit is  *)
(* atomic and durable; committing a transaction, successfully or not, ends *)
(* it, and a handle that has ended must not be used again.                 *)
(***************************************************************************)
EXTENDS StoreInterface

CONSTANT
  DbiFits   (* the smallest block of malloc has room for a struct dbEngine  *)

ASSUME DbiFitsAssumption == DbiFits \in BOOLEAN

VARIABLES
  disk,    (* the committed contents of the database "db1"                  *)
  up,      (* dbEngineOpen has succeeded and the engine is still in use     *)
  dbi,     (* engine->dbi: "db1", or "zero" once db_engine_drop cleared it  *)
  writer,  (* LMDB's write transaction: "none", "call": the one of the call *)
           (* in progress, "orphan": one whose handle no code holds         *)
  txn,     (* the local variable txn: "null", "live", or "ended"            *)
  work,    (* the database as the live transaction sees it                  *)
  pc,      (* the next LMDB call of the function in progress                *)
  call,    (* that function and its arguments                               *)
  ret      (* its result                                                    *)

vars == <<disk, up, dbi, writer, txn, work, pc, call, ret>>

(* Function bodies: "begin" is mdb_txn_begin, "op" the put, get, del or    *)
(* drop, "commit" mdb_txn_commit, "exit" the code at EXIT and "return" the *)
(* return to the caller.  In "undefined" the program has handed LMDB a     *)
(* dead handle, or written past the memory it has: nothing is known of the *)
(* process until it is restarted.                                          *)
Points == {"idle", "begin", "op", "commit", "exit", "return", "undefined"}

TypeOK ==
  /\ disk \in Contents
  /\ up \in BOOLEAN
  /\ dbi \in {"db1", "zero"}
  /\ writer \in {"none", "call", "orphan"}
  /\ txn \in {"null", "live", "ended"}
  /\ work \in Contents
  /\ pc \in Points
  /\ call \in Calls \union {NoCall}
  /\ ret \in Results

Init ==
  /\ disk = Empty
  /\ up = FALSE
  /\ dbi = "db1"
  /\ writer = "none"
  /\ txn = "null"
  /\ work = Empty
  /\ pc = "idle"
  /\ call = NoCall
  /\ ret = OK
-----------------------------------------------------------------------------
(***************************************************************************)
(* dbEngineOpen.  Its transaction only creates "db1", so that a failure at *)
(* any of its steps leaves things as they were: it returns NULL and the    *)
(* caller gives up.  The lock file is reset by the first process to open   *)
(* the environment.  zcalloc is asked for the size of a pointer, so that   *)
(* engine->dbi lies past the end of what it must return.                   *)
(***************************************************************************)
Open ==
  /\ ~up /\ pc = "idle"
  /\ up' = TRUE
  /\ dbi' = "db1"
  /\ writer' = "none"
  /\ pc' \in {"idle"} \union (IF DbiFits THEN {} ELSE {"undefined"})
  /\ UNCHANGED <<disk, txn, work, call, ret>>

(* db_engine_close, between two calls; the environment goes, and with it   *)
(* whatever transaction was left in it.                                    *)
Close ==
  /\ up /\ pc = "idle"
  /\ up' = FALSE
  /\ writer' = "none"
  /\ UNCHANGED <<disk, dbi, txn, work, pc, call, ret>>

(* The process dies: a kill, DIE in zcalloc, or whatever an undefined      *)
(* behaviour led to.  Only committed data remains.                         *)
Crash ==
  /\ up
  /\ up' = FALSE
  /\ writer' = "none"
  /\ txn' = "null"
  /\ pc' = "idle"
  /\ UNCHANGED <<disk, dbi, work, call, ret>>

(* A caller enters one of the four functions.                              *)
Invoke ==
  /\ up /\ pc = "idle"
  /\ call' \in Calls
  /\ txn' = "null"
  /\ pc' = "begin"
  /\ UNCHANGED <<disk, up, dbi, writer, work, ret>>
-----------------------------------------------------------------------------
(***************************************************************************)
(* mdb_txn_begin.  There is no step while another write transaction        *)
(* exists: the thread waits for the writer lock.                           *)
(***************************************************************************)
TxnBegin ==
  /\ pc = "begin" /\ writer = "none"
  /\ \/ /\ writer' = "call"
        /\ txn' = "live"
        /\ work' = disk
        /\ pc' = "op"
     \/ /\ pc' = "exit"
        /\ UNCHANGED <<writer, txn, work>>
  /\ UNCHANGED <<disk, up, dbi, call, ret>>

(* LMDB refuses every operation on handle 0, and any of them may fail for  *)
(* other reasons (a key of a bad size, a full map, an I/O error).          *)
OpFails ==
  /\ pc = "op"
  /\ pc' = "exit"
  /\ UNCHANGED <<disk, up, dbi, writer, txn, work, call, ret>>

(* Mutant of Put: dbEngineSet returns DB_OK without committing.            *)
PutReturns ==
  /\ pc = "op" /\ call.op = "set" /\ dbi = "db1"
  /\ work' = [work EXCEPT ![call.key] = call.val]
  /\ ret' = OK
  /\ pc' = "return"
  /\ UNCHANGED <<disk, up, dbi, writer, txn, call>>

(* mdb_put in dbEngineSet.                                                 *)
Put ==
  /\ pc = "op" /\ call.op = "set" /\ dbi = "db1"
  /\ work' = [work EXCEPT ![call.key] = call.val]
  /\ pc' = "commit"
  /\ UNCHANGED <<disk, up, dbi, writer, txn, call, ret>>

(***************************************************************************)
(* mdb_get in dbEngineGet, when the key is bound: the value is copied out  *)
(* and the function returns DB_OK.  It neither commits nor aborts, and the *)
(* only handle to the write transaction goes out of scope.  A key that is  *)
(* not bound is MDB_NOTFOUND, hence OpFails.                               *)
(***************************************************************************)
Get ==
  /\ pc = "op" /\ call.op = "get" /\ dbi = "db1"
  /\ work[call.key] # NoValue
  /\ ret' = [code |-> "ok", val |-> work[call.key]]
  /\ writer' = "orphan"
  /\ txn' = "null"
  /\ pc' = "return"
  /\ UNCHANGED <<disk, up, dbi, work, call>>

(* mdb_del in dbEngineRemove, after which control falls through to EXIT.   *)
Del ==
  /\ pc = "op" /\ call.op = "remove" /\ dbi = "db1"
  /\ work' = [work EXCEPT ![call.key] = NoValue]
  /\ pc' = "exit"
  /\ UNCHANGED <<disk, up, dbi, writer, txn, call, ret>>

(* Mutant of Drop: mdb_drop(txn, dbi, 1), which deletes the table.         *)
DropDeletes ==
  /\ pc = "op" /\ call.op = "drop" /\ dbi = "db1"
  /\ work' = [k \in {} |-> NoValue]
  /\ pc' = "commit"
  /\ UNCHANGED <<disk, up, dbi, writer, txn, call, ret>>

(* mdb_drop(txn, dbi, 0) in db_engine_drop: the table is emptied, not      *)
(* deleted.                                                                *)
Drop ==
  /\ pc = "op" /\ call.op = "drop" /\ dbi = "db1"
  /\ work' = Empty
  /\ pc' = "commit"
  /\ UNCHANGED <<disk, up, dbi, writer, txn, call, ret>>

(* Mutant of Commit: db_engine_drop clears engine->dbi, then commits.      *)
CommitCleared ==
  /\ pc = "commit"
  /\ writer' = "none"
  /\ txn' = "ended"
  /\ dbi' = IF call.op = "drop" THEN "zero" ELSE dbi
  /\ \/ disk' = work /\ ret' = OK /\ pc' = "return"
     \/ pc' = "exit" /\ UNCHANGED <<disk, ret>>
  /\ UNCHANGED <<up, work, call>>

(***************************************************************************)
(* mdb_txn_commit in dbEngineSet and db_engine_drop; the latter then       *)
(* clears engine->dbi.  LMDB ends the transaction in both outcomes, but    *)
(* the variable txn keeps its handle.                                      *)
(***************************************************************************)
Commit ==
  /\ pc = "commit"
  /\ writer' = "none"
  /\ txn' = "ended"
  /\ \/ /\ disk' = work
        /\ dbi' = IF call.op = "drop" THEN "zero" ELSE dbi
        /\ ret' = OK
        /\ pc' = "return"
     \/ /\ pc' = "exit"
        /\ UNCHANGED <<disk, dbi, ret>>
  /\ UNCHANGED <<up, work, call>>

(* dbEngineRemove and db_engine_drop return DB_OK from EXIT as well.       *)
SilentOps == {"remove", "drop"}

(* Mutant of Exit: a failed call returns without mdb_txn_abort.            *)
ExitWithoutAbort ==
  /\ pc = "exit"
  /\ txn' = "null"
  /\ ret' = IF call.op \in SilentOps THEN OK ELSE Err
  /\ pc' = "return"
  /\ UNCHANGED <<disk, up, dbi, writer, work, call>>

(***************************************************************************)
(* The EXIT label.  A live transaction is aborted.  A handle that is not   *)
(* NULL is passed to mdb_txn_abort even when a failed commit has already   *)
(* ended it.  dbEngineRemove and db_engine_drop return DB_OK from here,    *)
(* whatever happened.                                                      *)
(***************************************************************************)
Exit ==
  /\ pc = "exit"
  /\ txn' = "null"
  /\ \/ /\ txn # "ended"
        /\ writer' = IF txn = "live" THEN "none" ELSE writer
        /\ ret' = IF call.op \in SilentOps THEN OK ELSE Err
        /\ pc' = "return"
     \/ /\ txn = "ended"
        /\ pc' = "undefined"
        /\ UNCHANGED <<writer, ret>>
  /\ UNCHANGED <<disk, up, dbi, work, call>>

Return ==
  /\ pc = "return"
  /\ pc' = "idle"
  /\ UNCHANGED <<disk, up, dbi, writer, txn, work, call, ret>>

(* The steps of a call in progress, all taken by one thread.               *)
Step == TxnBegin \/ OpFails \/ Put \/ Get \/ Del \/ Drop \/ Commit \/ Exit \/ Return

Next == Open \/ Close \/ Crash \/ Invoke \/ Step

Spec == Init /\ [][Next]_vars

(* The calling thread does not stop of its own accord in the middle of a   *)
(* call, and waiting for the writer lock is not stopping.                  *)
FairSpec == Spec /\ WF_vars(Step)
-----------------------------------------------------------------------------
(***************************************************************************)
(* Properties.                                                             *)
(***************************************************************************)

(* The writer lock follows the handle: the lock is the call's exactly      *)
(* while the call's handle is live, and only inside a function body.  No   *)
(* path of dbEngine.c, whichever LMDB call failed, returns with a live     *)
(* handle it could still have aborted, or aborts a lock it does not own.   *)
LockDiscipline ==
  /\ writer = "call" <=> txn = "live"
  /\ writer = "call" => up /\ pc \in {"op", "commit", "exit"}
  /\ pc \in {"op", "commit"} => txn = "live"

(* dbEngineGet that finds its key leaves the process unable to serve: from *)
(* then on no function of the engine gets past its mdb_txn_begin, until    *)
(* the environment is closed or the process restarted.                     *)
OrphanBlocksAll == writer = "orphan" => pc \in {"return", "idle", "begin"}

(* An engine whose dbi has been cleared has an empty database, and keeps   *)
(* it empty however often its functions are called: db_engine_drop leaves  *)
(* an engine that can only be closed, and does so only once the drop is    *)
(* durable.                                                                *)
DroppedStaysEmpty == up /\ dbi = "zero" => disk = Empty

(* Every call returns to its caller, unless the process is lost: the test  *)
(* of the engine asserts it of dbEngineRemove after dbEngineGet.           *)
EveryCallReturns == pc = "begin" ~> pc \in {"idle", "undefined"}

(* A successful dbEngineGet is the only thing that keeps a call from       *)
(* returning: whichever LMDB calls fail, and however often, the other      *)
(* paths leave the write lock to the next call.                            *)
CallReturns == pc = "begin" ~> pc \in {"idle", "undefined"} \/ writer = "orphan"

(***************************************************************************)
(* The engine as an implementation of the abstract store: a call takes     *)
(* effect when it commits (a get: when it reads), and a process in an      *)
(* undefined state is out of service.                                      *)
(***************************************************************************)
Phase ==
  CASE ~up \/ pc = "undefined"  -> "off"
    [] up /\ pc = "idle"        -> "idle"
    [] up /\ pc = "return"      -> "done"
    [] OTHER                    -> "pending"

KV == INSTANCE KVStore
        WITH store <- disk, phase <- Phase, request <- call, response <- ret

(* A transaction holds nothing but the call's own effect: until its        *)
(* operation runs it sees the committed data, and what it then commits is  *)
(* that data with the effect of this call and of no other.                 *)
TransactionIsCall ==
  /\ pc \notin {"idle", "undefined"} => up /\ call \in Calls
  /\ pc = "op" => work = disk
  /\ pc = "commit" => /\ call.op \in {"set", "drop"}
                      /\ work = Effect(disk, call)

(* The four functions behave as on a durable map: each takes effect at     *)
(* most once and at one point, an acknowledged write survives every crash, *)
(* a set or get answered with an error changed nothing, a get returns the  *)
(* latest committed value.  What remove and drop answer tells nothing.     *)
KVSpec == KV!Spec
=============================================================================
