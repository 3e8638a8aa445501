----------------------------- MODULE AsyncSession -----------------------------
(****************************************************************************)
(* Async @pin tools (decorator.py, _make_async_wrapper) and sync tools of   *)
(* the same agent in one process.  Async calls are coroutines of one event  *)
(* loop; sync calls run in threads of an executor.  All take the session    *)
(* lock of session.py, a threading.RLock: it is owned by an OS thread, so   *)
(* a coroutine that awaits inside the "with" block neither keeps the other  *)
(* coroutines of its loop out, nor lets the loop run while it waits for a   *)
(* thread to give the lock back.                                            *)
(*                                                                          *)
(* An ingest is taken down to the order of its awaits and what of them      *)
(* other calls can see: the nodes it puts, and its record.  Ingest has the  *)
(* rest of it.                                                              *)
(****************************************************************************)
EXTENDS Naturals, FiniteSets

CONSTANTS
    Task,           \* calls of async @pin tools
    Work,           \* calls of sync tools, each in a thread of its own
    Reader,         \* those of Work that are read tools (tools.py, _graph)
    Request,        \* tool and canonical arguments of a @pin call
    Checked,        \* the @pin calls whose tool is not on_duplicate=ALWAYS
    Touches,        \* the facts the result of a @pin call links to
    Loop, None,
    SyncNeedsLoop,  \* the store's sync methods run on the loop (as those of
                    \* AsyncPostgresStore do) or in the calling thread
    StoreMayFail

Call == Task \cup Work
Thread == Work \cup {Loop}
ThreadOf(c) == IF c \in Task THEN Loop ELSE c

ASSUME AsyncSessionAssumption ==
    /\ Task \cap Work = {} /\ Reader \subseteq Work /\ Checked \subseteq Call \ Reader
    /\ Loop \notin Call /\ None \notin Call \cup {Loop}
    /\ SyncNeedsLoop \in BOOLEAN /\ StoreMayFail \in BOOLEAN

VARIABLES
    owner, depth,   \* the RLock
    blocked,        \* coroutine in whose acquire the loop's thread is waiting
    pc,
    known,          \* nodes in the store: facts, and events, named by their calls
    puts,           \* node puts a call still has to make
    log             \* tool_calls records: a call and its summary

lock == <<owner, depth>>
vars == <<lock, blocked, pc, known, puts, log>>

\* The nodes of an ingest.
Delta(c) == {c} \cup Touches[c]
Nodes == UNION {Delta(c) : c \in Call \ Reader}
Inside == {c \in Call : pc[c] \in {"load", "persist"}}
Ended == {"done", "failed"}

Goto(c, l) == pc' = [pc EXCEPT ![c] = l]

Init ==
    /\ owner = None /\ depth = 0
    /\ blocked = None
    /\ pc = [c \in Call |-> IF c \in Reader THEN "enter" ELSE "start"]
    /\ known = {}
    /\ puts = [c \in Call |-> {}]
    /\ log = {}

------------------------------------------------------------------------------
\* A coroutine runs, and a store call that needs the loop returns, only while
\* the loop's thread is not waiting for the lock.
MayRun(c) == c \in Task \/ SyncNeedsLoop => blocked = None

MayAcquire(c) == owner \in {None, ThreadOf(c)}

\* Mutant: the first exit gives the lock up.
Release_AtOnce(c) == owner' = None /\ depth' = 0

\* __exit__: the lock is free again when its thread has left every block.
Release(c) ==
    /\ depth' = depth - 1
    /\ owner' = IF depth = 1 THEN None ELSE owner

\* Mutant: the summary of a record is not looked at.
Matching_AnySummary(c) == {r \in log : Request[r.call] = Request[c]}

\* Records a duplicate check of call c accepts as the original.
Matching(c) == {r \in log : Request[r.call] = Request[c] /\ r.summary = "ok"}

\* A step outside the lock: an await from label l on.
Outside(c, l) == pc[c] = l /\ MayRun(c) /\ UNCHANGED <<lock, blocked, known, puts>>

Record(c, summary) == log' = log \cup {[call |-> c, summary |-> summary]}

FindDuplicate(c) ==
    /\ Outside(c, "start")
    /\ Goto(c, IF c \in Checked /\ Matching(c) # {} THEN "duplicate" ELSE "run")
    /\ UNCHANGED log

HandleDuplicate(c) == Outside(c, "duplicate") /\ Record(c, "duplicate") /\ Goto(c, "limit")

\* The tool returns a valid result, or raises, or validation does.
RunTool(c) ==
    /\ Outside(c, "run")
    /\ \E l \in {"enter", "error", "failed"} : Goto(c, l)
    /\ UNCHANGED log

\* The record of a tool that raised; the exception goes on.
LogError(c) == Outside(c, "error") /\ Record(c, "error") /\ Goto(c, "failed")

Enter(c) ==
    /\ pc[c] = "enter"
    /\ c \in Task => blocked \in {None, c}
    /\ MayAcquire(c)
    /\ owner' = ThreadOf(c)
    /\ depth' = depth + 1
    /\ blocked' = IF blocked = c THEN None ELSE blocked
    /\ Goto(c, "load")
    /\ UNCHANGED <<known, puts, log>>

\* "with lock_for(...)" in a coroutine, the lock held by another thread: the
\* loop's thread waits, and no coroutine runs.
BlockLoop(c) ==
    /\ c \in Task
    /\ pc[c] = "enter"
    /\ blocked = None
    /\ ~MayAcquire(c)
    /\ blocked' = c
    /\ UNCHANGED <<lock, pc, known, puts, log>>

\* The graph is loaded (its nodes; edges are left out); a read tool leaves with
\* it, an ingest goes on to extract without another await.
Load(c) ==
    /\ pc[c] = "load"
    /\ MayRun(c)
    /\ IF c \in Reader
       THEN Release(c) /\ Goto(c, "done") /\ UNCHANGED puts
       ELSE /\ puts' = [puts EXCEPT ![c] = Delta(c)]
            /\ Goto(c, "persist")
            /\ UNCHANGED lock
    /\ UNCHANGED <<blocked, known, log>>

\* One put of persist_delta; the event first.  After the last one the call
\* leaves the lock, with no await in between.
PutOne(c) ==
    /\ pc[c] = "persist"
    /\ MayRun(c)
    /\ \E n \in puts[c] :
          /\ c \in puts[c] => n = c
          /\ known' = known \cup {n}
          /\ puts' = [puts EXCEPT ![c] = @ \ {n}]
          /\ IF puts[c] = {n} THEN Release(c) /\ Goto(c, "raw") ELSE UNCHANGED <<lock, pc>>
    /\ UNCHANGED <<blocked, log>>

\* The raw returns, which no other call reads.
PutRaws(c) == Outside(c, "raw") /\ Goto(c, "ok") /\ UNCHANGED log

LogCall(c) == Outside(c, "ok") /\ Record(c, "ok") /\ Goto(c, "limit")

\* The log is read again to warn of its size; a duplicate ends with that.
CheckSoftLimit(c) ==
    /\ Outside(c, "limit")
    /\ Goto(c, IF c \in known THEN "notify" ELSE "done")
    /\ UNCHANGED log

\* The notification, after which the response_transform may raise.
Notify(c) ==
    Outside(c, "notify") /\ (\E l \in {"done", "failed"} : Goto(c, l)) /\ UNCHANGED log

AtStore == {"start", "duplicate", "error", "load", "persist", "raw", "ok", "limit"}

\* Mutants: the lock is released outside the block too; it is not released.
StoreFails_AlwaysReleases(c) ==
    /\ StoreMayFail
    /\ pc[c] \in AtStore
    /\ MayRun(c)
    /\ Release(c)
    /\ Goto(c, "failed")
    /\ UNCHANGED <<blocked, known, puts, log>>

StoreFails_KeepsLock(c) ==
    /\ StoreMayFail
    /\ pc[c] \in AtStore
    /\ MayRun(c)
    /\ Goto(c, "failed")
    /\ UNCHANGED <<lock, blocked, known, puts, log>>

\* A store call (or, after the load, a normalizer) raises; the exception leaves
\* the with block, if inside.
StoreFails(c) ==
    /\ StoreMayFail
    /\ pc[c] \in AtStore
    /\ MayRun(c)
    /\ IF c \in Inside THEN Release(c) ELSE UNCHANGED lock
    /\ Goto(c, "failed")
    /\ UNCHANGED <<blocked, known, puts, log>>

Step(c) == \/ FindDuplicate(c) \/ HandleDuplicate(c) \/ RunTool(c) \/ LogError(c)
           \/ Enter(c) \/ BlockLoop(c) \/ Load(c) \/ PutOne(c)
           \/ PutRaws(c) \/ LogCall(c) \/ CheckSoftLimit(c) \/ Notify(c)

\* Every call is over.
Idle == (\A c \in Call : pc[c] \in Ended) /\ UNCHANGED vars

Next == (\E c \in Call : Step(c) \/ StoreFails(c)) \/ Idle

Spec == Init /\ [][Next]_vars

\* Threads and coroutines are scheduled, and store calls that may return do.
FairSpec == Spec /\ \A c \in Call : WF_vars(Step(c))

------------------------------------------------------------------------------
(* Properties.                                                              *)

\* Every variable holds a value of its kind.
TypeOK ==
    /\ owner \in Thread \cup {None}
    /\ depth \in Nat
    /\ blocked \in Task \cup {None}
    /\ pc \in [Call -> AtStore \cup {"run", "enter", "notify"} \cup Ended]
    /\ known \subseteq Nodes
    /\ puts \in [Call -> SUBSET Nodes]
    /\ log \subseteq [call : Call \ Reader, summary : {"ok", "duplicate", "error"}]

\* Overlapping coroutines leave their blocks in any order, and still the lock
\* is held exactly as long as some call of its owner is inside: nobody ever
\* releases a lock it does not own, and the last one out frees it.  So a sync
\* call is alone in its window: no load or put of a coroutine falls into it.
LockMatchesBlocks ==
    /\ depth = Cardinality(Inside)
    /\ \A c \in Inside : owner = ThreadOf(c)
    /\ Inside = {} => owner = None

\* Another call equal to c has its whole delta in the store.
EqualIsStored(c) ==
    \E d \in Call \ (Reader \cup {c}) : Request[d] = Request[c] /\ Delta(d) \subseteq known

\* The log tells the truth of an agent whose async and sync calls overlap, the
\* duplicate checks and the records of all of them outside the lock: a call
\* recorded as ingested has its whole delta in the store, and one skipped as a
\* duplicate has an equal call that does.
LogTellsTruth ==
    \A r \in log :
        /\ r.summary = "ok" => Delta(r.call) \subseteq known
        /\ r.summary = "duplicate" => EqualIsStored(r.call)

\* Labels a call passes before it writes a record.
Unrecorded == {"start", "duplicate", "run", "error", "enter", "load", "persist", "raw", "ok"}

\* Where a call stands says what of it is stored: only @pin calls leave the
\* path of a read tool, what a call need not put any more is in the store, and
\* it has no record yet that its own duplicate check could take for another's.
ProgressAt(c) ==
    /\ c \in Reader => pc[c] \in {"enter", "load"} \cup Ended
    /\ pc[c] = "persist" => puts[c] \subseteq Delta(c) /\ Delta(c) \subseteq known \cup puts[c]
    /\ pc[c] \in {"raw", "ok"} => Delta(c) \subseteq known
    /\ pc[c] = "duplicate" => EqualIsStored(c)
    /\ pc[c] \in Unrecorded => \A r \in log : r.call # c

\* The inductive invariant: the lock, the progress of each call and the log.
Inv ==
    /\ TypeOK
    /\ IsFiniteSet(Inside) /\ LockMatchesBlocks
    /\ \A c \in Call : ProgressAt(c)
    /\ LogTellsTruth

\* Every call comes to an end, in whatever order the calls of the agent block
\* the loop and each other.
EveryCallEnds == <>(\A c \in Call : pc[c] \in Ended)
==============================================================================
