------------------------------ MODULE AsyncProofs ------------------------------
(****************************************************************************)
(* Theorems about AsyncSession, for any calls, sync or async, of any tools, *)
(* with either kind of store, and a store that may fail or not.             *)
(****************************************************************************)
EXTENDS AsyncSession, FiniteSetTheorems, TLAPS

LockOK == IsFiniteSet(Inside) /\ LockMatchesBlocks

------------------------------------------------------------------------------
(* The lock.                                                                *)

\* A step that moves no call into or out of its block, and leaves the lock
\* alone, keeps the two in step.
LEMMA LockFrame ==
    ASSUME LockOK, UNCHANGED lock, Inside' = Inside
    PROVE  LockOK'
  BY DEF LockOK, LockMatchesBlocks, lock

\* A call that enters owns the lock, together with those of its thread that
\* are inside already: if the lock is free nobody is.
LEMMA LockEnter ==
    ASSUME LockOK, NEW c \in Call, c \notin Inside, MayAcquire(c),
           owner' = ThreadOf(c), depth' = depth + 1, Inside' = Inside \cup {c}
    PROVE  LockOK'
  <1>1. \A d \in Call : ThreadOf(d) # None
    BY AsyncSessionAssumption DEF ThreadOf, Call
  <1>2. \A d \in Inside : owner = ThreadOf(d) /\ d \in Call
    BY DEF LockOK, LockMatchesBlocks, Inside
  <1>3. \A d \in Inside : ThreadOf(d) = ThreadOf(c)
    BY <1>1, <1>2 DEF MayAcquire
  <1>4. IsFiniteSet(Inside') /\ Cardinality(Inside') = Cardinality(Inside) + 1
    BY FS_AddElement DEF LockOK
  <1>5. depth' = Cardinality(Inside')
    BY <1>4 DEF LockOK, LockMatchesBlocks
  <1>6. \A d \in Inside' : owner' = ThreadOf(d)
    BY <1>3
  <1> HIDE DEF Inside
  <1>7. \A d : d \in Inside' => owner' = ThreadOf(d)'
    BY <1>6 DEF ThreadOf
  <1>8. QED
    BY <1>4, <1>5, <1>7 DEF LockOK, LockMatchesBlocks

\* A call that leaves keeps the lock for those of its thread that are still
\* inside, and frees it if it is the last.
LEMMA LockLeave ==
    ASSUME LockOK, NEW c \in Inside, Release(c), Inside' = Inside \ {c}
    PROVE  LockOK'
  <1>1. /\ IsFiniteSet(Inside) /\ depth = Cardinality(Inside)
        /\ \A d \in Inside : owner = ThreadOf(d)
    BY DEF LockOK, LockMatchesBlocks
  <1>2. IsFiniteSet(Inside') /\ Cardinality(Inside') = Cardinality(Inside) - 1
    BY <1>1, FS_RemoveElement
  <1>3. depth' = Cardinality(Inside')
    BY <1>1, <1>2 DEF Release
  <1>4. depth = 1 <=> Inside' = {}
    <2>1. Cardinality(Inside) \in Nat /\ Cardinality(Inside') \in Nat
      BY <1>1, <1>2, FS_CardinalityType
    <2>2. Cardinality(Inside') = 0 <=> Inside' = {}
      BY <1>2, FS_EmptySet
    <2>3. QED
      BY <1>1, <1>2, <2>1, <2>2
  <1>5. Inside' = {} => owner' = None
    BY <1>4 DEF Release
  <1>6. \A d : d \in Inside' => owner' = ThreadOf(d)'
    BY <1>1, <1>4 DEF Release, ThreadOf
  <1>7. QED
    BY <1>2, <1>3, <1>5, <1>6 DEF LockOK, LockMatchesBlocks

\* Where a step leads, that goes to label l, calls inside their blocks.
LEMMA InsideAfter ==
    ASSUME TypeOK, NEW c \in Call, NEW l, Goto(c, l)
    PROVE  Inside' = IF l \in {"load", "persist"} THEN Inside \cup {c} ELSE Inside \ {c}
  BY DEF TypeOK, Goto, Inside

\* Every step keeps the lock and the blocks in step.
LEMMA LockStep ==
    ASSUME TypeOK, LockOK, [Next]_vars
    PROVE  LockOK'
  <1>1. ASSUME NEW c \in Call, NEW l, c \notin Inside, l \notin {"load", "persist"},
               Goto(c, l), UNCHANGED lock
        PROVE  LockOK'
    BY <1>1, InsideAfter, LockFrame
  <1>2. ASSUME NEW c \in Call,
               \/ FindDuplicate(c) \/ HandleDuplicate(c) \/ RunTool(c) \/ LogError(c)
               \/ PutRaws(c) \/ LogCall(c) \/ CheckSoftLimit(c) \/ Notify(c)
        PROVE  LockOK'
    <2>1. c \notin Inside /\ UNCHANGED lock
      BY <1>2 DEF FindDuplicate, HandleDuplicate, RunTool, LogError, PutRaws, LogCall,
                  CheckSoftLimit, Notify, Outside, Inside
    <2>2. \E l : l \notin {"load", "persist"} /\ Goto(c, l)
      <3>1. CASE FindDuplicate(c) \/ CheckSoftLimit(c)
        BY <3>1 DEF FindDuplicate, CheckSoftLimit
      <3>2. CASE \/ HandleDuplicate(c) \/ RunTool(c) \/ LogError(c)
                 \/ PutRaws(c) \/ LogCall(c) \/ Notify(c)
        BY <3>2 DEF HandleDuplicate, RunTool, LogError, PutRaws, LogCall, Notify
      <3>3. QED
        BY <1>2, <3>1, <3>2
    <2>3. QED
      BY <1>1, <2>1, <2>2
  <1>3. ASSUME NEW c \in Call, Enter(c) PROVE LockOK'
    <2>1. c \notin Inside /\ Goto(c, "load")
      BY <1>3 DEF Enter, Inside
    <2>2. Inside' = Inside \cup {c}
      BY <2>1, InsideAfter
    <2>3. QED
      BY <1>3, <2>1, <2>2, LockEnter DEF Enter
  <1>4. ASSUME NEW c \in Call, BlockLoop(c) PROVE LockOK'
    BY <1>4, LockFrame DEF BlockLoop, Inside
  <1>5. ASSUME NEW c \in Call, Load(c) PROVE LockOK'
    <2>1. c \in Inside
      BY <1>5 DEF Load, Inside
    <2>2. CASE c \in Reader
      <3>1. Release(c) /\ Goto(c, "done")
        BY <1>5, <2>2 DEF Load
      <3>2. QED
        BY <2>1, <3>1, InsideAfter, LockLeave
    <2>3. CASE c \notin Reader
      <3>1. UNCHANGED lock /\ Goto(c, "persist")
        BY <1>5, <2>3 DEF Load
      <3>2. QED
        BY <2>1, <3>1, InsideAfter, LockFrame
    <2>4. QED
      BY <2>2, <2>3
  <1>6. ASSUME NEW c \in Call, PutOne(c) PROVE LockOK'
    <2>1. c \in Inside
      BY <1>6 DEF PutOne, Inside
    <2>2. CASE Release(c) /\ Goto(c, "raw")
      BY <2>1, <2>2, InsideAfter, LockLeave
    <2>3. CASE UNCHANGED <<lock, pc>>
      BY <2>3, LockFrame DEF Inside
    <2>4. QED
      BY <1>6, <2>2, <2>3 DEF PutOne
  <1>7. ASSUME NEW c \in Call, StoreFails(c) PROVE LockOK'
    <2>1. CASE c \in Inside
      BY <1>7, <2>1, InsideAfter, LockLeave DEF StoreFails
    <2>2. CASE c \notin Inside
      BY <1>1, <1>7, <2>2 DEF StoreFails
    <2>3. QED
      BY <2>1, <2>2
  <1>8. CASE UNCHANGED vars
    BY <1>8, LockFrame DEF vars, Inside
  <1>9. QED
    BY <1>2, <1>3, <1>4, <1>5, <1>6, <1>7, <1>8 DEF Next, Step, Idle

------------------------------------------------------------------------------
(* What is stored, and what the log says of it.                             *)

ProgressOK == \A c \in Call : ProgressAt(c)

\* Every step keeps the types; a call that releases the lock holds it, and so
\* its depth stays a natural number.
LEMMA TypeStep ==
    ASSUME TypeOK, LockOK, ProgressOK, [Next]_vars
    PROVE  TypeOK'
  <1> USE DEF Ended, AtStore
  <1>1. ASSUME NEW c \in Call, ProgressAt(c)
        PROVE  pc[c] \notin {"enter", "load"} \cup Ended => c \in Call \ Reader
    BY <1>1 DEF ProgressAt
  <1>2. ASSUME NEW c \in Call, NEW s \in {"ok", "duplicate", "error"}, Record(c, s),
               c \notin Reader
        PROVE  log' \subseteq [call : Call \ Reader, summary : {"ok", "duplicate", "error"}]
    BY <1>2 DEF TypeOK, Record
  <1>3. ASSUME NEW c \in Inside, Release(c)
        PROVE  owner' \in Thread \cup {None} /\ depth' \in Nat
    <2>1. depth = Cardinality(Inside) /\ IsFiniteSet(Inside)
      BY DEF LockOK, LockMatchesBlocks
    <2>2. depth \in Nat \ {0}
      BY <2>1, FS_EmptySet, FS_CardinalityType
    <2>3. QED
      BY <1>3, <2>2 DEF Release, TypeOK
  <1>4. ASSUME NEW c \in Call, FindDuplicate(c) \/ RunTool(c) \/ PutRaws(c)
                                  \/ CheckSoftLimit(c) \/ Notify(c)
        PROVE  TypeOK'
    BY <1>4 DEF FindDuplicate, RunTool, PutRaws, CheckSoftLimit, Notify, Outside, Goto, TypeOK,
                lock
  <1>5. ASSUME NEW c \in Call, HandleDuplicate(c) \/ LogError(c) \/ LogCall(c) PROVE TypeOK'
    <2>1. c \in Call \ Reader
      BY <1>1, <1>5 DEF HandleDuplicate, LogError, LogCall, Outside, ProgressOK
    <2>2. log' \subseteq [call : Call \ Reader, summary : {"ok", "duplicate", "error"}]
      BY <1>2, <1>5, <2>1 DEF HandleDuplicate, LogError, LogCall
    <2>3. QED
      BY <1>5, <2>2 DEF HandleDuplicate, LogError, LogCall, Outside, Goto, TypeOK, lock
  <1>6. ASSUME NEW c \in Call, Enter(c) PROVE TypeOK'
    <2>1. ThreadOf(c) \in Thread
      BY DEF ThreadOf, Thread, Call
    <2>2. QED
      BY <1>6, <2>1 DEF Enter, Goto, TypeOK
  <1>7. ASSUME NEW c \in Call, BlockLoop(c) PROVE TypeOK'
    BY <1>7 DEF BlockLoop, TypeOK, lock
  <1>8. ASSUME NEW c \in Call, Load(c) PROVE TypeOK'
    <2>1. c \in Inside
      BY <1>8 DEF Load, Inside
    <2>2. CASE c \in Reader
      BY <1>3, <1>8, <2>1, <2>2 DEF Load, Goto, TypeOK
    <2>3. CASE c \notin Reader
      <3>1. Delta(c) \subseteq Nodes
        BY <2>3 DEF Nodes
      <3>2. QED
        BY <1>8, <2>3, <3>1 DEF Load, Goto, TypeOK, lock
    <2>4. QED
      BY <2>2, <2>3
  <1>9. ASSUME NEW c \in Call, PutOne(c) PROVE TypeOK'
    <2>1. c \in Inside
      BY <1>9 DEF PutOne, Inside
    <2>2. known' \subseteq Nodes /\ puts' \in [Call -> SUBSET Nodes]
      BY <1>9 DEF PutOne, TypeOK
    <2>3. CASE Release(c) /\ Goto(c, "raw")
      BY <1>3, <1>9, <2>1, <2>2, <2>3 DEF PutOne, Goto, TypeOK
    <2>4. CASE UNCHANGED <<lock, pc>>
      BY <1>9, <2>2, <2>4 DEF PutOne, TypeOK, lock
    <2>5. QED
      BY <1>9, <2>3, <2>4 DEF PutOne
  <1>10. ASSUME NEW c \in Call, StoreFails(c) PROVE TypeOK'
    BY <1>3, <1>10 DEF StoreFails, Goto, TypeOK, lock
  <1>11. CASE UNCHANGED vars
    BY <1>11 DEF vars, lock, TypeOK
  <1>12. QED
    BY <1>4, <1>5, <1>6, <1>7, <1>8, <1>9, <1>10, <1>11 DEF Next, Step, Idle

\* What the steps of call c may change of what others rely on: nodes are only
\* added, records are its own, and where others stand is left alone.
StepOf(c) ==
    /\ known \subseteq known'
    /\ \A r \in log' : r \in log \/ r.call = c
    /\ \A d \in Call \ {c} : pc'[d] = pc[d] /\ puts'[d] = puts[d]

LEMMA StepEffect ==
    ASSUME TypeOK, NEW c \in Call, Step(c) \/ StoreFails(c)
    PROVE  StepOf(c)
  <1>1. CASE \/ FindDuplicate(c) \/ HandleDuplicate(c) \/ RunTool(c) \/ LogError(c)
             \/ PutRaws(c) \/ LogCall(c) \/ CheckSoftLimit(c) \/ Notify(c)
    BY <1>1 DEF FindDuplicate, HandleDuplicate, RunTool, LogError, PutRaws, LogCall,
                CheckSoftLimit, Notify, Outside, Record, Goto, StepOf, TypeOK
  <1>2. CASE Enter(c) \/ BlockLoop(c) \/ StoreFails(c)
    BY <1>2 DEF Enter, BlockLoop, StoreFails, Goto, StepOf, TypeOK
  <1>3. CASE Load(c)
    BY <1>3 DEF Load, Goto, StepOf, TypeOK
  <1>4. CASE PutOne(c)
    BY <1>4 DEF PutOne, Goto, StepOf, TypeOK
  <1>5. QED
    BY <1>1, <1>2, <1>3, <1>4 DEF Step

\* What was stored of an equal call stays stored.
LEMMA EqualStays ==
    ASSUME known \subseteq known', NEW c, EqualIsStored(c)
    PROVE  EqualIsStored(c)'
  BY DEF EqualIsStored, Delta

\* A call's progress is not undone by the steps of another.
LEMMA OthersProgress ==
    ASSUME NEW c \in Call, NEW d \in Call, d # c, StepOf(c), ProgressAt(d)
    PROVE  ProgressAt(d)'
  <1>1. pc'[d] = pc[d] /\ puts'[d] = puts[d] /\ known \subseteq known'
    BY DEF StepOf
  <1>2. \A r \in log' : r.call = d => r \in log
    BY DEF StepOf
  <1>3. EqualIsStored(d) => EqualIsStored(d)'
    BY <1>1, EqualStays
  <1>4. QED
    BY <1>1, <1>2, <1>3 DEF ProgressAt, Delta

\* A duplicate check finds the record of another call: its own has none yet.
LEMMA DuplicateHasOriginal ==
    ASSUME TypeOK, LogTellsTruth, NEW c \in Call, ProgressAt(c), pc[c] = "start",
           Matching(c) # {}
    PROVE  EqualIsStored(c)
  <1>1. PICK r \in log : Request[r.call] = Request[c] /\ r.summary = "ok"
    BY DEF Matching
  <1>2. r.call \in Call \ Reader /\ r.call # c /\ Delta(r.call) \subseteq known
    BY <1>1 DEF TypeOK, LogTellsTruth, ProgressAt, Unrecorded
  <1>3. QED
    BY <1>1, <1>2 DEF EqualIsStored

\* The progress of a call after a step of its own.
LEMMA OwnProgress ==
    ASSUME TypeOK, LogTellsTruth, NEW c \in Call, ProgressAt(c), Step(c) \/ StoreFails(c)
    PROVE  ProgressAt(c)'
  <1> USE DEF Ended, Unrecorded
  <1>1. ASSUME NEW l \in Ended \cup {"limit", "notify"}, Goto(c, l), l \notin Ended => c \notin Reader
        PROVE  ProgressAt(c)'
    BY <1>1 DEF Goto, ProgressAt, TypeOK
  <1>2. CASE FindDuplicate(c)
    <2>1. EqualIsStored(c)' <=> EqualIsStored(c)
      BY <1>2 DEF FindDuplicate, Outside, EqualIsStored, Delta
    <2>2. pc'[c] = "duplicate" => EqualIsStored(c)
      BY <1>2, DuplicateHasOriginal DEF FindDuplicate, Outside, Goto, TypeOK
    <2>3. QED
      BY <1>2, <2>1, <2>2 DEF FindDuplicate, Outside, Goto, ProgressAt, TypeOK
  <1>3. CASE RunTool(c)
    BY <1>3 DEF RunTool, Outside, Goto, ProgressAt, TypeOK
  <1>4. CASE HandleDuplicate(c) \/ LogError(c) \/ LogCall(c) \/ CheckSoftLimit(c) \/ Notify(c)
    BY <1>1, <1>4 DEF HandleDuplicate, LogError, LogCall, CheckSoftLimit, Notify, Outside,
                      ProgressAt
  <1>5. CASE Enter(c)
    BY <1>5 DEF Enter, Goto, ProgressAt, TypeOK
  <1>6. CASE BlockLoop(c)
    BY <1>6 DEF BlockLoop, ProgressAt, EqualIsStored, Delta
  <1>7. CASE Load(c)
    <2>1. CASE c \in Reader
      BY <1>1, <1>7, <2>1 DEF Load
    <2>2. CASE c \notin Reader
      BY <1>7, <2>2 DEF Load, Goto, ProgressAt, TypeOK, Delta
    <2>3. QED
      BY <2>1, <2>2
  <1>8. CASE PutOne(c)
    <2>1. PICK n \in puts[c] :
             /\ known' = known \cup {n}
             /\ puts'[c] = puts[c] \ {n}
             /\ IF puts[c] = {n} THEN Goto(c, "raw") ELSE UNCHANGED pc
      BY <1>8 DEF PutOne, TypeOK
    <2>2. /\ pc[c] = "persist" /\ log' = log /\ Delta(c)' = Delta(c)
          /\ puts[c] \subseteq Delta(c) /\ Delta(c) \subseteq known \cup puts[c]
      BY <1>8 DEF PutOne, ProgressAt, Delta
    <2>3. puts'[c] \subseteq Delta(c) /\ Delta(c) \subseteq known' \cup puts'[c]
      BY <2>1, <2>2
    <2>4. CASE puts[c] = {n}
      BY <2>1, <2>2, <2>3, <2>4 DEF Goto, ProgressAt, TypeOK
    <2>5. CASE puts[c] # {n}
      BY <2>1, <2>2, <2>3, <2>5 DEF ProgressAt
    <2>6. QED
      BY <2>4, <2>5
  <1>9. CASE PutRaws(c)
    BY <1>9 DEF PutRaws, Outside, Goto, ProgressAt, TypeOK, Delta
  <1>10. CASE StoreFails(c)
    BY <1>1, <1>10 DEF StoreFails
  <1>11. QED
    BY <1>2, <1>3, <1>4, <1>5, <1>6, <1>7, <1>8, <1>9, <1>10 DEF Step

\* A record says what the progress of its call says, and says it for good.
LEMMA LogStep ==
    ASSUME TypeOK, ProgressOK, LogTellsTruth, NEW c \in Call, Step(c) \/ StoreFails(c)
    PROVE  LogTellsTruth'
  <1> DEFINE True(r) ==
         /\ r.summary = "ok" => Delta(r.call) \subseteq known'
         /\ r.summary = "duplicate" => EqualIsStored(r.call)'
  <1>1. known \subseteq known'
    BY StepEffect DEF StepOf
  <1>2. ASSUME NEW r \in log PROVE True(r)
    <2>1. EqualIsStored(r.call) => EqualIsStored(r.call)'
      BY <1>1, EqualStays
    <2>2. QED
      BY <1>1, <2>1 DEF LogTellsTruth
  <1>3. SUFFICES ASSUME NEW r \in log', r \notin log PROVE True(r)
    BY <1>2 DEF LogTellsTruth, Delta
  <1>4. CASE HandleDuplicate(c)
    <2>1. r = [call |-> c, summary |-> "duplicate"] /\ EqualIsStored(c)
      BY <1>3, <1>4 DEF HandleDuplicate, Outside, Record, ProgressOK, ProgressAt
    <2>2. EqualIsStored(c)'
      BY <1>1, <2>1, EqualStays
    <2>3. QED
      BY <2>1, <2>2
  <1>5. CASE LogError(c)
    BY <1>3, <1>5 DEF LogError, Record
  <1>6. CASE LogCall(c)
    BY <1>1, <1>3, <1>6 DEF LogCall, Outside, Record, ProgressOK, ProgressAt
  <1>7. CASE ~(HandleDuplicate(c) \/ LogError(c) \/ LogCall(c))
    <2>1. log' = log
      BY <1>7 DEF Step, StoreFails, FindDuplicate, RunTool, Enter, BlockLoop, Load, PutOne,
                  PutRaws, CheckSoftLimit, Notify
    <2>2. QED
      BY <1>3, <2>1
  <1>8. QED
    BY <1>4, <1>5, <1>6, <1>7

------------------------------------------------------------------------------
(* The theorems.                                                            *)

\* The invariant holds initially: nobody is inside, nothing is stored.
LEMMA InvInit == Init => Inv
  <1> SUFFICES ASSUME Init PROVE Inv
    OBVIOUS
  <1>1. Inside = {}
    BY DEF Init, Inside
  <1>2. IsFiniteSet(Inside) /\ LockMatchesBlocks
    BY <1>1, FS_EmptySet DEF Init, LockMatchesBlocks
  <1>3. TypeOK
    BY DEF Init, TypeOK, AtStore
  <1>4. \A c \in Call : ProgressAt(c)
    BY DEF Init, ProgressAt
  <1>5. LogTellsTruth
    BY DEF Init, LogTellsTruth
  <1>6. QED
    BY <1>2, <1>3, <1>4, <1>5 DEF Inv

\* It is inductive.
LEMMA InvStep == Inv /\ [Next]_vars => Inv'
  <1> SUFFICES ASSUME Inv, [Next]_vars PROVE Inv'
    OBVIOUS
  <1>1. TypeOK /\ LockOK /\ ProgressOK /\ LogTellsTruth
    BY DEF Inv, LockOK, ProgressOK
  <1>2. TypeOK' /\ LockOK'
    BY <1>1, TypeStep, LockStep
  <1>3. ASSUME NEW c \in Call, Step(c) \/ StoreFails(c) PROVE ProgressOK' /\ LogTellsTruth'
    <2>1. StepOf(c)
      BY <1>1, <1>3, StepEffect
    <2>2. \A d \in Call : ProgressAt(d)'
      BY <1>1, <1>3, <2>1, OthersProgress, OwnProgress DEF ProgressOK
    <2>3. QED
      BY <1>1, <1>3, <2>2, LogStep DEF ProgressOK
  <1>4. ASSUME UNCHANGED vars PROVE ProgressOK' /\ LogTellsTruth'
    BY <1>1, <1>4 DEF vars, lock, ProgressOK, ProgressAt, LogTellsTruth, EqualIsStored, Delta
  <1>5. ProgressOK' /\ LogTellsTruth'
    BY <1>3, <1>4 DEF Next, Idle
  <1>6. QED
    BY <1>2, <1>5 DEF Inv, LockOK, ProgressOK

\* In every reachable state the lock, the progress of the calls and the log
\* fit together.
THEOREM AsyncInvHolds == Spec => []Inv
  BY InvInit, InvStep, PTL DEF Spec

\* In whatever order overlapping coroutines and threads enter, leave and fail,
\* the lock is held exactly as long as some call of its owner is inside.
THEOREM LockHeldExactly == Spec => []LockMatchesBlocks
  <1>1. Inv => LockMatchesBlocks
    BY DEF Inv
  <1>2. QED
    BY <1>1, AsyncInvHolds, PTL

\* A sync call is alone in its window: while it is inside, neither a coroutine
\* nor another thread is.
SyncIsAlone == \A w \in Work : w \in Inside => Inside = {w}

THEOREM SyncCallsAreAlone == Spec => []SyncIsAlone
  <1>1. Inv => SyncIsAlone
    <2> SUFFICES ASSUME Inv, NEW w \in Work, w \in Inside, NEW d \in Inside PROVE d = w
      BY DEF SyncIsAlone
    <2>1. owner = ThreadOf(w) /\ owner = ThreadOf(d) /\ d \in Call
      BY DEF Inv, LockMatchesBlocks, Inside
    <2>2. QED
      BY <2>1, AsyncSessionAssumption DEF ThreadOf, Call
  <1>2. QED
    BY <1>1, AsyncInvHolds, PTL

\* A call recorded as ingested has its whole delta in the store, and one
\* skipped as a duplicate has an equal call that does.
THEOREM LogIsTrue == Spec => []LogTellsTruth
  <1>1. Inv => LogTellsTruth
    BY DEF Inv
  <1>2. QED
    BY <1>1, AsyncInvHolds, PTL

==============================================================================
