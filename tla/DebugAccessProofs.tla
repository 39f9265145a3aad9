-------------------------- MODULE DebugAccessProofs ---------------------------
(***************************************************************************)
(* The debug API for any threads, words and lengths: types and mutual      *)
(* exclusion, that the module believed selected is the one that is, that   *)
(* every access reaches the module its function names, and that calls are  *)
(* atomic (AtomicUnit.tla).                                                *)
(***************************************************************************)
EXTENDS DebugAccess, TLAPS

Selected == {"register", "command", "words", "error"}
Places == {"idle", "lock"} \union Inside

\* Where words are still to come, and where the error register may be read.
Progress ==
    \A t \in Thread :
        /\ pc[t] \in {"lock", "select", "register", "command", "words"} =>
               index[t] < call[t].fun.len
        /\ pc[t] = "error" => DEBUG_HARDWARE = "advanced"

\* The parts of the invariant: the threads, the mutex, and all else.
ThreadsOK ==
    /\ pc \in [Thread -> Places]
    /\ call \in [Thread -> [fun : Functions, value : Value]]
    /\ index \in [Thread -> Nat] /\ read \in [Thread -> Seq(Value)]
    /\ \A t \in Thread : /\ index[t] \in 0 .. call[t].fun.len
                         /\ read[t] \in Seq(Value)
                         /\ Len(read[t]) <= index[t]
    /\ Progress

MutexOK == \A t \in Thread : pc[t] \in Inside <=> holder = t

RestOK ==
    /\ holder \in Thread \union {NoOne}
    /\ current_chain \in Modules \union {"none"}
    /\ desired_chain \in Modules \union {"none"}
    /\ current_reg_idx \subseteq Modules
    /\ module_id \in Modules
    /\ words \in [Modules -> [1 .. MaxLen -> Value]]
    /\ whole \in BOOLEAN

TypeInv == ThreadsOK /\ MutexOK /\ RestOK

\* A function that has gone past its selection has its module believed selected.
BelievedSelected ==
    \A t \in Thread : pc[t] \in Selected => current_chain = call[t].fun.selects

\* Threads call functions that are in the list.
CalledFromList == \A t \in Thread : call[t].fun \in Calls

\* Every function of the list selects the module in its name.
SelectsNamed == \A f \in Calls : f.selects = f.unit

-----------------------------------------------------------------------------
LEMMA FunctionFields ==
    ASSUME NEW f \in Functions
    PROVE  f.len \in 0 .. MaxLen /\ f.unit \in Modules /\ f.selects \in Modules
  <1>1. MaxLen \in Nat \ {0}
    BY AccessAssumption
  <1>2. f \in WishboneSingle \/ f \in WishboneReadBlock \/ f \in WishboneWriteBlock
        \/ f \in Cpu0Registers \/ f \in Cpu0Control \/ f \in Cpu1Read
        \/ f \in Cpu1Write \/ f \in Cpu1Control \/ f \in SerialTransact
    BY DEF Functions
  <1> QED
    BY <1>1, <1>2
    DEF Function, WishboneSingle, WishboneReadBlock, WishboneWriteBlock,
        Cpu0Registers, Cpu0Control, Cpu1Read, Cpu1Write, Cpu1Control,
        SerialTransact, Modules

LEMMA SomeCall ==
    /\ NoCall \in [fun : Functions, value : Value]
    /\ NoCall.fun \in Calls
    /\ Uninitialized \in Value
  BY AccessAssumption DEF NoCall, Uninitialized

LEMMA InitType == Init => TypeInv
  <1> SUFFICES ASSUME Init PROVE TypeInv
    OBVIOUS
  <1>1. \A t \in Thread : call[t] = NoCall /\ call[t].fun.len \in 0 .. MaxLen
    BY SomeCall, FunctionFields DEF Init
  <1>2. \A t \in Thread : pc[t] = "idle" /\ holder # t
    BY AccessAssumption DEF Init
  <1>3. <<>> \in Seq(Value) /\ Len(<<>>) = 0
    OBVIOUS
  <1>4. index \in [Thread -> Nat] /\ read \in [Thread -> Seq(Value)]
    BY <1>3 DEF Init
  <1>5. \A t \in Thread : read[t] = <<>> /\ index[t] = 0
    BY DEF Init
  <1>6. \A t \in Thread : /\ index[t] \in 0 .. call[t].fun.len
                         /\ read[t] \in Seq(Value)
                         /\ Len(read[t]) <= index[t]
    <2> SUFFICES ASSUME NEW t \in Thread
                 PROVE  /\ index[t] \in 0 .. call[t].fun.len
                        /\ read[t] \in Seq(Value)
                        /\ Len(read[t]) <= index[t]
      OBVIOUS
    <2>1. index[t] \in 0 .. call[t].fun.len
      BY <1>1, <1>5, AccessAssumption
    <2>2. Len(read[t]) = 0
      BY <1>3, <1>5, Zenon
    <2> QED
      BY <1>4, <1>5, <2>1, <2>2
  <1>7. words \in [Modules -> [1 .. MaxLen -> Value]]
    BY SomeCall DEF Init
  <1>8. /\ pc \in [Thread -> Places]
        /\ call \in [Thread -> [fun : Functions, value : Value]]
    BY SomeCall DEF Init, Places
  <1>9. Progress
    BY <1>2 DEF Progress
  <1>10. MutexOK
    BY <1>2 DEF MutexOK, Inside
  <1>11. RestOK
    BY <1>7 DEF Init, RestOK, Modules
  <1> QED
    BY <1>4, <1>6, <1>8, <1>9, <1>10, <1>11 DEF TypeInv, ThreadsOK

LEMMA TypesHold == TypeInv => TypeOK
  BY DEF TypeInv, ThreadsOK, MutexOK, RestOK, TypeOK, Places

\* A step of thread t that takes it to another place, with its words.
LEMMA StepThreads ==
    ASSUME TypeInv, NEW t \in Thread,
           NEW place \in Places, NEW n \in Nat, NEW r \in Seq(Value),
           Goto(t, place), call' = call,
           index' = [index EXCEPT ![t] = n], read' = [read EXCEPT ![t] = r],
           n <= call[t].fun.len, Len(r) <= n,
           place \in {"lock", "select", "register", "command", "words"}
               => n < call[t].fun.len,
           place = "error" => DEBUG_HARDWARE = "advanced"
    PROVE  ThreadsOK'
  <1>1. ThreadsOK
    BY DEF TypeInv
  <1>2. call[t].fun.len \in 0 .. MaxLen /\ MaxLen \in Nat
    BY <1>1, FunctionFields, AccessAssumption DEF ThreadsOK
  <1>3. /\ pc' \in [Thread -> Places]
        /\ call' \in [Thread -> [fun : Functions, value : Value]]
        /\ index' \in [Thread -> Nat] /\ read' \in [Thread -> Seq(Value)]
    BY <1>1 DEF ThreadsOK, Goto
  <1>4. pc'[t] = place /\ index'[t] = n /\ read'[t] = r
    BY <1>1 DEF ThreadsOK, Goto
  <1>5. \A u \in Thread \ {t} :
          pc'[u] = pc[u] /\ index'[u] = index[u] /\ read'[u] = read[u]
    BY <1>1 DEF ThreadsOK, Goto
  <1>6. n \in 0 .. call'[t].fun.len
    BY <1>2
  <1>7. \A u \in Thread : /\ index'[u] \in 0 .. call'[u].fun.len
                         /\ read'[u] \in Seq(Value)
                         /\ Len(read'[u]) <= index'[u]
    BY <1>1, <1>3, <1>4, <1>5, <1>6 DEF ThreadsOK
  <1>8. Progress'
    BY <1>1, <1>4, <1>5 DEF Progress, ThreadsOK
  <1> QED
    BY <1>3, <1>7, <1>8 DEF ThreadsOK

\* The same, if the words of the call are left alone.
LEMMA MoveThreads ==
    ASSUME TypeInv, NEW t \in Thread, NEW place \in Places,
           Goto(t, place), UNCHANGED <<call, index, read>>,
           place \in {"lock", "select", "register", "command", "words"}
               => index[t] < call[t].fun.len,
           place = "error" => DEBUG_HARDWARE = "advanced"
    PROVE  ThreadsOK'
  <1>1. ThreadsOK
    BY DEF TypeInv
  <1>2. /\ index[t] \in Nat /\ read[t] \in Seq(Value)
        /\ index[t] <= call[t].fun.len /\ Len(read[t]) <= index[t]
        /\ index' = [index EXCEPT ![t] = index[t]]
        /\ read' = [read EXCEPT ![t] = read[t]]
    BY <1>1, FunctionFields, AccessAssumption DEF ThreadsOK
  <1> QED
    BY <1>2, StepThreads

\* A thread goes in or out with the mutex, or moves while it holds it.
LEMMA StepMutex ==
    ASSUME TypeInv, NEW t \in Thread, NEW place \in Places, Goto(t, place),
           holder \in {NoOne, t}, holder' \in {NoOne, t},
           place \in Inside <=> holder' = t
    PROVE  MutexOK'
  <1>1. pc \in [Thread -> Places] /\ MutexOK /\ NoOne \notin Thread
    BY AccessAssumption DEF TypeInv, ThreadsOK
  <1>2. pc'[t] = place /\ \A u \in Thread \ {t} : pc'[u] = pc[u]
    BY <1>1 DEF Goto
  <1> QED
    BY <1>1, <1>2 DEF MutexOK

\* A scan that fails ends the call, or its word.
LEMMA FailsThreads ==
    ASSUME TypeInv, NEW t \in Thread, Fails(t), call' = call,
           pc[t] \in {"select", "register", "command", "words", "error"}
    PROVE  ThreadsOK'
  <1> DEFINE n == IF OneByOne(call[t].fun) THEN index[t] + 1 ELSE call[t].fun.len
             r == IF Reads(t) THEN [a \in 1 .. n |-> IF a \in DOMAIN read[t] THEN read[t][a]
                                                     ELSE Uninitialized]
                              ELSE read[t]
  <1>1. ThreadsOK
    BY DEF TypeInv
  <1>2. /\ call[t].fun.len \in Nat /\ index[t] \in Nat
        /\ index[t] <= call[t].fun.len /\ Len(read[t]) <= index[t]
        /\ read[t] \in Seq(Value)
    BY <1>1, FunctionFields, AccessAssumption DEF ThreadsOK
  <1>3. OneByOne(call[t].fun) => index[t] < call[t].fun.len
    BY <1>1 DEF ThreadsOK, Progress, OneByOne
  <1>4. n \in Nat /\ index[t] <= n /\ n <= call[t].fun.len
    BY <1>2, <1>3
  <1>5. Goto(t, "unlock") /\ index' = [index EXCEPT ![t] = n]
    BY DEF Fails
  <1>6. read' = [read EXCEPT ![t] = r]
    BY DEF Fails
  <1> HIDE DEF n
  <1>7. r \in Seq(Value) /\ Len(r) <= n
    <2>1. CASE Reads(t)
      <3>1. \A a \in DOMAIN read[t] : read[t][a] \in Value
        BY <1>2
      <3>2. r \in [1 .. n -> Value]
        BY <2>1, <3>1, SomeCall
      <3> QED
        BY <1>4, <3>2
    <2>2. CASE ~Reads(t)
      BY <1>2, <1>4, <2>2
    <2> QED
      BY <2>1, <2>2
  <1> HIDE DEF r
  <1> QED
    BY <1>4, <1>5, <1>6, <1>7, StepThreads DEF Places, Inside

\* The holder is where its program is, and no one else is inside.
LEMMA HolderInside ==
    ASSUME TypeInv, NEW t \in Thread, pc[t] \in Inside
    PROVE  holder = t
  BY DEF TypeInv, MutexOK

\* Whichever step it is, whole stays a truth value.
LEMMA WholeType ==
    ASSUME NEW t \in Thread, Call(t) \/ Lock(t) \/ HolderStep(t),
           whole \in BOOLEAN
    PROVE  whole' \in BOOLEAN
  <1>1. \/ whole' = whole \/ whole' = FALSE
        \/ \E f \in Calls : whole' = (whole /\ (OneByOne(f) => f.len = 1))
    BY DEF Call, Lock, HolderStep, Select, SelectRegister, Command, Transfer,
           ReadError, Unlock, Scan, Fails
  <1> QED
    BY <1>1

LEMMA CallType ==
    ASSUME TypeInv, NEW t \in Thread, Call(t) PROVE TypeInv'
  <1>1. PICK f \in Calls, v \in Value :
          /\ pc[t] = "idle" /\ f.len > 0
          /\ call' = [call EXCEPT ![t] = [fun |-> f, value |-> v]]
          /\ index' = [index EXCEPT ![t] = 0]
          /\ read' = [read EXCEPT ![t] = <<>>]
          /\ Goto(t, "lock")
          /\ UNCHANGED <<holder, cacheVars, unitVars>>
    BY DEF Call
  <1>2. ThreadsOK
    BY DEF TypeInv
  <1>3. f \in Functions /\ f.len \in 0 .. MaxLen /\ MaxLen \in Nat
    BY FunctionFields, AccessAssumption
  <1>4. <<>> \in Seq(Value) /\ Len(<<>>) = 0
    OBVIOUS
  <1>5. /\ pc' \in [Thread -> Places]
        /\ call' \in [Thread -> [fun : Functions, value : Value]]
        /\ index' \in [Thread -> Nat] /\ read' \in [Thread -> Seq(Value)]
    BY <1>1, <1>2, <1>3, <1>4 DEF ThreadsOK, Goto, Places
  <1>6. /\ pc'[t] = "lock" /\ index'[t] = 0 /\ read'[t] = <<>>
        /\ call'[t].fun = f
    BY <1>1, <1>2 DEF ThreadsOK, Goto
  <1>7. \A u \in Thread \ {t} :
          /\ pc'[u] = pc[u] /\ index'[u] = index[u] /\ read'[u] = read[u]
          /\ call'[u] = call[u]
    BY <1>1, <1>2 DEF ThreadsOK, Goto
  <1>8. ASSUME NEW u \in Thread
        PROVE  /\ index'[u] \in 0 .. call'[u].fun.len
               /\ read'[u] \in Seq(Value)
               /\ Len(read'[u]) <= index'[u]
    <2>1. CASE u = t
      <3>1. Len(read'[t]) = 0
        BY <1>4, <1>6, Zenon
      <3> QED
        BY <1>3, <1>5, <1>6, <2>1, <3>1
    <2>2. CASE u # t
      BY <1>2, <1>7, <2>2 DEF ThreadsOK
    <2> QED
      BY <2>1, <2>2
  <1>9. Progress'
    BY <1>1, <1>2, <1>3, <1>6, <1>7 DEF Progress, ThreadsOK
  <1>10. ThreadsOK'
    BY <1>5, <1>8, <1>9 DEF ThreadsOK
  <1>11. MutexOK'
    BY <1>1, <1>6, <1>7 DEF TypeInv, MutexOK, Inside
  <1>12. RestOK'
    BY <1>1, WholeType DEF TypeInv, RestOK, cacheVars, unitVars
  <1> QED
    BY <1>10, <1>11, <1>12 DEF TypeInv

LEMMA LockType ==
    ASSUME TypeInv, NEW t \in Thread, Lock(t) PROVE TypeInv'
  <1>1. /\ pc[t] = "lock" /\ holder = NoOne /\ holder' = t /\ Goto(t, "select")
        /\ UNCHANGED <<callVars, cacheVars, unitVars>>
    BY DEF Lock
  <1>2. ThreadsOK'
    BY <1>1, MoveThreads DEF callVars, Places, Inside, TypeInv, ThreadsOK, Progress
  <1>3. MutexOK'
    BY <1>1, StepMutex DEF Places, Inside
  <1>4. RestOK'
    BY <1>1, WholeType DEF TypeInv, RestOK, cacheVars, unitVars
  <1> QED
    BY <1>2, <1>3, <1>4 DEF TypeInv

LEMMA UnlockType ==
    ASSUME TypeInv, NEW t \in Thread, Unlock(t) PROVE TypeInv'
  <1> DEFINE place == IF Finished(t, index[t]) THEN "idle" ELSE "lock"
  <1>1. /\ pc[t] = "unlock" /\ holder' = NoOne /\ Goto(t, place)
        /\ UNCHANGED <<callVars, cacheVars, unitVars>>
    BY DEF Unlock
  <1>2. place \in Places /\ place \notin Inside
    BY DEF Places, Inside
  <1>3. index[t] \in Nat /\ call[t].fun.len \in Nat
    BY FunctionFields, AccessAssumption DEF TypeInv, ThreadsOK
  <1>4. place = "lock" => index[t] < call[t].fun.len
    BY <1>3 DEF Finished
  <1>5. place \in {"idle", "lock"}
    OBVIOUS
  <1> HIDE DEF place
  <1>6. ThreadsOK'
    BY <1>1, <1>2, <1>4, <1>5, MoveThreads DEF callVars
  <1>7. MutexOK'
    BY <1>1, <1>2, StepMutex, HolderInside, AccessAssumption DEF Inside
  <1>8. RestOK'
    BY <1>1, WholeType DEF TypeInv, RestOK, cacheVars, unitVars, HolderStep
  <1> QED
    BY <1>6, <1>7, <1>8 DEF TypeInv

\* The holder stays inside: the mutex is as before.
LEMMA InsideMutex ==
    ASSUME TypeInv, NEW t \in Thread, pc[t] \in Inside, holder' = holder,
           NEW place \in Inside, Goto(t, place)
    PROVE  MutexOK'
  BY HolderInside, StepMutex DEF Places

LEMMA FirstScanPlace ==
    ASSUME NEW t \in Thread
    PROVE  FirstScan(t) \in {"command", "register", "words"}
  BY DEF FirstScan

LEMMA SelectType ==
    ASSUME TypeInv, NEW t \in Thread, Select(t) PROVE TypeInv'
  <1> DEFINE chain == call[t].fun.selects
  <1>1. pc[t] = "select" /\ chain \in Modules /\ "none" \notin Modules
    BY FunctionFields DEF Select, TypeInv, ThreadsOK, Modules
  <1>2. \/ Goto(t, FirstScan(t)) /\ UNCHANGED <<call, index, read>>
        \/ Fails(t) /\ call' = call
    BY DEF Select
  <1>3. PICK place \in {"command", "register", "words", "unlock"} : Goto(t, place)
    BY <1>2, FirstScanPlace DEF Fails
  <1>4. ThreadsOK'
    <2>1. CASE Goto(t, FirstScan(t)) /\ UNCHANGED <<call, index, read>>
      <3>1. index[t] < call[t].fun.len
        BY <1>1 DEF TypeInv, ThreadsOK, Progress
      <3>2. FirstScan(t) \in Places /\ FirstScan(t) # "error"
        BY FirstScanPlace DEF Places, Inside
      <3> QED
        BY <2>1, <3>1, <3>2, MoveThreads
    <2>2. CASE Fails(t) /\ call' = call
      BY <1>1, <2>2, FailsThreads
    <2> QED
      BY <1>2, <2>1, <2>2
  <1>5. holder' = holder
    BY DEF Select
  <1>6. MutexOK'
    BY <1>1, <1>3, <1>5, InsideMutex DEF Inside
  <1>7. /\ current_reg_idx' = current_reg_idx /\ words' = words
        /\ desired_chain' \in {desired_chain, chain}
        /\ module_id' \in {module_id, chain}
        /\ current_chain' \in {current_chain, chain, "none"}
    BY DEF Select, AfterFailedSelect
  <1>8. RestOK'
    BY <1>1, <1>5, <1>7, WholeType DEF TypeInv, RestOK, HolderStep
  <1> QED
    BY <1>4, <1>6, <1>8 DEF TypeInv

\* A scan that only moves on or fails.
LEMMA ScanThreads ==
    ASSUME TypeInv, NEW t \in Thread, NEW place \in {"words", "unlock"},
           Scan(t, place), call' = call, holder' = holder,
           pc[t] \in {"register", "command", "error"},
           place = "words" => index[t] < call[t].fun.len
    PROVE  ThreadsOK' /\ MutexOK'
  <1>1. CASE Goto(t, place) /\ UNCHANGED <<index, read>>
    <2>1. ThreadsOK'
      BY <1>1, MoveThreads DEF Places, Inside
    <2> QED
      BY <1>1, <2>1, InsideMutex DEF Inside
  <1>2. CASE Fails(t)
    <2>1. ThreadsOK' /\ Goto(t, "unlock")
      BY <1>2, FailsThreads DEF Fails
    <2> QED
      BY <2>1, InsideMutex DEF Inside
  <1> QED
    BY <1>1, <1>2 DEF Scan

LEMMA RegistersType ==
    ASSUME TypeInv, NEW t \in Thread, pc[t] \in Selected, BelievedSelected
    PROVE  current_reg_idx \union {current_chain} \subseteq Modules
  BY FunctionFields DEF TypeInv, ThreadsOK, RestOK, BelievedSelected

LEMMA SelectRegisterType ==
    ASSUME TypeInv, BelievedSelected, NEW t \in Thread, SelectRegister(t)
    PROVE  TypeInv'
  <1>1. /\ pc[t] = "register" /\ Scan(t, "words")
        /\ current_reg_idx' = current_reg_idx \union {current_chain}
        /\ UNCHANGED <<call, holder, current_chain, desired_chain, module_id, words>>
    BY DEF SelectRegister, unitVars
  <1>2. index[t] < call[t].fun.len
    BY <1>1 DEF TypeInv, ThreadsOK, Progress
  <1>3. ThreadsOK' /\ MutexOK'
    BY <1>1, <1>2, ScanThreads
  <1>4. RestOK'
    BY <1>1, RegistersType, WholeType DEF Selected, TypeInv, RestOK, HolderStep
  <1> QED
    BY <1>3, <1>4 DEF TypeInv

LEMMA CommandType ==
    ASSUME TypeInv, NEW t \in Thread, Command(t) PROVE TypeInv'
  <1>1. /\ pc[t] = "command" /\ Scan(t, "words")
        /\ UNCHANGED <<call, holder, cacheVars, unitVars>>
    BY DEF Command
  <1>2. index[t] < call[t].fun.len
    BY <1>1 DEF TypeInv, ThreadsOK, Progress
  <1>3. ThreadsOK' /\ MutexOK'
    BY <1>1, <1>2, ScanThreads
  <1>4. RestOK'
    BY <1>1, WholeType DEF TypeInv, RestOK, cacheVars, unitVars, HolderStep
  <1> QED
    BY <1>3, <1>4 DEF TypeInv

LEMMA ReadErrorType ==
    ASSUME TypeInv, BelievedSelected, NEW t \in Thread, ReadError(t)
    PROVE  TypeInv'
  <1>1. /\ pc[t] = "error" /\ Scan(t, "unlock")
        /\ current_reg_idx' = current_reg_idx \union {current_chain}
        /\ UNCHANGED <<call, holder, current_chain, desired_chain, module_id, words>>
    BY DEF ReadError, unitVars
  <1>2. ThreadsOK' /\ MutexOK'
    BY <1>1, ScanThreads
  <1>3. RestOK'
    BY <1>1, RegistersType, WholeType DEF Selected, TypeInv, RestOK, HolderStep
  <1> QED
    BY <1>2, <1>3 DEF TypeInv

LEMMA TransferType ==
    ASSUME TypeInv, BelievedSelected, NEW t \in Thread, Transfer(t)
    PROVE  TypeInv'
  <1> DEFINE n == index[t] + 1
             into == IF Writes(t) THEN [words EXCEPT ![module_id][n] = call[t].value]
                                  ELSE words
             r == IF Reads(t) THEN Append(read[t], words[module_id][n]) ELSE read[t]
  <1>1. /\ pc[t] = "words"
        /\ UNCHANGED <<call, holder, current_chain, desired_chain, module_id>>
        /\ current_reg_idx' \in {current_reg_idx, current_reg_idx \union {current_chain}}
    BY DEF Transfer
  <1>2. \/ /\ words' = into
           /\ index' = [index EXCEPT ![t] = n]
           /\ read' = IF Reads(t)
                      THEN [read EXCEPT ![t] = Append(@, words[module_id][n])]
                      ELSE read
           /\ Goto(t, NextScan(t, n))
        \/ words' \in {words, into} /\ Fails(t)
    BY DEF Transfer
  <1>3. ThreadsOK /\ RestOK /\ MaxLen \in Nat
    BY AccessAssumption DEF TypeInv
  <1>4. /\ index[t] \in Nat /\ call[t].fun.len \in 0 .. MaxLen
        /\ index[t] < call[t].fun.len
        /\ read[t] \in Seq(Value) /\ Len(read[t]) <= index[t]
        /\ call[t].value \in Value
    BY <1>1, <1>3, FunctionFields DEF ThreadsOK, Progress
  <1>5. n \in 1 .. MaxLen /\ n \in Nat /\ n <= call[t].fun.len
    BY <1>3, <1>4
  <1> HIDE DEF n
  <1>6. into \in [Modules -> [1 .. MaxLen -> Value]]
    BY <1>3, <1>4, <1>5 DEF RestOK
  <1>7. RestOK'
    <2>1. words' \in {words, into}
      BY <1>2
    <2>2. words' \in [Modules -> [1 .. MaxLen -> Value]]
      BY <1>3, <1>6, <2>1 DEF RestOK
    <2>3. current_reg_idx' \subseteq Modules
      BY <1>1, <1>3, RegistersType DEF Selected, RestOK
    <2> QED
      BY <1>1, <1>3, <2>2, <2>3, WholeType DEF RestOK, HolderStep
  <1>8. CASE Fails(t)
    <2>1. ThreadsOK' /\ Goto(t, "unlock")
      BY <1>1, <1>8, FailsThreads DEF Fails
    <2> QED
      BY <1>1, <1>7, <2>1, InsideMutex DEF Inside, TypeInv
  <1>9. CASE ~Fails(t)
    <2>1. words[module_id][n] \in Value
      BY <1>3, <1>5 DEF RestOK
    <2>2. r \in Seq(Value) /\ Len(r) <= n
      BY <1>4, <2>1 DEF n
    <2>3. read' = [read EXCEPT ![t] = r]
      BY <1>2, <1>3, <1>9 DEF ThreadsOK
    <2>4. index' = [index EXCEPT ![t] = n] /\ Goto(t, NextScan(t, n))
      BY <1>2, <1>9
    <2>5. /\ NextScan(t, n) \in {"words", "error", "unlock"}
          /\ NextScan(t, n) = "words" => n < call[t].fun.len
          /\ NextScan(t, n) = "error" => DEBUG_HARDWARE = "advanced"
      BY <1>4, <1>5 DEF NextScan, Finished
    <2> HIDE DEF r
    <2>6. ThreadsOK'
      BY <1>1, <1>5, <2>2, <2>3, <2>4, <2>5, StepThreads DEF Places, Inside
    <2>7. MutexOK'
      BY <1>1, <2>4, <2>5, InsideMutex DEF Inside
    <2> QED
      BY <1>7, <2>6, <2>7 DEF TypeInv
  <1> QED
    BY <1>8, <1>9

-----------------------------------------------------------------------------
(* The module believed selected.                                           *)

\* A step of the holder: no other thread is past its selection.
LEMMA HolderBelieves ==
    ASSUME TypeInv, BelievedSelected, NEW t \in Thread, pc[t] \in Inside,
           NEW place \in Places, Goto(t, place), call' = call,
           place \in Selected => current_chain' = call[t].fun.selects
    PROVE  BelievedSelected'
  <1> SUFFICES ASSUME NEW u \in Thread, pc'[u] \in Selected
               PROVE  current_chain' = call[u].fun.selects
    BY DEF BelievedSelected
  <1>1. CASE u = t
    BY <1>1 DEF TypeInv, ThreadsOK, Goto
  <1>2. CASE u # t
    <2>1. pc[u] \in Inside
      BY <1>2 DEF TypeInv, ThreadsOK, Goto, Selected, Inside
    <2> QED
      BY <1>2, <2>1, HolderInside
  <1> QED
    BY <1>1, <1>2

LEMMA SelectBelieves ==
    ASSUME TypeInv, BelievedSelected, NEW t \in Thread, Select(t)
    PROVE  BelievedSelected'
  <1>1. pc[t] \in Inside /\ call' = call
    BY DEF Select, Inside
  <1>2. CASE Fails(t)
    BY <1>1, <1>2, HolderBelieves DEF Fails, Places, Inside, Selected
  <1>3. CASE ~Fails(t)
    <2>1. /\ Goto(t, FirstScan(t))
          /\ current_chain' = call[t].fun.selects
      BY <1>3 DEF Select, Cached
    <2> QED
      BY <1>1, <2>1, FirstScanPlace, HolderBelieves DEF Places, Inside
  <1> QED
    BY <1>2, <1>3

\* The other steps of the holder leave the selection alone.
LEMMA LaterBelieves ==
    ASSUME TypeInv, BelievedSelected, NEW t \in Thread,
           SelectRegister(t) \/ Command(t) \/ Transfer(t) \/ ReadError(t)
    PROVE  BelievedSelected'
  <1>1. /\ pc[t] \in Selected /\ call' = call /\ current_chain' = current_chain
    BY DEF SelectRegister, Command, Transfer, ReadError, Selected, cacheVars
  <1>2. PICK place \in {"words", "error", "unlock"} : Goto(t, place)
    <2>1. NextScan(t, index[t] + 1) \in {"words", "error", "unlock"}
      BY DEF NextScan
    <2> QED
      BY <2>1 DEF SelectRegister, Command, Transfer, ReadError, Scan, Fails
  <1> QED
    BY <1>1, <1>2, HolderBelieves DEF BelievedSelected, Places, Inside, Selected

LEMMA UnlockBelieves ==
    ASSUME TypeInv, BelievedSelected, NEW t \in Thread, Unlock(t)
    PROVE  BelievedSelected'
  <1>1. \E place \in {"idle", "lock"} : Goto(t, place)
    BY DEF Unlock
  <1>2. pc[t] \in Inside /\ call' = call
    BY DEF Unlock, Inside, callVars
  <1> QED
    BY <1>1, <1>2, HolderBelieves DEF Places, Selected

LEMMA OutsideBelieves ==
    ASSUME TypeInv, BelievedSelected, NEW t \in Thread, Call(t) \/ Lock(t)
    PROVE  BelievedSelected'
  <1>1. PICK place \in {"lock", "select"} : Goto(t, place)
    BY DEF Call, Lock
  <1>2. current_chain' = current_chain
    BY DEF Call, Lock, cacheVars
  <1>3. pc'[t] \notin Selected /\ \A u \in Thread \ {t} : pc'[u] = pc[u]
    BY <1>1 DEF TypeInv, ThreadsOK, Goto, Selected
  <1>4. \A u \in Thread \ {t} : call'[u] = call[u]
    BY DEF Call, Lock, callVars, TypeInv, ThreadsOK
  <1> QED
    BY <1>2, <1>3, <1>4 DEF BelievedSelected

IInv == TypeInv /\ BelievedSelected

LEMMA Invariance == Spec => []IInv
  <1>1. Init => IInv
    BY InitType DEF IInv, BelievedSelected, Init, Selected
  <1>2. IInv /\ [Next]_vars => IInv'
    <2> SUFFICES ASSUME IInv, [Next]_vars PROVE IInv'
      OBVIOUS
    <2> USE DEF IInv
    <2>1. CASE UNCHANGED vars
      BY <2>1
      DEF vars, callVars, cacheVars, unitVars, TypeInv, ThreadsOK, MutexOK, RestOK,
          Progress, BelievedSelected
    <2>2. ASSUME NEW t \in Thread, Call(t) PROVE IInv'
      BY <2>2, CallType, OutsideBelieves
    <2>3. ASSUME NEW t \in Thread, Lock(t) PROVE IInv'
      BY <2>3, LockType, OutsideBelieves
    <2>4. ASSUME NEW t \in Thread, Select(t) PROVE IInv'
      BY <2>4, SelectType, SelectBelieves
    <2>5. ASSUME NEW t \in Thread, SelectRegister(t) PROVE IInv'
      BY <2>5, SelectRegisterType, LaterBelieves
    <2>6. ASSUME NEW t \in Thread, Command(t) PROVE IInv'
      BY <2>6, CommandType, LaterBelieves
    <2>7. ASSUME NEW t \in Thread, Transfer(t) PROVE IInv'
      BY <2>7, TransferType, LaterBelieves
    <2>8. ASSUME NEW t \in Thread, ReadError(t) PROVE IInv'
      BY <2>8, ReadErrorType, LaterBelieves
    <2>9. ASSUME NEW t \in Thread, Unlock(t) PROVE IInv'
      BY <2>9, UnlockType, UnlockBelieves
    <2> QED
      BY <2>1, <2>2, <2>3, <2>4, <2>5, <2>6, <2>7, <2>8, <2>9 DEF Next, HolderStep
  <1> QED
    BY <1>1, <1>2, PTL DEF Spec

\* The calls threads make, at every step.
LEMMA CallsAreListed ==
    /\ Init => CalledFromList
    /\ IInv /\ CalledFromList /\ [Next]_vars => CalledFromList'
  <1>1. Init => CalledFromList
    BY SomeCall DEF Init, CalledFromList
  <1>2. IInv /\ CalledFromList /\ [Next]_vars => CalledFromList'
    <2> SUFFICES ASSUME IInv, CalledFromList, [Next]_vars PROVE CalledFromList'
      OBVIOUS
    <2>1. ASSUME NEW t \in Thread, Call(t) PROVE CalledFromList'
      <3>1. call \in [Thread -> [fun : Functions, value : Value]]
        BY DEF IInv, TypeInv, ThreadsOK
      <3>2. PICK f \in Calls, v \in Value :
              call' = [call EXCEPT ![t] = [fun |-> f, value |-> v]]
        BY <2>1 DEF Call
      <3>3. call'[t].fun = f /\ \A u \in Thread \ {t} : call'[u] = call[u]
        BY <3>1, <3>2
      <3> QED
        BY <3>3 DEF CalledFromList
    <2>2. CASE call' = call
      BY <2>2 DEF CalledFromList
    <2>3. Next => call' = call \/ \E t \in Thread : Call(t)
      BY DEF Next, HolderStep, Lock, Select, SelectRegister, Command, Transfer,
             ReadError, Unlock, callVars
    <2>4. CASE UNCHANGED vars
      BY <2>2, <2>4 DEF vars, callVars
    <2> QED
      BY <2>1, <2>2, <2>3, <2>4
  <1> QED
    BY <1>1, <1>2

-----------------------------------------------------------------------------
\* dbg_access_mutex: whatever threads call, and however scans fail, only its holder
\* is inside the API, the words of a call stay in its block, and all have their types.
THEOREM TypeCorrect == Spec => []TypeOK
  <1>1. IInv => TypeOK
    BY TypesHold DEF IInv
  <1> QED
    BY <1>1, Invariance, PTL

\* Where the unit obeys every selection, or failed ones are forgotten as by the
\* legacy functions, current_chain is what the unit has selected.
THEOREM CacheStaysTrue ==
    ASSUME ~MayFail \/ DEBUG_HARDWARE = "legacy"
    PROVE  Spec => []CacheIsTrue
  <1>1. Init => CacheIsTrue
    BY DEF Init, CacheIsTrue
  <1>2. IInv /\ CacheIsTrue /\ [Next]_vars => CacheIsTrue'
    <2> SUFFICES ASSUME CacheIsTrue, [Next]_vars PROVE CacheIsTrue'
      OBVIOUS
    <2>1. ASSUME NEW t \in Thread, Select(t) PROVE CacheIsTrue'
      <3>1. CASE Fails(t)
        <4>1. MayFail
          BY <3>1 DEF Fails
        <4>2. AfterFailedSelect(call[t].fun.selects) = "none"
          BY <4>1 DEF AfterFailedSelect
        <4> QED
          BY <2>1, <4>2 DEF Select, CacheIsTrue
      <3>2. CASE ~Fails(t)
        BY <2>1, <3>2 DEF Select, CacheIsTrue
      <3> QED
        BY <3>1, <3>2
    <2>2. CASE UNCHANGED <<current_chain, module_id>>
      BY <2>2 DEF CacheIsTrue
    <2>3. ASSUME NEW t \in Thread, Next, ~(\E u \in Thread : Select(u))
          PROVE  UNCHANGED <<current_chain, module_id>>
      BY <2>3
      DEF Next, HolderStep, Call, Lock, SelectRegister, Command, Transfer, ReadError,
          Unlock, cacheVars, unitVars
    <2>4. CASE UNCHANGED vars
      BY <2>2, <2>4 DEF vars, cacheVars, unitVars
    <2> QED
      BY <2>1, <2>2, <2>3, <2>4 DEF Next
  <1> QED
    BY <1>1, <1>2, Invariance, PTL DEF Spec

\* Under the same condition every access reaches the module that its function names,
\* whichever modules other threads used before; dbg_cpu1_write() is left out, which
\* selects another.
THEOREM ReachesNamed ==
    ASSUME ~MayFail \/ DEBUG_HARDWARE = "legacy",
           SelectsNamed
    PROVE  Spec => []ReachesNamedModule
  <1>1. IInv /\ CalledFromList /\ CacheIsTrue => ReachesNamedModule
    <2> SUFFICES ASSUME IInv, CalledFromList, CacheIsTrue, NEW t \in Thread,
                        pc[t] \in Selected
                 PROVE  module_id = call[t].fun.unit
      BY DEF ReachesNamedModule, Selected
    <2>1. current_chain = call[t].fun.selects
      BY DEF IInv, BelievedSelected
    <2>2. call[t].fun.selects \in Modules /\ "none" \notin Modules
      BY FunctionFields DEF IInv, TypeInv, ThreadsOK, Modules
    <2> QED
      BY <2>1, <2>2 DEF CacheIsTrue, CalledFromList, SelectsNamed
  <1>2. Spec => []CacheIsTrue
    BY CacheStaysTrue
  <1> QED
    BY <1>1, <1>2, CallsAreListed, Invariance, PTL DEF Spec

-----------------------------------------------------------------------------
(* DebugAccess implements AtomicUnit: the step of the first word is the    *)
(* access, and all that follows until the end of the call is a stutter.    *)

\* How far a call is at each place, as long as calls are whole.  A word that
\* was written stays until the end of its call, since the mutex is held.
Progressed(t) ==
    /\ call[t].fun.len > 0
    /\ pc[t] # "idle" /\ OneByOne(call[t].fun) => call[t].fun.len = 1
    /\ pc[t] \in {"lock", "select", "register", "command"} => index[t] = 0
    /\ pc[t] \in {"error", "unlock"} => index[t] = call[t].fun.len
    /\ pc[t] = "idle" => index[t] \in {0, call[t].fun.len}
    /\ Reads(t) => Len(read[t]) = index[t]
    /\ pc[t] = "words" /\ Writes(t) =>
           \A a \in 1 .. index[t] : words[call[t].fun.unit][a] = call[t].value

WholeInv == whole => CacheIsTrue /\ \A t \in Thread : Progressed(t)

RefinementInv == IInv /\ CalledFromList /\ WholeInv

LEMMA InitWhole == Init => WholeInv
  <1> SUFFICES ASSUME Init PROVE CacheIsTrue /\ \A t \in Thread : Progressed(t)
    BY DEF WholeInv
  <1>1. CacheIsTrue
    BY DEF Init, CacheIsTrue
  <1>2. NoCall.fun.len > 0
    BY AccessAssumption DEF NoCall
  <1>3. Len(<<>>) = 0
    OBVIOUS
  <1>4. ASSUME NEW t \in Thread PROVE Progressed(t)
    <2>1. /\ pc[t] = "idle" /\ index[t] = 0 /\ read[t] = <<>>
          /\ call[t] = NoCall
      BY DEF Init
    <2>2. Len(read[t]) = 0
      BY <1>3, <2>1, Zenon
    <2> QED
      BY <1>2, <2>1, <2>2 DEF Progressed
  <1> QED
    BY <1>1, <1>4

\* A step of thread t that leaves the words alone or holds the mutex.
LEMMA OthersProgress ==
    ASSUME IInv, NEW t \in Thread, \A u \in Thread : Progressed(u),
           \A u \in Thread \ {t} : /\ pc'[u] = pc[u] /\ index'[u] = index[u]
                                   /\ call'[u] = call[u] /\ read'[u] = read[u],
           words' = words \/ pc[t] \in Inside,
           Progressed(t)'
    PROVE  \A u \in Thread : Progressed(u)'
  <1> SUFFICES ASSUME NEW u \in Thread, u # t PROVE Progressed(u)'
    OBVIOUS
  <1>1. /\ pc'[u] = pc[u] /\ index'[u] = index[u]
        /\ call'[u] = call[u] /\ read'[u] = read[u]
    OBVIOUS
  <1>2. Progressed(u)
    OBVIOUS
  <1>3. words' = words \/ pc[u] # "words"
    <2>1. pc[t] \in Inside /\ pc[u] \in Inside => u = t
      BY HolderInside DEF IInv
    <2> QED
      BY <2>1 DEF Inside
  <1> QED
    BY <1>1, <1>2, <1>3 DEF Progressed, Reads, Writes

\* What the holder reaches after its selection is what its function names.
LEMMA NamedReached ==
    ASSUME SelectsNamed, RefinementInv, whole, NEW t \in Thread, pc[t] \in Selected
    PROVE  module_id = call[t].fun.unit
  <1>1. current_chain = call[t].fun.selects /\ CacheIsTrue
    BY DEF RefinementInv, IInv, BelievedSelected, WholeInv
  <1>2. call[t].fun.selects \in Modules /\ "none" \notin Modules
    BY FunctionFields DEF RefinementInv, IInv, TypeInv, ThreadsOK, Modules
  <1> QED
    BY <1>1, <1>2 DEF CacheIsTrue, RefinementInv, CalledFromList, SelectsNamed

\* No thread is in the middle of its words.
NoneAhead == \A t \in Thread : holder = t => pc[t] # "words" \/ index[t] = 0

\* Then no words are written ahead.
LEMMA NotAhead == IInv /\ NoneAhead => AbstractWords = words
  <1> SUFFICES ASSUME IInv, NoneAhead PROVE AbstractWords = words
    OBVIOUS
  <1>1. holder \in Thread \union {NoOne}
    BY DEF IInv, TypeInv, RestOK
  <1>2. \A m, a : ~Writing(m, a)
    BY <1>1 DEF Writing, NoneAhead
  <1>3. words \in [Modules -> [1 .. MaxLen -> Value]]
    BY DEF IInv, TypeInv, RestOK
  <1>4. AbstractWords = [m \in Modules |-> [a \in 1 .. MaxLen |-> words[m][a]]]
    BY <1>2 DEF AbstractWords
  <1> QED
    BY <1>3, <1>4

LEMMA NotAheadAfter == IInv' /\ NoneAhead' => AbstractWords' = words'
  <1>1. (IInv /\ NoneAhead => AbstractWords = words)'
    BY NotAhead, PTL
  <1> QED
    BY <1>1

\* The abstract state does not change.
Stutter == UNCHANGED Atomic!vars

\* Steps before the first word and after the last one.
LEMMA MovesStutter ==
    ASSUME IInv, IInv', NEW t \in Thread, NEW place \in Places \ {"idle"},
           pc[t] # "idle", Goto(t, place),
           UNCHANGED <<call, index, read, words>>,
           NoneAhead, NoneAhead'
    PROVE  Stutter
  <1>1. AbstractWords = words
    BY NotAhead
  <1>2. AbstractWords' = words'
    BY NotAheadAfter
  <1>3. AbstractRead' = AbstractRead
    BY DEF AbstractRead, Reads
  <1>4. pc'[t] = place /\ \A u \in Thread \ {t} : pc'[u] = pc[u]
    BY DEF Goto, IInv, TypeInv, ThreadsOK
  <1>5. \A u \in Thread : pc[u] = "idle" <=> pc'[u] = "idle"
    BY <1>4
  <1>6. AbstractStage' = AbstractStage
    BY <1>5 DEF AbstractStage
  <1> QED
    BY <1>1, <1>2, <1>3, <1>6 DEF Stutter, Atomic!vars

\* The same steps with the mutex, and how far they go.
LEMMA MovesKeep ==
    ASSUME RefinementInv, IInv', whole, NEW t \in Thread, NEW place,
           \/ /\ pc[t] \in {"lock", "select", "register", "command"}
              /\ place \in {"select", "register", "command", "words"}
           \/ pc[t] = "error" /\ place = "unlock",
           Goto(t, place), UNCHANGED <<call, index, read, words>>,
           holder \in {NoOne, t}, holder' = t, CacheIsTrue'
    PROVE  Stutter /\ WholeInv'
  <1>1. Progressed(t) /\ \A u \in Thread : Progressed(u)
    BY DEF RefinementInv, WholeInv
  <1>2. pc'[t] = place /\ \A u \in Thread \ {t} : pc'[u] = pc[u]
    BY DEF Goto, RefinementInv, IInv, TypeInv, ThreadsOK
  <1>3. Progressed(t)'
    <2>1. CASE pc[t] = "error"
      BY <1>1, <1>2, <2>1 DEF Progressed, Reads, Writes
    <2>2. CASE pc[t] # "error"
      <3>1. index[t] = 0 /\ pc'[t] \in {"select", "register", "command", "words"}
        BY <1>1, <1>2, <2>2 DEF Progressed
      <3>2. \A a \in 1 .. 0 : words'[call'[t].fun.unit][a] = call'[t].value
        OBVIOUS
      <3> QED
        BY <1>1, <2>2, <3>1, <3>2 DEF Progressed, Reads, Writes
    <2> QED
      BY <2>1, <2>2
  <1>4. WholeInv'
    <2>1. \A u \in Thread : Progressed(u)'
      BY <1>1, <1>2, <1>3, OthersProgress DEF RefinementInv
    <2> QED
      BY <2>1 DEF WholeInv
  <1>5. Stutter
    <2>1. NoneAhead
      BY <1>1, AccessAssumption DEF NoneAhead, Progressed
    <2>2. NoneAhead'
      BY <1>1, <1>2 DEF NoneAhead, Progressed
    <2>3. place \in Places \ {"idle"} /\ pc[t] # "idle"
      BY DEF Places, Inside
    <2> QED
      BY <2>1, <2>2, <2>3, MovesStutter DEF RefinementInv
  <1> QED
    BY <1>4, <1>5

LEMMA LockRefines ==
    ASSUME RefinementInv, IInv', whole', NEW t \in Thread, Lock(t)
    PROVE  Stutter /\ WholeInv'
  <1>1. CacheIsTrue'
    BY DEF Lock, RefinementInv, WholeInv, CacheIsTrue, cacheVars, unitVars
  <1> QED
    BY <1>1, MovesKeep DEF Lock, callVars, cacheVars, unitVars

LEMMA SelectRefines ==
    ASSUME RefinementInv, IInv', whole', NEW t \in Thread, Select(t)
    PROVE  Stutter /\ WholeInv'
  <1>1. ~Fails(t)
    BY DEF Fails
  <1>2. /\ pc[t] = "select" /\ Goto(t, FirstScan(t))
        /\ UNCHANGED <<call, index, read, words, whole, holder>>
    BY <1>1 DEF Select
  <1>3. CacheIsTrue'
    BY <1>1, <1>2 DEF Select, RefinementInv, WholeInv, CacheIsTrue
  <1>4. holder = t
    BY <1>2, HolderInside DEF RefinementInv, IInv, Inside
  <1> QED
    BY <1>2, <1>3, <1>4, FirstScanPlace, MovesKeep

\* The scans before the first word, and the one after the last.
LEMMA ScanRefines ==
    ASSUME RefinementInv, IInv', whole', NEW t \in Thread,
           SelectRegister(t) \/ Command(t) \/ ReadError(t)
    PROVE  Stutter /\ WholeInv'
  <1>1. ~Fails(t)
    BY DEF Fails
  <1>2. /\ UNCHANGED <<call, index, read, words, whole, holder>>
        /\ UNCHANGED <<current_chain, module_id>>
    BY <1>1 DEF SelectRegister, Command, ReadError, Scan, cacheVars, unitVars
  <1>3. \/ pc[t] \in {"register", "command"} /\ Goto(t, "words")
        \/ pc[t] = "error" /\ Goto(t, "unlock")
    BY <1>1 DEF SelectRegister, Command, ReadError, Scan
  <1>4. CacheIsTrue'
    BY <1>2 DEF RefinementInv, WholeInv, CacheIsTrue
  <1>5. holder = t
    BY <1>3, HolderInside DEF RefinementInv, IInv, Inside
  <1> QED
    BY <1>2, <1>3, <1>4, <1>5, MovesKeep

\* The end of a call.
LEMMA UnlockRefines ==
    ASSUME RefinementInv, IInv', whole', NEW t \in Thread, Unlock(t)
    PROVE  Atomic!End(t) /\ WholeInv'
  <1>1. /\ pc[t] = "unlock" /\ UNCHANGED <<call, index, read, words, whole>>
        /\ UNCHANGED <<current_chain, module_id>> /\ holder' = NoOne
        /\ Goto(t, IF Finished(t, index[t]) THEN "idle" ELSE "lock")
    BY DEF Unlock, callVars, cacheVars, unitVars
  <1>2. Progressed(t) /\ \A u \in Thread : Progressed(u)
    BY <1>1 DEF RefinementInv, WholeInv
  <1>3. /\ index[t] = call[t].fun.len /\ index[t] # 0 /\ index[t] \in Nat
    BY <1>1, <1>2, FunctionFields, AccessAssumption
    DEF Progressed, RefinementInv, IInv, TypeInv, ThreadsOK
  <1>4. Goto(t, "idle")
    BY <1>1, <1>3 DEF Finished
  <1>5. pc'[t] = "idle" /\ \A u \in Thread \ {t} : pc'[u] = pc[u]
    BY <1>4 DEF Goto, RefinementInv, IInv, TypeInv, ThreadsOK
  <1>6. WholeInv'
    <2>1. Progressed(t)'
      BY <1>1, <1>2, <1>3, <1>5 DEF Progressed, Reads, Writes
    <2>2. \A u \in Thread : Progressed(u)'
      BY <1>1, <1>2, <1>5, <2>1, OthersProgress DEF RefinementInv
    <2> QED
      BY <1>1, <2>2 DEF WholeInv, RefinementInv, CacheIsTrue
  <1>7. NoneAhead /\ NoneAhead'
    <2>1. holder = t
      BY <1>1, HolderInside DEF RefinementInv, IInv, Inside
    <2> QED
      BY <1>1, <2>1, AccessAssumption DEF NoneAhead
  <1>8. AbstractWords' = AbstractWords
    BY <1>1, <1>7, NotAhead, NotAheadAfter DEF RefinementInv
  <1>9. AbstractRead' = AbstractRead
    BY <1>1 DEF AbstractRead, Reads
  <1>10. AbstractStage[t] = "done"
    BY <1>1, <1>3 DEF AbstractStage
  <1>11. AbstractStage' = [AbstractStage EXCEPT ![t] = "idle"]
    BY <1>1, <1>5 DEF AbstractStage
  <1> QED
    BY <1>1, <1>6, <1>8, <1>9, <1>10, <1>11 DEF Atomic!End

\* The begin of a call.
LEMMA CallRefines ==
    ASSUME RefinementInv, IInv', whole', NEW t \in Thread, Call(t)
    PROVE  Atomic!Begin(t) /\ WholeInv'
  <1>1. PICK f \in Calls, v \in Value :
          /\ pc[t] = "idle" /\ f.len > 0
          /\ call' = [call EXCEPT ![t] = [fun |-> f, value |-> v]]
          /\ index' = [index EXCEPT ![t] = 0]
          /\ read' = [read EXCEPT ![t] = <<>>]
          /\ Goto(t, "lock")
          /\ whole' = (whole /\ (OneByOne(f) => f.len = 1))
          /\ UNCHANGED <<holder, cacheVars, unitVars>>
    BY DEF Call
  <1>2. whole /\ (OneByOne(f) => f.len = 1)
    BY <1>1
  <1>3. \A u \in Thread : Progressed(u)
    BY <1>2 DEF RefinementInv, WholeInv
  <1>4. UNCHANGED <<holder, words, current_chain, module_id>>
    BY <1>1 DEF cacheVars, unitVars
  <1>5. /\ pc'[t] = "lock" /\ index'[t] = 0 /\ read'[t] = <<>>
        /\ call'[t] = [fun |-> f, value |-> v]
    BY <1>1 DEF Goto, RefinementInv, IInv, TypeInv, ThreadsOK
  <1>6. \A u \in Thread \ {t} :
          /\ pc'[u] = pc[u] /\ index'[u] = index[u] /\ read'[u] = read[u]
          /\ call'[u] = call[u]
    BY <1>1 DEF Goto, RefinementInv, IInv, TypeInv, ThreadsOK
  <1>7. WholeInv'
    <2>1. Len(<<>>) = 0
      OBVIOUS
    <2>2. Len(read'[t]) = 0
      BY <1>5, <2>1, Zenon
    <2>3. Progressed(t)'
      BY <1>1, <1>2, <1>5, <2>2 DEF Progressed
    <2>4. \A u \in Thread : Progressed(u)'
      BY <1>3, <1>4, <1>6, <2>3, OthersProgress DEF RefinementInv
    <2>5. CacheIsTrue'
      BY <1>2, <1>4 DEF RefinementInv, WholeInv, CacheIsTrue
    <2> QED
      BY <2>4, <2>5 DEF WholeInv
  <1>8. AbstractWords' = AbstractWords
    <2>1. holder # t
      BY <1>1 DEF RefinementInv, IInv, TypeInv, MutexOK, Inside
    <2>2. holder \in Thread \union {NoOne}
      BY DEF RefinementInv, IInv, TypeInv, RestOK
    <2>3. \A m, a : Writing(m, a)' <=> Writing(m, a)
      BY <1>4, <1>6, <2>1, <2>2 DEF Writing, Writes
    <2>4. \A m, a : Writing(m, a) => call'[holder] = call[holder]
      BY <1>6, <2>1, <2>2 DEF Writing
    <2> QED
      BY <1>4, <2>3, <2>4 DEF AbstractWords
  <1>9. AbstractRead' = [AbstractRead EXCEPT ![t] = <<>>]
    <2>1. ASSUME NEW u \in Thread \ {t} PROVE AbstractRead'[u] = AbstractRead[u]
      BY <1>4, <1>6 DEF AbstractRead, Reads
    <2>2. AbstractRead'[t] = <<>>
      BY <1>5 DEF AbstractRead
    <2> QED
      BY <2>1, <2>2 DEF AbstractRead
  <1>10. AbstractStage[t] = "idle"
    BY <1>1 DEF AbstractStage
  <1>11. AbstractStage' = [AbstractStage EXCEPT ![t] = "called"]
    BY <1>5, <1>6 DEF AbstractStage
  <1>12. f \in Functions
    BY AccessAssumption
  <1> QED
    BY <1>1, <1>7, <1>8, <1>9, <1>10, <1>11, <1>12 DEF Atomic!Begin

\* A word is transferred, of the module named, in the burst of its call.
LEMMA OneWord ==
    ASSUME SelectsNamed, RefinementInv, whole', NEW t \in Thread, Transfer(t)
    PROVE  LET n == index[t] + 1
               unit == call[t].fun.unit
               len == call[t].fun.len
           IN /\ pc[t] = "words" /\ holder = t /\ whole
              /\ index[t] \in Nat /\ len \in Nat /\ n <= len /\ len <= MaxLen
              /\ unit \in Modules /\ call[t].value \in Value
              /\ index' = [index EXCEPT ![t] = n]
              /\ words' = IF Writes(t)
                          THEN [words EXCEPT ![unit][n] = call[t].value]
                          ELSE words
              /\ read' = IF Reads(t)
                         THEN [read EXCEPT ![t] = Append(@, words[unit][n])]
                         ELSE read
              /\ \/ n < len /\ Goto(t, "words")
                 \/ n = len /\ \E place \in {"error", "unlock"} : Goto(t, place)
              /\ UNCHANGED <<call, holder, current_chain, module_id>>
  <1> DEFINE n == index[t] + 1
  <1>1. ~Fails(t)
    BY DEF Fails
  <1>2. /\ pc[t] = "words" /\ whole /\ index' = [index EXCEPT ![t] = n]
        /\ Goto(t, NextScan(t, n))
        /\ UNCHANGED <<call, holder, current_chain, module_id>>
    BY <1>1 DEF Transfer
  <1>3. Progressed(t)
    BY <1>2 DEF RefinementInv, WholeInv
  <1>4. module_id = call[t].fun.unit /\ module_id \in Modules
    BY <1>2, NamedReached DEF Selected, RefinementInv, IInv, TypeInv, RestOK
  <1>5. holder = t
    BY <1>2, HolderInside DEF RefinementInv, IInv, Inside
  <1>6. /\ index[t] \in Nat /\ call[t].fun.len \in 0 .. MaxLen /\ MaxLen \in Nat
        /\ index[t] < call[t].fun.len /\ call[t].value \in Value
    BY <1>2, FunctionFields, AccessAssumption
    DEF RefinementInv, IInv, TypeInv, ThreadsOK, Progress
  <1>7. n <= call[t].fun.len /\ n \in Nat /\ n > 0 /\ call[t].fun.len <= MaxLen
    BY <1>6
  <1> HIDE DEF n
  <1>8. OneByOne(call[t].fun) => n = call[t].fun.len
    BY <1>2, <1>3, <1>6, <1>7 DEF Progressed
  <1>9. /\ n < call[t].fun.len => NextScan(t, n) = "words"
        /\ n = call[t].fun.len => NextScan(t, n) \in {"error", "unlock"}
    BY <1>6, <1>7, <1>8 DEF NextScan, Finished
  <1>10. \/ n < call[t].fun.len /\ Goto(t, "words")
         \/ n = call[t].fun.len /\ \E place \in {"error", "unlock"} : Goto(t, place)
    BY <1>2, <1>6, <1>7, <1>9
  <1>11. /\ words' = IF Writes(t) THEN [words EXCEPT ![module_id][n] = call[t].value]
                                  ELSE words
         /\ read' = IF Reads(t) THEN [read EXCEPT ![t] = Append(@, words[module_id][n])]
                                ELSE read
    BY <1>1 DEF Transfer, n
  <1> QED
    BY <1>2, <1>4, <1>5, <1>6, <1>7, <1>10, <1>11 DEF n

\* What a word does to the words of the modules, to those of the call, and to
\* the place.
LEMMA WordEffect ==
    ASSUME SelectsNamed, RefinementInv, whole', NEW t \in Thread, Transfer(t)
    PROVE  LET n == index[t] + 1 IN
           /\ pc'[t] \in {"words", "error", "unlock"}
           /\ pc'[t] = "words" <=> n < call[t].fun.len
           /\ index'[t] = n
           /\ \A u \in Thread \ {t} : /\ pc'[u] = pc[u] /\ index'[u] = index[u]
                                      /\ read'[u] = read[u]
           /\ \A m \in Modules, a \in 1 .. MaxLen :
                  words'[m][a] = IF Writes(t) /\ m = call[t].fun.unit /\ a = n
                                 THEN call[t].value ELSE words[m][a]
           /\ Reads(t) => /\ Len(read'[t]) = n
                          /\ \A a \in 1 .. n :
                                 read'[t][a] = IF a = n THEN words[call[t].fun.unit][n]
                                               ELSE read[t][a]
           /\ ~Reads(t) => read'[t] = read[t]
  <1> DEFINE n == index[t] + 1
             unit == call[t].fun.unit
  <1>1. /\ pc \in [Thread -> Places] /\ index \in [Thread -> Nat]
        /\ read \in [Thread -> Seq(Value)] /\ MaxLen \in Nat
        /\ words \in [Modules -> [1 .. MaxLen -> Value]]
    BY AccessAssumption DEF RefinementInv, IInv, TypeInv, ThreadsOK, RestOK
  <1>2. /\ index[t] \in Nat /\ call[t].fun.len \in Nat /\ n <= call[t].fun.len
        /\ call[t].fun.len <= MaxLen /\ unit \in Modules
    BY OneWord
  <1>3. n \in 1 .. MaxLen
    BY <1>1, <1>2
  <1>4. /\ pc'[t] \in {"words", "error", "unlock"}
        /\ pc'[t] = "words" <=> n < call[t].fun.len
        /\ \A u \in Thread \ {t} : pc'[u] = pc[u]
    <2>1. PICK place \in {"words", "error", "unlock"} :
            Goto(t, place) /\ (place = "words" <=> n < call[t].fun.len)
      <3>1. \/ n < call[t].fun.len /\ Goto(t, "words")
            \/ /\ n = call[t].fun.len
               /\ \E place \in {"error", "unlock"} : Goto(t, place)
        BY OneWord
      <3> HIDE DEF n
      <3>2. CASE n < call[t].fun.len /\ Goto(t, "words")
        BY <3>2
      <3>3. CASE /\ n = call[t].fun.len
                 /\ \E place \in {"error", "unlock"} : Goto(t, place)
        <4>1. ~(n < call[t].fun.len)
          BY <1>2, <3>3
        <4> QED
          BY <3>3, <4>1
      <3> QED
        BY <3>1, <3>2, <3>3
    <2> HIDE DEF n
    <2> QED
      BY <1>1, <2>1 DEF Goto
  <1>5. index'[t] = n /\ \A u \in Thread \ {t} : index'[u] = index[u]
    BY <1>1, OneWord
  <1>6. /\ words' = IF Writes(t) THEN [words EXCEPT ![unit][n] = call[t].value]
                                 ELSE words
        /\ read' = IF Reads(t) THEN [read EXCEPT ![t] = Append(@, words[unit][n])]
                               ELSE read
    BY OneWord
  <1>7. Reads(t) => Len(read[t]) = index[t]
    BY OneWord DEF RefinementInv, WholeInv, Progressed
  <1>8. Reads(t) => /\ Len(read'[t]) = n
                    /\ \A a \in 1 .. n :
                           read'[t][a] = IF a = n THEN words[unit][n] ELSE read[t][a]
    <2> SUFFICES ASSUME Reads(t)
                 PROVE  /\ Len(read'[t]) = n
                        /\ \A a \in 1 .. n :
                              read'[t][a] = IF a = n THEN words[unit][n] ELSE read[t][a]
      OBVIOUS
    <2>1. read'[t] = Append(read[t], words[unit][n])
      BY <1>1, <1>6
    <2>2. read[t] \in Seq(Value) /\ words[unit][n] \in Value
      BY <1>1, <1>2, <1>3
    <2> HIDE DEF unit
    <2> QED
      BY <1>7, <2>1, <2>2
  <1> HIDE DEF n, unit
  <1>9. \A m \in Modules, a \in 1 .. MaxLen :
            words'[m][a] = IF Writes(t) /\ m = unit /\ a = n
                           THEN call[t].value ELSE words[m][a]
    BY <1>1, <1>2, <1>3, <1>6
  <1>10. /\ \A u \in Thread \ {t} : read'[u] = read[u]
         /\ ~Reads(t) => read'[t] = read[t]
    BY <1>1, <1>6
  <1> QED
    BY <1>4, <1>5, <1>8, <1>9, <1>10 DEF n, unit

LEMMA TransferKeeps ==
    ASSUME SelectsNamed, RefinementInv, whole', NEW t \in Thread, Transfer(t)
    PROVE  WholeInv'
  <1> DEFINE n == index[t] + 1
  <1>1. /\ pc[t] = "words" /\ whole /\ index[t] \in Nat
        /\ n <= call[t].fun.len /\ call[t].fun.len \in Nat
        /\ call[t].fun.len <= MaxLen /\ call[t].fun.unit \in Modules
        /\ UNCHANGED <<call, current_chain, module_id>>
    BY OneWord
  <1>2. \A u \in Thread : Progressed(u)
    BY <1>1 DEF RefinementInv, WholeInv
  <1>3. /\ pc'[t] \in {"words", "error", "unlock"}
        /\ pc'[t] = "words" <=> n < call[t].fun.len
        /\ index'[t] = n
        /\ \A u \in Thread \ {t} : /\ pc'[u] = pc[u] /\ index'[u] = index[u]
                                   /\ read'[u] = read[u]
        /\ Reads(t) => Len(read'[t]) = n
    BY WordEffect
  <1>4. \A m \in Modules, a \in 1 .. MaxLen :
            words'[m][a] = IF Writes(t) /\ m = call[t].fun.unit /\ a = n
                           THEN call[t].value ELSE words[m][a]
    BY WordEffect
  <1>5. Writes(t) => \A a \in 1 .. n :
                         words'[call[t].fun.unit][a] = call[t].value
    <2>1. Writes(t) => \A a \in 1 .. index[t] :
                           words[call[t].fun.unit][a] = call[t].value
      BY <1>1, <1>2 DEF Progressed
    <2>2. MaxLen \in Nat /\ n \in Nat
      BY <1>1, AccessAssumption
    <2>3. \A a \in 1 .. n : a \in 1 .. MaxLen /\ (a = n \/ a \in 1 .. index[t])
      BY <1>1, <2>2
    <2> HIDE DEF n
    <2> QED
      BY <1>1, <1>4, <2>1, <2>3
  <1>6. n \in Nat /\ (~(n < call[t].fun.len) => n = call[t].fun.len)
    BY <1>1
  <1> HIDE DEF n
  <1>7. Progressed(t)'
    BY <1>1, <1>2, <1>3, <1>5, <1>6 DEF Progressed, Reads, Writes
  <1>8. \A u \in Thread : Progressed(u)'
    BY <1>1, <1>2, <1>3, <1>7, OthersProgress DEF RefinementInv, Inside
  <1> QED
    BY <1>1, <1>8 DEF WholeInv, RefinementInv, CacheIsTrue

\* After a word the memory the threads see has the whole block.
LEMMA BlockIsSeen ==
    ASSUME SelectsNamed, RefinementInv, whole', NEW t \in Thread, Transfer(t)
    PROVE  AbstractWords' =
             [m \in Modules |-> [a \in 1 .. MaxLen |->
                 IF Writes(t) /\ m = call[t].fun.unit /\ a <= call[t].fun.len
                 THEN call[t].value ELSE words[m][a]]]
  <1> DEFINE n == index[t] + 1
             unit == call[t].fun.unit
             len == call[t].fun.len
  <1>1. /\ pc[t] = "words" /\ holder = t /\ whole /\ index[t] \in Nat
        /\ n <= len /\ len \in Nat /\ len <= MaxLen /\ unit \in Modules
        /\ UNCHANGED <<call, holder>>
    BY OneWord
  <1>2. /\ pc'[t] = "words" <=> n < len
        /\ index'[t] = n
    BY WordEffect
  <1>3. \A m \in Modules, a \in 1 .. MaxLen :
            words'[m][a] = IF Writes(t) /\ m = unit /\ a = n
                           THEN call[t].value ELSE words[m][a]
    BY WordEffect
  <1>4. Writes(t) => \A a \in 1 .. index[t] : words[unit][a] = call[t].value
    BY <1>1 DEF RefinementInv, WholeInv, Progressed
  <1>5. t # NoOne /\ n > 0 /\ MaxLen \in Nat /\ n \in Nat
    BY <1>1, AccessAssumption
  <1>6. \A a \in 1 .. MaxLen : a <= n => a = n \/ a \in 1 .. index[t]
    BY <1>1
  <1> HIDE DEF n, unit, len
  <1>7. ASSUME NEW m \in Modules, NEW a \in 1 .. MaxLen
        PROVE  (IF Writing(m, a)' THEN call'[holder'].value ELSE words'[m][a])
               = IF Writes(t) /\ m = unit /\ a <= len
                 THEN call[t].value ELSE words[m][a]
    <2>1. CASE n < len
      <3>1. Writing(m, a)' <=> Writes(t) /\ m = unit /\ a <= len
        BY <1>1, <1>2, <1>5, <2>1 DEF Writing, Writes, unit, len
      <3>2. Writes(t) /\ m = unit /\ a = n => a <= len
        BY <1>1
      <3> QED
        BY <1>1, <1>3, <3>1, <3>2
    <2>2. CASE ~(n < len)
      <3>1. ~Writing(m, a)'
        BY <1>1, <1>2, <2>2 DEF Writing
      <3>2. n = len
        BY <1>1, <1>5, <2>2
      <3>3. a <= len => a = n \/ a \in 1 .. index[t]
        BY <1>6, <3>2
      <3>4. a = n => a <= len
        BY <1>1
      <3> QED
        BY <1>3, <1>4, <3>1, <3>3, <3>4
    <2> QED
      BY <2>1, <2>2
  <1> QED
    BY <1>7 DEF AbstractWords, unit, len

\* A call has read its whole block once it has read a word.
LEMMA BlockIsRead ==
    ASSUME SelectsNamed, RefinementInv, whole', NEW t \in Thread, Transfer(t)
    PROVE  /\ \A u \in Thread \ {t} : AbstractRead'[u] = AbstractRead[u]
           /\ ~Reads(t) => AbstractRead[t] = <<>> /\ AbstractRead'[t] = <<>>
           /\ Reads(t) => AbstractRead'[t] =
                [a \in 1 .. call[t].fun.len |->
                    IF a <= index[t] THEN read[t][a]
                    ELSE words[call[t].fun.unit][a]]
  <1> DEFINE n == index[t] + 1
             unit == call[t].fun.unit
             len == call[t].fun.len
  <1>1. /\ pc[t] = "words" /\ holder = t /\ whole /\ index[t] \in Nat
        /\ n <= len /\ len \in Nat /\ len <= MaxLen /\ unit \in Modules
        /\ UNCHANGED <<call, holder>>
    BY OneWord
  <1>2. /\ index'[t] = n
        /\ \A u \in Thread \ {t} : /\ pc'[u] = pc[u] /\ index'[u] = index[u]
                                   /\ read'[u] = read[u]
        /\ \A m \in Modules, a \in 1 .. MaxLen :
               words'[m][a] = IF Writes(t) /\ m = unit /\ a = n
                              THEN call[t].value ELSE words[m][a]
        /\ Reads(t) => \A a \in 1 .. n :
               read'[t][a] = IF a = n THEN words[unit][n] ELSE read[t][a]
    BY WordEffect
  <1>3. MaxLen \in Nat /\ n # 0 /\ n \in Nat
    BY <1>1, AccessAssumption
  <1>4. \A a \in 1 .. len : /\ a \in 1 .. MaxLen
                            /\ a <= n => a \in 1 .. n
                            /\ a <= n /\ a # n => a <= index[t]
                            /\ a <= index[t] => a <= n /\ a # n
                            /\ a = n => a <= n
    BY <1>1, <1>3
  <1>5. ASSUME NEW u \in Thread \ {t} PROVE AbstractRead'[u] = AbstractRead[u]
    <2>1. index'[u] = index[u] /\ read'[u] = read[u] /\ call'[u] = call[u]
      BY <1>1, <1>2
    <2>2. \A a \in 1 .. call[u].fun.len : a <= index[u]
          \/ index[u] = 0
      <3>1. Progressed(u) /\ pc[u] \notin Inside
        BY <1>1, HolderInside DEF RefinementInv, IInv, WholeInv
      <3>2. /\ pc[u] \in Places /\ index[u] \in Nat
        BY DEF RefinementInv, IInv, TypeInv, ThreadsOK
      <3>3. index[u] = 0 \/ index[u] = call[u].fun.len
        BY <3>1, <3>2 DEF Progressed, Places
      <3>4. call[u].fun.len \in Nat
        BY FunctionFields, AccessAssumption
        DEF RefinementInv, IInv, TypeInv, ThreadsOK
      <3> QED
        BY <3>2, <3>3, <3>4
    <2> HIDE DEF n, unit, len
    <2> QED
      BY <2>1, <2>2 DEF AbstractRead, Reads
  <1> HIDE DEF n, unit, len
  <1>6. ~Reads(t) => AbstractRead[t] = <<>> /\ AbstractRead'[t] = <<>>
    BY <1>1 DEF AbstractRead, Reads
  <1>7. ASSUME Reads(t)
        PROVE  AbstractRead'[t] =
                 [a \in 1 .. len |-> IF a <= index[t] THEN read[t][a]
                                     ELSE words[unit][a]]
    <2>1. AbstractRead'[t] =
            [a \in 1 .. len |-> IF a <= n THEN read'[t][a] ELSE words'[unit][a]]
      BY <1>1, <1>2, <1>3, <1>7 DEF AbstractRead, Reads, unit, len
    <2>2. ASSUME NEW a \in 1 .. len
          PROVE  (IF a <= n THEN read'[t][a] ELSE words'[unit][a])
                 = IF a <= index[t] THEN read[t][a] ELSE words[unit][a]
      <3>1. CASE a <= n
        BY <1>2, <1>4, <1>7, <3>1
      <3>2. CASE ~(a <= n)
        BY <1>1, <1>2, <1>4, <3>2
      <3> QED
        BY <3>1, <3>2
    <2> QED
      BY <2>1, <2>2
  <1> QED
    BY <1>5, <1>6, <1>7 DEF unit, len

LEMMA TransferRefines ==
    ASSUME SelectsNamed, RefinementInv, whole', NEW t \in Thread, Transfer(t)
    PROVE  Atomic!Access(t) \/ Stutter
  <1> DEFINE unit == call[t].fun.unit
             len == call[t].fun.len
  <1>1. /\ pc[t] = "words" /\ holder = t /\ whole /\ index[t] \in Nat
        /\ len \in Nat /\ call' = call
    BY OneWord
  <1>2. /\ pc'[t] # "idle" /\ index'[t] # 0
        /\ \A u \in Thread \ {t} : pc'[u] = pc[u] /\ index'[u] = index[u]
    BY <1>1, WordEffect
  <1>3. AbstractStage' = [AbstractStage EXCEPT ![t] = "done"]
    BY <1>2 DEF AbstractStage
  <1>4. AbstractWords' =
          [m \in Modules |-> [a \in 1 .. MaxLen |->
              IF Writes(t) /\ m = unit /\ a <= len
              THEN call[t].value ELSE words[m][a]]]
    BY BlockIsSeen
  <1>5. /\ \A u \in Thread \ {t} : AbstractRead'[u] = AbstractRead[u]
        /\ ~Reads(t) => AbstractRead[t] = <<>> /\ AbstractRead'[t] = <<>>
        /\ Reads(t) => AbstractRead'[t] =
              [a \in 1 .. len |-> IF a <= index[t] THEN read[t][a] ELSE words[unit][a]]
    BY BlockIsRead
  <1>6. AbstractRead = [u \in Thread |-> AbstractRead[u]]
        /\ AbstractRead' = [u \in Thread |-> AbstractRead'[u]]
    BY DEF AbstractRead
  <1> HIDE DEF unit, len
  <1>7. CASE index[t] = 0
    <2>1. AbstractWords = words
      BY <1>1, <1>7, NotAhead DEF NoneAhead, RefinementInv
    <2>2. words \in [Modules -> [1 .. MaxLen -> Value]]
      BY DEF RefinementInv, IInv, TypeInv, RestOK
    <2>3. AbstractStage[t] = "called"
      BY <1>1, <1>7 DEF AbstractStage
    <2>4. AbstractWords' =
            IF Writes(t)
            THEN [words EXCEPT ![unit] =
                    [a \in 1 .. MaxLen |-> IF a <= len THEN call[t].value ELSE @[a]]]
            ELSE words
      <3>1. CASE Writes(t)
        <4>1. \A m \in Modules \ {unit} :
                [a \in 1 .. MaxLen |-> IF Writes(t) /\ m = unit /\ a <= len
                                       THEN call[t].value ELSE words[m][a]] = words[m]
          BY <2>2
        <4> QED
          BY <1>4, <2>2, <3>1, <4>1
      <3>2. CASE ~Writes(t)
        BY <1>4, <2>2, <3>2
      <3> QED
        BY <3>1, <3>2
    <2>5. AbstractRead' =
            IF Reads(t)
            THEN [AbstractRead EXCEPT ![t] = [a \in 1 .. len |-> words[unit][a]]]
            ELSE AbstractRead
      <3>1. \A a \in 1 .. len : ~(a <= index[t])
        BY <1>1, <1>7
      <3>2. Reads(t) => AbstractRead'[t] = [a \in 1 .. len |-> words[unit][a]]
        BY <1>5, <3>1
      <3>3. CASE Reads(t)
        BY <1>5, <1>6, <3>2, <3>3
      <3>4. CASE ~Reads(t)
        BY <1>5, <1>6, <3>4
      <3> QED
        BY <3>3, <3>4
    <2>6. Atomic!Access(t)
      BY <1>1, <1>3, <2>1, <2>3, <2>4, <2>5
      DEF Atomic!Access, Atomic!Reading, Atomic!Writing, Reads, Writes,
          ReadingCalls, WritingCalls, unit, len
    <2> QED
      BY <2>6
  <1>8. CASE index[t] # 0
    <2>1. AbstractStage[t] = "done"
      BY <1>1, <1>8 DEF AbstractStage
    <2>2. AbstractStage' = AbstractStage
      BY <1>3, <2>1 DEF AbstractStage
    <2>3. AbstractRead' = AbstractRead
      <3>1. Reads(t) => AbstractRead[t] =
              [a \in 1 .. len |-> IF a <= index[t] THEN read[t][a] ELSE words[unit][a]]
        BY <1>8 DEF AbstractRead, unit, len
      <3>2. AbstractRead'[t] = AbstractRead[t]
        BY <1>5, <3>1
      <3> QED
        BY <1>5, <1>6, <3>2
    <2>4. AbstractWords' = AbstractWords
      <3>1. t # NoOne /\ index[t] > 0
        BY <1>1, <1>8, AccessAssumption
      <3>2. \A m, a : Writing(m, a) <=> Writes(t) /\ m = unit /\ a <= len
        BY <1>1, <3>1 DEF Writing, unit, len
      <3> QED
        BY <1>1, <1>4, <3>2 DEF AbstractWords
    <2> QED
      BY <1>1, <2>2, <2>3, <2>4 DEF Stutter, Atomic!vars
  <1> QED
    BY <1>7, <1>8

LEMMA InitRefines == Init => Atomic!Init
  <1> SUFFICES ASSUME Init PROVE Atomic!Init
    OBVIOUS
  <1>1. IInv
    BY InitType DEF IInv, BelievedSelected, Init, Selected
  <1>2. AbstractWords = words /\ words \in [Modules -> [1 .. MaxLen -> Value]]
    BY <1>1, NotAhead DEF NoneAhead, Init, IInv, TypeInv, RestOK
  <1>3. AbstractStage = [t \in Thread |-> "idle"]
    BY DEF Init, AbstractStage
  <1>4. AbstractRead = [t \in Thread |-> <<>>]
    BY DEF Init, AbstractRead
  <1>5. call \in [Thread -> [fun : Functions, value : Value]]
    BY <1>1 DEF IInv, TypeInv, ThreadsOK
  <1> QED
    BY <1>2, <1>3, <1>4, <1>5 DEF Atomic!Init

\* One step: as long as calls are whole, a step of AtomicUnit or a stutter.
LEMMA StepRefines ==
    ASSUME SelectsNamed, RefinementInv, IInv', [Next]_vars, whole'
    PROVE  WholeInv' /\ [Atomic!Next]_(Atomic!vars)
  <1> DEFINE Done == WholeInv' /\ (Atomic!Next \/ Stutter)
  <1>1. ASSUME NEW t \in Thread, Call(t) PROVE Done
    BY <1>1, CallRefines DEF Atomic!Next
  <1>2. ASSUME NEW t \in Thread, Lock(t) PROVE Done
    BY <1>2, LockRefines
  <1>3. ASSUME NEW t \in Thread, Select(t) PROVE Done
    BY <1>3, SelectRefines
  <1>4. ASSUME NEW t \in Thread, SelectRegister(t) \/ Command(t) \/ ReadError(t)
        PROVE  Done
    BY <1>4, ScanRefines
  <1>5. ASSUME NEW t \in Thread, Transfer(t) PROVE Done
    BY <1>5, TransferRefines, TransferKeeps DEF Atomic!Next
  <1>6. ASSUME NEW t \in Thread, Unlock(t) PROVE Done
    BY <1>6, UnlockRefines DEF Atomic!Next
  <1>7. ASSUME UNCHANGED vars PROVE Done
    <2>1. WholeInv'
      BY <1>7
      DEF vars, callVars, cacheVars, unitVars, RefinementInv, WholeInv, CacheIsTrue,
          Progressed, Reads, Writes
    <2>2. Stutter
      BY <1>7
      DEF vars, callVars, cacheVars, unitVars, Stutter, Atomic!vars, AbstractWords,
          AbstractRead, AbstractStage, Writing, Reads, Writes
    <2> QED
      BY <2>1, <2>2
  <1>8. Done
    BY <1>1, <1>2, <1>3, <1>4, <1>5, <1>6, <1>7 DEF Next, HolderStep
  <1> QED
    BY <1>8 DEF Stutter

\* dbg_api.c: threads see the debug unit as memory that each of their calls accesses
\* in one step, until a call is made in several parts or a scan fails; of whichever
\* unit, and whichever functions they call but dbg_cpu1_write() of the advanced one.
THEOREM AccessImplementsAtomicUnit ==
    ASSUME SelectsNamed
    PROVE  Spec => ImplementsAtomicUnit
  <1>1. Init => WholeInv
    BY InitWhole
  <1>2. RefinementInv /\ IInv' /\ [Next]_vars => WholeInv'
    <2> SUFFICES ASSUME RefinementInv, IInv', [Next]_vars, whole' PROVE WholeInv'
      BY DEF WholeInv
    <2> QED
      BY StepRefines
  <1>3. RefinementInv /\ IInv' /\ [Next]_vars
            => [whole' => Atomic!Next]_(Atomic!vars)
    BY StepRefines
  <1>4. Spec => []RefinementInv
    BY <1>1, <1>2, CallsAreListed, Invariance, PTL DEF Spec, RefinementInv
  <1> QED
    BY <1>3, <1>4, InitRefines, Invariance, PTL DEF Spec, ImplementsAtomicUnit
=============================================================================
