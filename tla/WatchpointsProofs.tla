-------------------------- MODULE WatchpointsProofs ---------------------------
(***************************************************************************)
(* Proofs about Watchpoints, for any number of watchpoints, any addresses  *)
(* and any types of matchpoint.  What concerns memory holds however the    *)
(* two threads interleave; what concerns hardware watchpoints is proved    *)
(* from the assumption that they do not overlap.                           *)
(***************************************************************************)
EXTENDS Watchpoints, TLAPS

Setting  == {"dvr", "dcr", "readDmr2", "writeDmr2", "readDmr1", "writeDmr1"}
Removing == {"clearDmr2", "clearDcr", "return"}

\* While the HWP thread is in a packet GDB neither has hardware matchpoints
\* nor sets or removes one.
QuietInv ==
    hpc = "mark" =>
        rpc = "idle" /\ \A k \in HardwareKeys : mp_hash[k] = NoEntry

\* The watchpoint a packet of GDB is about is free until it is taken, and
\* then in use for no other matchpoint.
GrantInv ==
    /\ rpc = "take" => ~hwp_in_use[hwp]
    /\ rpc \in Setting \union Removing =>
          /\ hwp_in_use[hwp]
          /\ \A k \in HardwareKeys \ {key} : mp_hash[k] # hwp
    /\ rpc \in Setting => mp_hash[key] # NoEntry
    /\ rpc \in Removing => mp_hash[key] = NoEntry

\* How far the registers of that watchpoint are set.
StageInv ==
    /\ rpc \in Setting \ {"dvr"} /\ hwp \in Present => dvr[hwp] = key[2]
    /\ rpc \in Setting \ {"dvr", "dcr"} /\ hwp \in Present => dcr[hwp] = key[1]
    /\ rpc = "writeDmr2" => regdata = dmr2 \union {hwp}
    /\ rpc \in {"readDmr1", "writeDmr1"} => hwp \in dmr2
    /\ rpc = "writeDmr1" => regdata = dmr1 \ {hwp}
    /\ rpc = "clearDmr2" => regdata = dmr2 \ {hwp}
    /\ rpc = "return" /\ hwp \in Present => dcr[hwp] = "off"

\* An armed matchpoint stays armed, also while it is set once more.
ArmedInv ==
    \A k \in HardwareKeys :
        /\ mp_hash[k] \in Present
        /\ k = key => rpc \in {"idle", "take"} \/ mp_hash[k] # hwp
        => Armed(k)

\* PoolIsTrue, except for the watchpoint a thread is just about.
PoolInv ==
    /\ \A w \in marked :
          \/ hwp_in_use[w] <=> Enables(dcr[w])
          \/ rpc \in {"dvr", "dcr", "return"} /\ w = hwp
          \/ hpc = "mark" /\ w = dcridx
    /\ hpc = "mark" /\ dcridx \in Present => dcr[dcridx] = val

\* As long as no request is repeated, a condition of GDB's belongs to a
\* matchpoint; the client never reads one.
OwnerInv ==
    ~repeated =>
        /\ seen = {}
        /\ val \notin HardwareTypes
        /\ \A w \in Wp \ Present : dcr[w] = "absent"
        /\ \A w \in Present : dcr[w] \in HardwareTypes =>
              \/ \E k \in HardwareKeys : mp_hash[k] = w
              \/ rpc \in {"clearDmr2", "clearDcr"} /\ w = hwp
        /\ rpc = "take" => mp_hash[key] = NoEntry
        /\ rpc \in Setting => mp_hash[key] = hwp

\* What the steps preserve together when the threads do not overlap.
IInv ==
    /\ TypeOK
    /\ QuietInv
    /\ OwnedOnce
    /\ GrantInv
    /\ StageInv
    /\ ArmedInv
    /\ PoolInv

-----------------------------------------------------------------------------
(* Facts about keys, the table and the registers.                          *)

\* Keys of memory breakpoints and of hardware matchpoints are apart, and an
\* entry is never confused with the lack of one.
LEMMA KeyFacts ==
    /\ HardwareKeys \subseteq Keys
    /\ \A a \in Addr : <<"BP_MEMORY", a>> \notin HardwareKeys
    /\ NoKey \notin HardwareKeys
    /\ \A k \in HardwareKeys : k[1] \in HardwareTypes /\ k[2] \in Addr
    /\ \A t \in HardwareTypes : Enables(t)
    /\ \A v \in {"off", "absent", "client"} : v \notin HardwareTypes
    /\ NoWp \notin Wp
    /\ NoEntry \notin Wp
    /\ NoEntry \notin Instrs
BY WatchpointsAssumption
   DEF Keys, HardwareKeys, HardwareTypes, NoKey, NoWp, Wp, Enables

-----------------------------------------------------------------------------
(* Types.                                                                  *)

LEMMA TypeInit == Init => TypeOK
BY DEF Init, TypeOK, Conditions

LEMMA TypeStep == TypeOK /\ [Next]_vars => TypeOK'
<1> SUFFICES ASSUME TypeOK, [Next]_vars
             PROVE  TypeOK'
  OBVIOUS
<1> USE DEF TypeOK, Conditions, poolVars, regVars, memVars, gdbVars, rspVars,
            hwpVars, clientVars
<1>1. ASSUME NEW a \in Addr, InsertMemory(a)
      PROVE  TypeOK'
  BY <1>1, KeyFacts DEF InsertMemory, Add
<1>2. ASSUME NEW a \in Addr, RemoveMemory(a)
      PROVE  TypeOK'
  BY <1>2, KeyFacts DEF RemoveMemory
<1>3. ASSUME NEW a \in Addr, NEW instr \in Instrs, WriteMemory(a, instr)
      PROVE  TypeOK'
  BY <1>3, KeyFacts DEF WriteMemory
<1>4. ASSUME NEW k \in HardwareKeys, FindWatchpoint(k)
      PROVE  TypeOK'
  BY <1>4, KeyFacts DEF FindWatchpoint, Unused
<1>5. CASE TakeWatchpoint
  BY <1>5, KeyFacts DEF TakeWatchpoint, Add
<1>6. CASE WriteDvr
  BY <1>6, KeyFacts DEF WriteDvr, SetReg
<1>7. CASE WriteDcr
  BY <1>7, KeyFacts DEF WriteDcr, SetReg
<1>8. CASE ReadDmr2
  BY <1>8, KeyFacts DEF ReadDmr2
<1>9. CASE WriteDmr2
  BY <1>9, KeyFacts DEF WriteDmr2
<1>10. CASE ReadDmr1
  BY <1>10, KeyFacts DEF ReadDmr1
<1>11. CASE WriteDmr1
  BY <1>11, KeyFacts DEF WriteDmr1, Return, NoKey
<1>12. ASSUME NEW k \in HardwareKeys, RemoveHardware(k)
      PROVE  TypeOK'
  BY <1>12, KeyFacts DEF RemoveHardware
<1>13. CASE ClearDmr2
  BY <1>13, KeyFacts DEF ClearDmr2
<1>14. CASE ClearDcr
  BY <1>14, KeyFacts DEF ClearDcr, SetReg
<1>15. CASE ReturnWatchpoint
  BY <1>15, KeyFacts DEF ReturnWatchpoint, Return, NoKey
<1>16. CASE ResumeOrStop
  BY <1>16, KeyFacts DEF ResumeOrStop
<1>17. CASE Asks
  BY <1>17, KeyFacts DEF Asks
<1>18. CASE Ends
  BY ZenonT(40), <1>18, KeyFacts DEF Ends
<1>19. ASSUME NEW w \in Wp, ReadRegister(w)
      PROVE  TypeOK'
  BY <1>19, KeyFacts DEF ReadRegister
<1>20. CASE WriteRegister
  BY <1>20, KeyFacts DEF WriteRegister, SetReg
<1>21. ASSUME NEW w \in Wp, NEW v \in {"off", "client"} \union seen,
             WriteCondition(w, v)
      PROVE  TypeOK'
  BY <1>21, KeyFacts DEF WriteCondition, SetReg
<1>22. CASE MarkInUse
  BY <1>22, KeyFacts DEF MarkInUse, Enables
<1>23. CASE UNCHANGED vars
  BY <1>23 DEF vars
<1> QED
  BY <1>1, <1>2, <1>3, <1>4, <1>5, <1>6, <1>7, <1>8, <1>9, <1>10, <1>11,
     <1>12, <1>13, <1>14, <1>15, <1>16, <1>17, <1>18, <1>19, <1>20, <1>21,
     <1>22, <1>23 DEF Next, RspStep, HwpStep

\* Every variable has its type in every behaviour, however the two threads
\* interleave.
THEOREM TypeCorrect == Spec => []TypeOK
BY TypeInit, TypeStep, PTL DEF Spec

-----------------------------------------------------------------------------
(* Memory.                                                                 *)

LEMMA ProgramStep == TypeOK /\ ProgramIsKept /\ [Next]_vars => ProgramIsKept'
<1> SUFFICES ASSUME TypeOK, ProgramIsKept, [Next]_vars
             PROVE  ProgramIsKept'
  OBVIOUS
<1>1. ASSUME NEW a \in Addr, InsertMemory(a)
      PROVE  ProgramIsKept'
  <2> DEFINE k == <<"BP_MEMORY", a>>
  <2>1. /\ k \in Keys
        /\ memory' = [memory EXCEPT ![a] = TRAP]
        /\ UNCHANGED <<program, overwritten>>
        /\ mp_hash'[k] = IF mp_hash[k] = NoEntry THEN memory[a]
                                                ELSE mp_hash[k]
        /\ \A j \in Keys \ {k} : mp_hash'[j] = mp_hash[j]
    BY <1>1 DEF InsertMemory, Add, TypeOK
  <2>2. a \notin overwritten =>
           mp_hash'[k] = program[a] /\ program[a] # NoEntry
    BY <2>1, KeyFacts DEF TypeOK, ProgramIsKept
  <2>3. memory'[a] = TRAP /\ \A b \in Addr \ {a} : memory'[b] = memory[b]
    BY <2>1 DEF TypeOK
  <2> QED
    BY <2>1, <2>2, <2>3 DEF ProgramIsKept
<1>2. ASSUME NEW a \in Addr, RemoveMemory(a)
      PROVE  ProgramIsKept'
  BY <1>2 DEF RemoveMemory, TypeOK, ProgramIsKept
<1>3. ASSUME NEW a \in Addr, NEW instr \in Instrs, WriteMemory(a, instr)
      PROVE  ProgramIsKept'
  BY <1>3 DEF WriteMemory, TypeOK, ProgramIsKept
<1>4. CASE TakeWatchpoint
  BY <1>4, KeyFacts DEF TakeWatchpoint, Add, memVars, TypeOK, ProgramIsKept
<1>5. ASSUME NEW k \in HardwareKeys, RemoveHardware(k)
      PROVE  ProgramIsKept'
  BY <1>5, KeyFacts DEF RemoveHardware, memVars, TypeOK, ProgramIsKept
<1>6. CASE UNCHANGED <<mp_hash, memVars>>
  BY <1>6 DEF memVars, ProgramIsKept
<1>7. \/ \E a \in Addr : InsertMemory(a) \/ RemoveMemory(a)
      \/ \E a \in Addr, instr \in Instrs : WriteMemory(a, instr)
      \/ TakeWatchpoint
      \/ \E k \in HardwareKeys : RemoveHardware(k)
      \/ UNCHANGED <<mp_hash, memVars>>
  BY DEF Next, RspStep, HwpStep, FindWatchpoint, WriteDvr, WriteDcr, ReadDmr2,
         WriteDmr2, ReadDmr1, WriteDmr1, ClearDmr2, ClearDcr,
         ReturnWatchpoint, ResumeOrStop, Asks, Ends, ReadRegister,
         WriteRegister, WriteCondition, MarkInUse, vars
<1> QED
  BY <1>1, <1>2, <1>3, <1>4, <1>5, <1>6, <1>7

\* Memory breakpoints, set once or more often, never lose an instruction of
\* the program that was there before them, whatever the HWP client does at
\* the same time; only what GDB has written over an entry of the table is not
\* kept.
THEOREM ProgramStaysKept == Spec => []ProgramIsKept
<1>1. Init => ProgramIsKept
  BY DEF Init, ProgramIsKept
<1> QED
  BY <1>1, TypeCorrect, ProgramStep, PTL DEF Spec

-----------------------------------------------------------------------------
(* Hardware watchpoints.                                                   *)

\* What a step that is not about hardware watchpoints leaves alone.
HardwareUntouched ==
    /\ UNCHANGED <<poolVars, regVars, rspVars, hwpVars>>
    /\ \A k \in HardwareKeys : mp_hash'[k] = mp_hash[k]

\* Every other step is one of the RSP thread's within a Z or z packet for
\* hardware, or a write of the HWP thread.
LEMMA HardwareFrame ==
    ASSUME TypeOK, [Next]_vars
    PROVE  \/ HardwareUntouched
           \/ \E k \in HardwareKeys : FindWatchpoint(k) \/ RemoveHardware(k)
           \/ TakeWatchpoint \/ WriteDvr \/ WriteDcr
           \/ ReadDmr2 \/ WriteDmr2 \/ ReadDmr1 \/ WriteDmr1
           \/ ClearDmr2 \/ ClearDcr \/ ReturnWatchpoint
           \/ WriteRegister
           \/ \E w \in Wp, v \in {"off", "client"} \union seen :
                 WriteCondition(w, v)
           \/ MarkInUse
<1>1. ASSUME NEW a \in Addr, InsertMemory(a) \/ RemoveMemory(a)
      PROVE  HardwareUntouched
  BY <1>1, KeyFacts
     DEF InsertMemory, RemoveMemory, Add, TypeOK, HardwareUntouched
<1>2. ASSUME NEW a \in Addr, NEW instr \in Instrs, WriteMemory(a, instr)
      PROVE  HardwareUntouched
  BY <1>2 DEF WriteMemory, HardwareUntouched
<1>3. CASE ResumeOrStop \/ Asks \/ Ends \/ \E w \in Wp : ReadRegister(w)
  BY <1>3 DEF ResumeOrStop, Asks, Ends, ReadRegister, HardwareUntouched
<1>4. CASE UNCHANGED vars
  BY <1>4 DEF vars, HardwareUntouched
<1> QED
  BY <1>1, <1>2, <1>3, <1>4 DEF Next, RspStep, HwpStep

LEMMA UntouchedStep == IInv /\ TypeOK' /\ HardwareUntouched => IInv'
<1> SUFFICES ASSUME IInv, TypeOK', HardwareUntouched
             PROVE  IInv'
  OBVIOUS
<1> USE DEF HardwareUntouched, poolVars, regVars, rspVars, hwpVars
<1>1. QuietInv'
  BY DEF IInv, QuietInv
<1>2. OwnedOnce'
  BY DEF IInv, OwnedOnce
<1>3. GrantInv'
  BY DEF IInv, TypeOK, GrantInv, Setting, Removing
<1>4. StageInv'
  BY DEF IInv, StageInv
<1>5. ArmedInv'
  BY DEF IInv, ArmedInv, Armed
<1>6. PoolInv'
  BY DEF IInv, PoolInv
<1> QED
  BY <1>1, <1>2, <1>3, <1>4, <1>5, <1>6 DEF IInv

\* The HWP thread writes while GDB has no hardware matchpoint, and then only
\* PoolInv is about what it writes.
LEMMA ClientStep ==
    ASSUME IInv, TypeOK', Overlap = FALSE,
           \/ WriteRegister
           \/ \E w \in Wp, v \in {"off", "client"} \union seen :
                 WriteCondition(w, v)
           \/ MarkInUse
    PROVE  IInv'
<1>1. /\ rpc = "idle"
      /\ \A k \in HardwareKeys : mp_hash[k] = NoEntry
      /\ UNCHANGED <<rpc, key, hwp, regdata, mp_hash>>
  BY DEF IInv, poolVars, QuietInv, WriteRegister, WriteCondition, MarkInUse,
         MayServeClient, GdbHasHardware, rspVars
<1>2. QuietInv' /\ OwnedOnce' /\ ArmedInv'
  BY <1>1, KeyFacts, WatchpointsAssumption DEF QuietInv, poolVars, OwnedOnce, ArmedInv
<1>3. GrantInv' /\ StageInv'
  BY <1>1 DEF GrantInv, poolVars, StageInv, Setting, Removing
<1>4. PoolInv'
  <2>1. CASE WriteRegister
    BY <1>1, <2>1 DEF WriteRegister, poolVars, hwpVars, IInv, PoolInv
  <2>2. ASSUME NEW w \in Wp, NEW v \in {"off", "client"} \union seen,
               WriteCondition(w, v)
        PROVE  PoolInv'
    BY <1>1, <2>2, WatchpointsAssumption
       DEF WriteCondition, poolVars, MayServeClient, SetReg, IInv, TypeOK, PoolInv
  <2>3. CASE MarkInUse
    BY <1>1, <2>3, WatchpointsAssumption
       DEF MarkInUse, poolVars, regVars, IInv, TypeOK, PoolInv
  <2> QED
    BY <2>1, <2>2, <2>3
<1> QED
  BY <1>2, <1>3, <1>4 DEF IInv

\* The RSP thread sets a hardware matchpoint.
LEMMA SettingStep ==
    ASSUME IInv, TypeOK', Overlap = FALSE,
           \/ \E k \in HardwareKeys : FindWatchpoint(k)
           \/ TakeWatchpoint \/ WriteDvr \/ WriteDcr
           \/ ReadDmr2 \/ WriteDmr2 \/ ReadDmr1 \/ WriteDmr1
    PROVE  IInv'
<1>1. ASSUME NEW k \in HardwareKeys, FindWatchpoint(k)
      PROVE  IInv'
  <2>1. QuietInv'
    BY <1>1
       DEF FindWatchpoint, poolVars, regVars, hwpVars, MayServeHardware, MayServeGdb,
           Unused, IInv, QuietInv
  <2>2. OwnedOnce'
    BY <1>1
       DEF FindWatchpoint, poolVars, regVars, hwpVars, MayServeHardware, MayServeGdb,
           Unused, IInv, OwnedOnce
  <2>3. GrantInv'
    BY <1>1
       DEF FindWatchpoint, poolVars, regVars, hwpVars, MayServeHardware, MayServeGdb,
           Unused, IInv, GrantInv, Setting, Removing
  <2>4. StageInv'
    BY <1>1
       DEF FindWatchpoint, poolVars, regVars, hwpVars, MayServeHardware, MayServeGdb,
           Unused, IInv, StageInv, Setting, Removing
  <2>5. ArmedInv'
    BY <1>1
       DEF FindWatchpoint, poolVars, regVars, hwpVars, MayServeHardware, MayServeGdb,
           Unused, IInv, ArmedInv, Armed
  <2>6. PoolInv'
    BY <1>1
       DEF FindWatchpoint, poolVars, regVars, hwpVars, MayServeHardware, MayServeGdb,
           Unused, IInv, PoolInv
  <2> QED
    BY <2>1, <2>2, <2>3, <2>4, <2>5, <2>6 DEF IInv
<1>2. CASE TakeWatchpoint
  <2>1. QuietInv'
    BY <1>2 DEF TakeWatchpoint, poolVars, regVars, hwpVars, Add, IInv, QuietInv
  <2>2. OwnedOnce'
    BY <1>2, KeyFacts
       DEF TakeWatchpoint, poolVars, regVars, hwpVars, Add, IInv, TypeOK, OwnedOnce,
           GrantInv
  <2>3. GrantInv'
    BY <1>2, KeyFacts
       DEF TakeWatchpoint, poolVars, regVars, hwpVars, Add, IInv, TypeOK, GrantInv,
           Setting, Removing, OwnedOnce
  <2>4. StageInv'
    BY <1>2
       DEF TakeWatchpoint, poolVars, regVars, hwpVars, Add, IInv, StageInv, Setting,
           Removing
  <2>5. ArmedInv'
    BY <1>2 DEF TakeWatchpoint, poolVars, regVars, hwpVars, Add, IInv, ArmedInv, Armed
  <2>6. PoolInv'
    BY <1>2 DEF TakeWatchpoint, poolVars, regVars, hwpVars, Add, IInv, PoolInv
  <2> QED
    BY <2>1, <2>2, <2>3, <2>4, <2>5, <2>6 DEF IInv
<1>3. CASE WriteDvr
  <2>1. QuietInv'
    BY <1>3 DEF WriteDvr, poolVars, SetReg, hwpVars, IInv, QuietInv
  <2>2. OwnedOnce'
    BY <1>3 DEF WriteDvr, poolVars, SetReg, hwpVars, IInv, OwnedOnce
  <2>3. GrantInv'
    BY <1>3 DEF WriteDvr, poolVars, SetReg, hwpVars, IInv, GrantInv, Setting, Removing
  <2>4. StageInv'
    BY <1>3
       DEF WriteDvr, poolVars, SetReg, hwpVars, IInv, TypeOK, StageInv, Setting,
           Removing
  <2>5. ArmedInv'
    BY <1>3, KeyFacts
       DEF WriteDvr, poolVars, SetReg, hwpVars, IInv, TypeOK, ArmedInv, Armed,
           StageInv, GrantInv, Setting, Removing
  <2>6. PoolInv'
    BY <1>3 DEF WriteDvr, poolVars, SetReg, hwpVars, IInv, PoolInv
  <2> QED
    BY <2>1, <2>2, <2>3, <2>4, <2>5, <2>6 DEF IInv
<1>4. CASE WriteDcr
  <2>1. QuietInv'
    BY <1>4 DEF WriteDcr, poolVars, SetReg, hwpVars, IInv, QuietInv
  <2>2. OwnedOnce'
    BY <1>4 DEF WriteDcr, poolVars, SetReg, hwpVars, IInv, OwnedOnce
  <2>3. GrantInv'
    BY <1>4 DEF WriteDcr, poolVars, SetReg, hwpVars, IInv, GrantInv, Setting, Removing
  <2>4. StageInv'
    BY <1>4
       DEF WriteDcr, poolVars, SetReg, hwpVars, IInv, TypeOK, StageInv, Setting,
           Removing
  <2>5. ArmedInv'
    BY <1>4, KeyFacts
       DEF WriteDcr, poolVars, SetReg, hwpVars, IInv, TypeOK, ArmedInv, Armed,
           StageInv, GrantInv, Setting, Removing
  <2>6. PoolInv'
    <3>1. hwp \in Wp /\ key \in HardwareKeys /\ hwp_in_use[hwp] /\ hpc # "mark"
      BY <1>4 DEF WriteDcr, poolVars, IInv, TypeOK, QuietInv, GrantInv, Setting
    <3>2. \A w \in marked \ {hwp} : hwp_in_use[w] <=> Enables(dcr[w])
      BY <1>4, <3>1 DEF WriteDcr, poolVars, IInv, PoolInv
    <3>3. hwp \in Present => dcr'[hwp] = key[1] /\ Enables(key[1])
      BY <1>4, <3>1, KeyFacts DEF WriteDcr, poolVars, SetReg, IInv, TypeOK
    <3>4. \A w \in Present \ {hwp} : dcr'[w] = dcr[w]
      BY <1>4, <3>1, WatchpointsAssumption
         DEF WriteDcr, poolVars, SetReg, IInv, TypeOK
    <3>5. UNCHANGED <<hwp_in_use, marked, hwp, hpc>> /\ marked \subseteq Present
      BY <1>4 DEF WriteDcr, poolVars, hwpVars, IInv, TypeOK
    <3> QED
      BY <3>1, <3>2, <3>3, <3>4, <3>5, Zenon DEF PoolInv
  <2> QED
    BY <2>1, <2>2, <2>3, <2>4, <2>5, <2>6 DEF IInv
<1>5. CASE ReadDmr2
  <2>1. QuietInv'
    BY <1>5 DEF ReadDmr2, poolVars, regVars, hwpVars, IInv, QuietInv
  <2>2. OwnedOnce'
    BY <1>5 DEF ReadDmr2, poolVars, regVars, hwpVars, IInv, OwnedOnce
  <2>3. GrantInv'
    BY <1>5 DEF ReadDmr2, poolVars, regVars, hwpVars, IInv, GrantInv, Setting, Removing
  <2>4. StageInv'
    BY <1>5 DEF ReadDmr2, poolVars, regVars, hwpVars, IInv, StageInv, Setting, Removing
  <2>5. ArmedInv'
    BY <1>5 DEF ReadDmr2, poolVars, regVars, hwpVars, IInv, ArmedInv, Armed
  <2>6. PoolInv'
    BY <1>5 DEF ReadDmr2, poolVars, regVars, hwpVars, IInv, PoolInv
  <2> QED
    BY <2>1, <2>2, <2>3, <2>4, <2>5, <2>6 DEF IInv
<1>6. CASE WriteDmr2
  <2>1. QuietInv'
    BY <1>6 DEF WriteDmr2, poolVars, regVars, hwpVars, IInv, QuietInv
  <2>2. OwnedOnce'
    BY <1>6 DEF WriteDmr2, poolVars, regVars, hwpVars, IInv, OwnedOnce
  <2>3. GrantInv'
    BY <1>6 DEF WriteDmr2, poolVars, regVars, hwpVars, IInv, GrantInv, Setting, Removing
  <2>4. StageInv'
    BY <1>6 DEF WriteDmr2, poolVars, regVars, hwpVars, IInv, StageInv, Setting, Removing
  <2>5. ArmedInv'
    BY <1>6, KeyFacts
       DEF WriteDmr2, poolVars, regVars, hwpVars, IInv, TypeOK, ArmedInv, Armed,
           StageInv, GrantInv, Setting, Removing
  <2>6. PoolInv'
    BY <1>6 DEF WriteDmr2, poolVars, regVars, hwpVars, IInv, PoolInv
  <2> QED
    BY <2>1, <2>2, <2>3, <2>4, <2>5, <2>6 DEF IInv
<1>7. CASE ReadDmr1
  <2>1. QuietInv'
    BY <1>7 DEF ReadDmr1, poolVars, regVars, hwpVars, IInv, QuietInv
  <2>2. OwnedOnce'
    BY <1>7 DEF ReadDmr1, poolVars, regVars, hwpVars, IInv, OwnedOnce
  <2>3. GrantInv'
    BY <1>7 DEF ReadDmr1, poolVars, regVars, hwpVars, IInv, GrantInv, Setting, Removing
  <2>4. StageInv'
    BY <1>7 DEF ReadDmr1, poolVars, regVars, hwpVars, IInv, StageInv, Setting, Removing
  <2>5. ArmedInv'
    BY <1>7 DEF ReadDmr1, poolVars, regVars, hwpVars, IInv, ArmedInv, Armed
  <2>6. PoolInv'
    BY <1>7 DEF ReadDmr1, poolVars, regVars, hwpVars, IInv, PoolInv
  <2> QED
    BY <2>1, <2>2, <2>3, <2>4, <2>5, <2>6 DEF IInv
<1>8. CASE WriteDmr1
  <2>1. QuietInv'
    BY <1>8 DEF WriteDmr1, poolVars, Return, hwpVars, IInv, QuietInv
  <2>2. OwnedOnce'
    BY <1>8 DEF WriteDmr1, poolVars, Return, hwpVars, IInv, OwnedOnce
  <2>3. GrantInv'
    BY <1>8 DEF WriteDmr1, poolVars, Return, hwpVars, IInv, GrantInv, Setting, Removing
  <2>4. StageInv'
    BY <1>8 DEF WriteDmr1, poolVars, Return, hwpVars, IInv, StageInv, Setting, Removing
  <2>5. ArmedInv'
    BY <1>8, KeyFacts
       DEF WriteDmr1, poolVars, Return, hwpVars, IInv, TypeOK, ArmedInv, Armed,
           StageInv, GrantInv, Setting, Removing
  <2>6. PoolInv'
    BY <1>8 DEF WriteDmr1, poolVars, Return, hwpVars, IInv, PoolInv
  <2> QED
    BY <2>1, <2>2, <2>3, <2>4, <2>5, <2>6 DEF IInv
<1> QED
  BY <1>1, <1>2, <1>3, <1>4, <1>5, <1>6, <1>7, <1>8

\* The RSP thread removes a hardware matchpoint.
LEMMA RemovingStep ==
    ASSUME IInv, TypeOK', Overlap = FALSE,
           \/ \E k \in HardwareKeys : RemoveHardware(k)
           \/ ClearDmr2 \/ ClearDcr \/ ReturnWatchpoint
    PROVE  IInv'
<1>1. ASSUME NEW k \in HardwareKeys, RemoveHardware(k)
      PROVE  IInv'
  <2>1. QuietInv'
    BY <1>1
       DEF RemoveHardware, poolVars, regVars, hwpVars, MayServeHardware, MayServeGdb,
           IInv, QuietInv
  <2>2. OwnedOnce'
    BY <1>1
       DEF RemoveHardware, poolVars, regVars, hwpVars, MayServeHardware, MayServeGdb,
           IInv, OwnedOnce
  <2>3. GrantInv'
    BY <1>1, KeyFacts
       DEF RemoveHardware, poolVars, regVars, hwpVars, MayServeHardware, MayServeGdb,
           IInv, TypeOK, GrantInv, Setting, Removing, OwnedOnce
  <2>4. StageInv'
    BY <1>1
       DEF RemoveHardware, poolVars, regVars, hwpVars, MayServeHardware, MayServeGdb,
           IInv, StageInv, Setting, Removing
  <2>5. ArmedInv'
    BY <1>1, KeyFacts, WatchpointsAssumption
       DEF RemoveHardware, poolVars, regVars, hwpVars, MayServeHardware, MayServeGdb,
           IInv, TypeOK, ArmedInv, Armed, StageInv, GrantInv, Setting,
           Removing, OwnedOnce
  <2>6. PoolInv'
    BY <1>1
       DEF RemoveHardware, poolVars, regVars, hwpVars, MayServeHardware, MayServeGdb,
           IInv, PoolInv
  <2> QED
    BY <2>1, <2>2, <2>3, <2>4, <2>5, <2>6 DEF IInv
<1>2. CASE ClearDmr2
  <2>1. QuietInv'
    BY <1>2 DEF ClearDmr2, poolVars, regVars, hwpVars, IInv, QuietInv
  <2>2. OwnedOnce'
    BY <1>2 DEF ClearDmr2, poolVars, regVars, hwpVars, IInv, OwnedOnce
  <2>3. GrantInv'
    BY <1>2 DEF ClearDmr2, poolVars, regVars, hwpVars, IInv, GrantInv, Setting, Removing
  <2>4. StageInv'
    BY <1>2 DEF ClearDmr2, poolVars, regVars, hwpVars, IInv, StageInv, Setting, Removing
  <2>5. ArmedInv'
    BY <1>2, KeyFacts
       DEF ClearDmr2, poolVars, regVars, hwpVars, IInv, TypeOK, ArmedInv, Armed,
           StageInv, GrantInv, Setting, Removing
  <2>6. PoolInv'
    BY <1>2 DEF ClearDmr2, poolVars, regVars, hwpVars, IInv, PoolInv
  <2> QED
    BY <2>1, <2>2, <2>3, <2>4, <2>5, <2>6 DEF IInv
<1>3. CASE ClearDcr
  <2>1. QuietInv'
    BY <1>3 DEF ClearDcr, poolVars, SetReg, hwpVars, IInv, QuietInv
  <2>2. OwnedOnce'
    BY <1>3 DEF ClearDcr, poolVars, SetReg, hwpVars, IInv, OwnedOnce
  <2>3. GrantInv'
    BY <1>3 DEF ClearDcr, poolVars, SetReg, hwpVars, IInv, GrantInv, Setting, Removing
  <2>4. StageInv'
    BY <1>3
       DEF ClearDcr, poolVars, SetReg, hwpVars, IInv, TypeOK, StageInv, Setting,
           Removing
  <2>5. ArmedInv'
    BY <1>3, KeyFacts
       DEF ClearDcr, poolVars, SetReg, hwpVars, IInv, TypeOK, ArmedInv, Armed,
           StageInv, GrantInv, Setting, Removing
  <2>6. PoolInv'
    BY <1>3, KeyFacts
       DEF ClearDcr, poolVars, SetReg, hwpVars, IInv, TypeOK, PoolInv, StageInv,
           GrantInv, Setting, Removing, QuietInv, Enables
  <2> QED
    BY <2>1, <2>2, <2>3, <2>4, <2>5, <2>6 DEF IInv
<1>4. CASE ReturnWatchpoint
  <2>1. QuietInv'
    BY <1>4 DEF ReturnWatchpoint, poolVars, Return, regVars, hwpVars, IInv, QuietInv
  <2>2. OwnedOnce'
    BY <1>4, KeyFacts
       DEF ReturnWatchpoint, poolVars, Return, regVars, hwpVars, IInv, TypeOK,
           OwnedOnce, GrantInv, Removing, Setting
  <2>3. GrantInv'
    BY <1>4
       DEF ReturnWatchpoint, poolVars, Return, regVars, hwpVars, IInv, GrantInv,
           Setting, Removing
  <2>4. StageInv'
    BY <1>4
       DEF ReturnWatchpoint, poolVars, Return, regVars, hwpVars, IInv, StageInv,
           Setting, Removing
  <2>5. ArmedInv'
    BY <1>4, KeyFacts
       DEF ReturnWatchpoint, poolVars, Return, regVars, hwpVars, IInv, TypeOK,
           ArmedInv, Armed, StageInv, GrantInv, Setting, Removing
  <2>6. PoolInv'
    BY <1>4, KeyFacts
       DEF ReturnWatchpoint, poolVars, Return, regVars, hwpVars, IInv, TypeOK,
           PoolInv, StageInv, GrantInv, Setting, Removing, QuietInv,
           Enables
  <2> QED
    BY <2>1, <2>2, <2>3, <2>4, <2>5, <2>6 DEF IInv
<1> QED
  BY <1>1, <1>2, <1>3, <1>4

LEMMA InvariantInit == Init => IInv
<1> SUFFICES ASSUME Init
             PROVE  IInv
  OBVIOUS
<1>1. TypeOK
  BY TypeInit
<1>2. QuietInv /\ GrantInv /\ StageInv
  BY DEF Init, QuietInv, GrantInv, StageInv, Setting, Removing
<1>3. \A k \in HardwareKeys : mp_hash[k] = NoEntry
  BY KeyFacts DEF Init
<1>4. OwnedOnce /\ ArmedInv
  BY <1>3, KeyFacts, WatchpointsAssumption DEF OwnedOnce, ArmedInv
<1>5. PoolInv
  BY WatchpointsAssumption DEF Init, PoolInv, Enables
<1> QED
  BY <1>1, <1>2, <1>4, <1>5 DEF IInv

LEMMA InvariantStep ==
    ASSUME Overlap = FALSE
    PROVE  IInv /\ [Next]_vars => IInv'
<1> SUFFICES ASSUME IInv, [Next]_vars
             PROVE  IInv'
  OBVIOUS
<1>1. TypeOK'
  BY TypeStep DEF IInv
<1> QED
  BY <1>1, HardwareFrame, UntouchedStep, ClientStep, SettingStep, RemovingStep
     DEF IInv

\* If the HWP thread serves its client only while GDB has no hardware
\* matchpoint, IInv holds in every state.
THEOREM InductiveInvariant ==
    ASSUME Overlap = FALSE
    PROVE  Spec => []IInv
BY InvariantInit, InvariantStep, PTL DEF Spec

\* Under the same assumption no watchpoint is ever granted twice.
THEOREM WatchpointsAreOwnedOnce ==
    ASSUME Overlap = FALSE
    PROVE  Spec => []OwnedOnce
<1>1. IInv => OwnedOnce
  BY DEF IInv
<1> QED
  BY <1>1, InductiveInvariant, PTL

\* Under the same assumption the matchpoints GDB has set stay armed.
THEOREM MatchpointsStayArmed ==
    ASSUME Overlap = FALSE
    PROVE  Spec => []MatchpointsAreArmed
<1>1. IInv => MatchpointsAreArmed
  BY DEF IInv, ArmedInv, MatchpointsAreArmed
<1> QED
  BY <1>1, InductiveInvariant, PTL

\* Under the same assumption hwp_in_use[] agrees with the hardware between
\* packets.
THEOREM PoolStaysTrue ==
    ASSUME Overlap = FALSE
    PROVE  Spec => []PoolIsTrue
<1>1. IInv => PoolIsTrue
  BY DEF IInv, PoolInv, PoolIsTrue
<1> QED
  BY <1>1, InductiveInvariant, PTL

-----------------------------------------------------------------------------
(* Nothing is lost as long as GDB repeats no request.                     *)

LEMMA OwnerStep ==
    ASSUME Overlap = FALSE
    PROVE  IInv /\ OwnerInv /\ [Next]_vars => OwnerInv'
<1> SUFFICES ASSUME IInv, OwnerInv, [Next]_vars
             PROVE  OwnerInv'
  OBVIOUS
<1> USE DEF IInv, TypeOK, OwnerInv, Setting, poolVars, regVars, gdbVars, hwpVars,
            clientVars
<1>1. ASSUME NEW a \in Addr,
             InsertMemory(a)
      PROVE  OwnerInv'
  BY <1>1, KeyFacts DEF InsertMemory, rspVars, Add
<1>2. ASSUME NEW a \in Addr,
             RemoveMemory(a)
      PROVE  OwnerInv'
  BY <1>2, KeyFacts DEF RemoveMemory, rspVars
<1>3. ASSUME NEW a \in Addr, NEW instr \in Instrs,
             WriteMemory(a, instr)
      PROVE  OwnerInv'
  BY <1>3 DEF WriteMemory, rspVars
<1>4. ASSUME NEW k \in HardwareKeys,
             FindWatchpoint(k)
      PROVE  OwnerInv'
  BY <1>4
     DEF FindWatchpoint, MayServeHardware, MayServeGdb
<1>5. CASE TakeWatchpoint
  BY <1>5, KeyFacts, WatchpointsAssumption DEF TakeWatchpoint, Add
<1>6. CASE WriteDvr
  BY <1>6 DEF WriteDvr
<1>7. CASE WriteDcr
  BY <1>7 DEF WriteDcr, SetReg
<1>8. CASE ReadDmr2
  BY <1>8 DEF ReadDmr2
<1>9. CASE WriteDmr2
  BY <1>9 DEF WriteDmr2
<1>10. CASE ReadDmr1
  BY <1>10 DEF ReadDmr1
<1>11. CASE WriteDmr1
  BY <1>11 DEF WriteDmr1, Return
<1>12. ASSUME NEW k \in HardwareKeys,
             RemoveHardware(k)
      PROVE  OwnerInv'
  BY <1>12
     DEF RemoveHardware, MayServeHardware, MayServeGdb
<1>13. CASE ClearDmr2
  BY <1>13 DEF ClearDmr2
<1>14. CASE ClearDcr
  BY <1>14, KeyFacts DEF ClearDcr, SetReg
<1>15. CASE ReturnWatchpoint
  BY <1>15 DEF ReturnWatchpoint, Return
<1>16. CASE ResumeOrStop
  BY <1>16 DEF ResumeOrStop, rspVars
<1>17. CASE Asks
  BY <1>17 DEF Asks, rspVars
<1>18. CASE Ends
  BY <1>18 DEF Ends, rspVars
<1>19. ASSUME NEW w \in Wp,
             ReadRegister(w)
      PROVE  OwnerInv'
  BY <1>19, KeyFacts DEF ReadRegister, rspVars, MayServeClient, GdbHasHardware
<1>20. CASE WriteRegister
  BY <1>20 DEF WriteRegister, rspVars
<1>21. ASSUME NEW w \in Wp, NEW v \in {"off", "client"} \union seen,
             WriteCondition(w, v)
      PROVE  OwnerInv'
  BY <1>21, KeyFacts DEF WriteCondition, rspVars, SetReg
<1>22. CASE MarkInUse
  BY <1>22, KeyFacts DEF MarkInUse, rspVars
<1>23. CASE UNCHANGED vars
  BY <1>23 DEF vars, rspVars
<1> QED
  BY <1>1, <1>2, <1>3, <1>4, <1>5, <1>6, <1>7, <1>8, <1>9, <1>10, <1>11,
     <1>12, <1>13, <1>14, <1>15, <1>16, <1>17, <1>18, <1>19, <1>20, <1>21,
     <1>22, <1>23
     DEF Next, RspStep, HwpStep

\* Under the same assumption every watchpoint in use has a user who can give
\* it back, as long as GDB repeats no request.
THEOREM NothingGetsLost ==
    ASSUME Overlap = FALSE
    PROVE  Spec => []NothingIsLostOnce
<1>1. Init => OwnerInv
  BY KeyFacts, WatchpointsAssumption DEF Init, OwnerInv, Setting
<1>2. IInv /\ OwnerInv => NothingIsLostOnce
  BY WatchpointsAssumption
     DEF IInv, TypeOK, PoolInv, OwnerInv, NothingIsLostOnce, Enables, Conditions
<1> QED
  BY <1>1, <1>2, InductiveInvariant, OwnerStep, PTL DEF Spec
=============================================================================
