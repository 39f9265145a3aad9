-------------------------- MODULE RspRequestsProofs ---------------------------
(***************************************************************************)
(* Proofs about the registers as GDB sees them: type correctness, that     *)
(* values read are true whatever fails, and, where accesses succeed and    *)
(* the NPC is written by set_npc() only, that its copy makes up for the    *)
(* CPU, that GDB finds it where the CPU stopped, and that the signal it is *)
(* told belongs to this stop.                                              *)
(***************************************************************************)
EXTENDS RspRequests, TLAPS

-----------------------------------------------------------------------------
(* Words.                                                                  *)

LEMMA AfterIsWord == ASSUME NEW p \in Words PROVE After(p) \in Words
  <1> DEFINE n == Base * Base
  <1>1. n \in Nat \ {0}
    BY RequestAssumption
  <1> HIDE DEF n
  <1>2. \A q \in 0..(n - 1) : (q + 1) % n \in 0..(n - 1)
    BY <1>1
  <1> QED
    BY <1>2 DEF After, Words, n

LEMMA ShiftedIsWord ==
    ASSUME NEW w \in Words, NEW b \in Nat
    PROVE  Shifted(w, b) \in Words
  <1>1. Base \in Nat \ {0} /\ w \in Nat /\ w <= Base * Base - 1
    BY RequestAssumption DEF Words
  <1>2. b % Base \in 0..(Base - 1)
    BY <1>1
  <1>3. w \div Base \in 0..(Base - 1)
    <2> DEFINE q == w \div Base
               r == w % Base
    <2>1. q \in Nat /\ r \in 0..(Base - 1) /\ w = Base * q + r
      BY <1>1
    <2> HIDE DEF q, r
    <2>2. CASE q >= Base
      <3>1. PICK d \in Nat : q = Base + d
        <4>1. q - Base \in Nat /\ q = Base + (q - Base)
          BY <1>1, <2>1, <2>2
        <4> QED
          BY <4>1
      <3>2. Base * q = Base * Base + Base * d /\ Base * d \in Nat
        BY <1>1, <3>1
      <3> QED
        BY <1>1, <2>1, <3>2
    <2> QED
      BY <1>1, <2>1, <2>2 DEF q
  <1>4. (b % Base) * Base <= (Base - 1) * Base
    BY <1>1, <1>2
  <1>5. (Base - 1) * Base = Base * Base - Base /\ (b % Base) * Base \in Nat
    BY <1>1, <1>2
  <1> QED
    BY <1>1, <1>3, <1>4, <1>5 DEF Shifted, Words

LEMMA SignalIsKnown ==
    ASSUME NEW word \in Drrs, NEW before \in {"NONE", "TRAP", "ILL"}
    PROVE  SignalOf(word, before) \in {"NONE", "TRAP", "ILL"}
  BY DEF SignalOf

LEMMA ZeroIsWord == 0 \in Words /\ StartAddr \in Words /\ Breakpoints \subseteq Words
  <1>1. Base * Base - 1 \in Nat
    BY RequestAssumption
  <1> QED
    BY <1>1, RequestAssumption DEF Words, StartAddr

-----------------------------------------------------------------------------
(* Types.                                                                  *)

LEMMA InitTypes == Init => TypeOK
  BY AfterIsWord, ZeroIsWord, RequestAssumption DEF Init, TypeOK, Words, Drrs, Causes

LEMMA NextTypes == TypeOK /\ [Next]_vars => TypeOK'
  <1> SUFFICES ASSUME TypeOK, [Next]_vars PROVE TypeOK'
    OBVIOUS
  <1>0. undisturbed' \in BOOLEAN
    BY RequestAssumption DEF Next, vars, TypeOK, Outcomes
  <1> USE ZeroIsWord, <1>0
  <1>1. ASSUME NEW ok \in BOOLEAN, NEW reg \in Registers,
               ReadReg(reg, ok) \/ ReadAll(reg, ok, TRUE) \/ ReadAll(reg, ok, FALSE)
                 \/ ReadSpr(reg, ok)
        PROVE  TypeOK'
    BY <1>1 DEF TypeOK, ReadReg, ReadAll, ReadSpr, cpuVars, rspVars
  <1>2. ASSUME NEW ok \in BOOLEAN, NEW reg \in Registers, NEW v \in Words,
               WriteReg(reg, v, ok)
        PROVE  TypeOK'
    BY <1>2 DEF TypeOK, WriteReg, SetNpc
  <1>3. ASSUME NEW ok1 \in BOOLEAN, NEW ok2 \in BOOLEAN,
               NEW v \in Words, NEW at \in Words, NEW a \in Words,
               WriteAll(v, at, a, ok1, ok2)
        PROVE  TypeOK'
    <2>1. Base - 1 \in Nat /\ at \in Nat /\ Words \subseteq Nat
      BY RequestAssumption DEF Words
    <2>2. Shifted(v, Base - 1) \in Words /\ Shifted(a, at) \in Words
      BY <2>1, ShiftedIsWord
    <2>3. \A before \in 0..(Base - 1) : Shifted(at, before) \in Words
      BY <2>1, ShiftedIsWord
    <2> QED
      BY <1>3, <2>2, <2>3 DEF TypeOK, WriteAll, rspVars
  <1>4. ASSUME NEW ok \in BOOLEAN, Restart(ok) PROVE TypeOK'
    BY <1>4 DEF TypeOK, Restart, SetNpc
  <1>5. ASSUME NEW ok \in BOOLEAN, NEW reg \in Registers, NEW a \in Words,
               WriteSpr(reg, a, ok)
        PROVE  TypeOK'
    BY <1>5 DEF TypeOK, WriteSpr, rspVars
  <1>6. ASSUME NEW ok \in BOOLEAN, Continue(ok) \/ Step(ok) PROVE TypeOK'
    BY <1>6 DEF TypeOK, Continue, Step, Resumes, ClearCause, ReadWord, Drrs
  <1>7. ASSUME NEW ok \in BOOLEAN, NEW a \in Words, ContinueFrom(a, ok) PROVE TypeOK'
    BY <1>7 DEF TypeOK, ContinueFrom, Resumes, ClearCause, ReadWord, Drrs
  <1>8. ASSUME NEW ok \in BOOLEAN, Halted(ok) PROVE TypeOK'
    <2>1. PICK word \in ReadWord(ok, drr, Drrs) : sigval' = SignalOf(word, sigval)
      BY <1>8 DEF Halted
    <2>2. sigval' \in {"NONE", "TRAP", "ILL"}
      BY <2>1, SignalIsKnown DEF ReadWord, TypeOK
    <2>3. npc' \in Words /\ cached_npc' \in Words
            /\ hidden' \in BOOLEAN /\ use_cached_npc' \in BOOLEAN
      BY <1>8 DEF Halted, TypeOK, SetNpc, ReadWord
    <2> QED
      BY <1>8, <2>2, <2>3 DEF Halted, TypeOK
  <1>9. CASE Detach \/ Connect
    BY <1>9 DEF TypeOK, Detach, Connect, cpuVars
  <1>10. ASSUME NEW why \in Causes, NEW p \in Words, CpuStops(why, p) PROVE TypeOK'
    BY <1>10, AfterIsWord DEF TypeOK, CpuStops, Causes, Drrs, rspVars
  <1>11. CASE UNCHANGED vars
    BY <1>11 DEF TypeOK, vars, cpuVars, rspVars
  <1>12. Outcomes \subseteq BOOLEAN
    BY RequestAssumption DEF Outcomes
  <1> QED
    BY <1>1, <1>2, <1>3, <1>4, <1>5, <1>6, <1>7, <1>8, <1>9, <1>10, <1>11, <1>12
    DEF Next, Request, Disturbs, Registers

\* Types, for every width of a word and every set of requests.
THEOREM TypeCorrect == Spec => []TypeOK
  BY InitTypes, NextTypes, PTL DEF Spec

-----------------------------------------------------------------------------
(* Values read, whatever fails.                                            *)

\* Whichever accesses fail, and whatever was done before, "OK" to the write of a
\* single register and the values of general registers and the PPC are true, save
\* an answer to a qRcmd whose own access failed.
THEOREM AnswersStayTrue == Spec => []AnswersAreTrue
  <1>1. Init => AnswersAreTrue
    BY DEF Init, Answer, AnswersAreTrue
  <1>2. AnswersAreTrue /\ [Next]_vars => AnswersAreTrue'
    <2> SUFFICES ASSUME AnswersAreTrue, [Next]_vars PROVE AnswersAreTrue'
      OBVIOUS
    <2> USE DEF AnswersAreTrue, Answer, Told, ToldError, ToldNothing, Register
    <2>1. ASSUME NEW ok \in BOOLEAN, NEW ok2 \in BOOLEAN, NEW reg \in Registers,
                 ReadReg(reg, ok) \/ ReadAll(reg, ok, ok2)
          PROVE  AnswersAreTrue'
      BY <2>1 DEF ReadReg, ReadAll, Content, Registers, cpuVars
    <2>11. ASSUME NEW ok \in BOOLEAN, NEW reg \in Registers, ReadSpr(reg, ok)
           PROVE  AnswersAreTrue'
      <3>1. PICK word \in ReadWord(ok, Content(reg), Words) :
               answer' = Answer("spr", reg, word, ~ok)
        BY <2>11 DEF ReadSpr
      <3>2. UNCHANGED <<gpr, ppc>>
        BY <2>11 DEF ReadSpr, cpuVars
      <3>3. CASE ok
        <4>1. word = Content(reg)
          BY <3>3 DEF ReadWord
        <4> QED
          BY <3>1, <3>2, <4>1 DEF Content, Registers
      <3>4. CASE ~ok
        BY <3>1, <3>4
      <3> QED
        BY <3>3, <3>4
    <2>2. ASSUME NEW ok \in BOOLEAN, NEW reg \in Registers, NEW v \in Words,
                 WriteReg(reg, v, ok)
          PROVE  AnswersAreTrue'
      <3>1. CASE reg = "npc" /\ ok
        BY <2>2, <3>1 DEF WriteReg, SetNpc
      <3>2. CASE reg # "npc" /\ ok
        BY <2>2, <3>2 DEF WriteReg, Registers
      <3>3. CASE ~ok
        BY <2>2, <3>3 DEF WriteReg
      <3> QED
        BY <3>1, <3>2, <3>3
    <2>3. ASSUME NEW ok1 \in BOOLEAN, NEW ok2 \in BOOLEAN,
                 NEW v \in Words, NEW at \in Words, NEW a \in Words,
                 WriteAll(v, at, a, ok1, ok2)
          PROVE  AnswersAreTrue'
      BY <2>3 DEF WriteAll
    <2>4. ASSUME NEW ok \in BOOLEAN, NEW a \in Words,
                 Restart(ok) \/ Continue(ok) \/ Step(ok) \/ ContinueFrom(a, ok)
          PROVE  AnswersAreTrue'
      BY <2>4 DEF Restart, Continue, Step, ContinueFrom, Resumes
    <2>10. ASSUME NEW ok \in BOOLEAN, NEW reg \in Registers, NEW a \in Words,
                  WriteSpr(reg, a, ok)
           PROVE  AnswersAreTrue'
      BY <2>10 DEF WriteSpr, Registers
    <2>5. ASSUME NEW ok \in BOOLEAN, Halted(ok) PROVE AnswersAreTrue'
      BY <2>5 DEF Halted
    <2>6. CASE Detach \/ Connect
      BY <2>6 DEF Detach, Connect
    <2>7. ASSUME NEW why \in Causes, NEW p \in Words, CpuStops(why, p)
          PROVE  AnswersAreTrue'
      BY <2>7 DEF CpuStops
    <2>8. CASE UNCHANGED vars
      BY <2>8 DEF vars, cpuVars
    <2>9. Outcomes \subseteq BOOLEAN
      BY RequestAssumption DEF Outcomes
    <2> QED
      BY <2>1, <2>2, <2>3, <2>4, <2>5, <2>6, <2>7, <2>8, <2>9, <2>10, <2>11,
         ZeroIsWord
      DEF Next, Request, Disturbs, Registers
  <1> QED
    BY <1>1, <1>2, PTL DEF Spec

-----------------------------------------------------------------------------
(* The copy of the NPC, and the cause of a stop.                           *)

\* The copy is right and, while the CPU stands and shows 0, in use; it is out
\* of use from the resume on.
CopyIsKept ==
    /\ use_cached_npc => cached_npc = npc
    /\ cpu = "stopped" /\ hidden => use_cached_npc
    /\ cpu # "stopped" => ~use_cached_npc
    /\ cpu = "stopping" => ~hidden

\* What the CPU shows of a stop is of this stop: the resume has cleared it.
CauseIsShown ==
    /\ cpu \in {"running", "stepping"} => drr = "none" /\ ~wbs
    /\ cpu = "stopping" =>
          /\ npc = After(ppc)
          /\ cause = "memory" <=> ppc \in Breakpoints
          /\ cause = "hardware" <=> wbs
          /\ cause \in {"memory", "hardware"} => drr = "trap"
          /\ cause \in {"illegal", "several"} => drr = cause
          /\ cause \in {"break", "step"} => drr = "none"

\* What GDB is told of stops, all of it.
StopsHeard == NpcIsTrue /\ NpcAfterStop /\ SignalIsTrue

\* All of this until something disturbs it.
Kept == undisturbed => CopyIsKept /\ CauseIsShown /\ StopsHeard

IInv == TypeOK /\ Kept

LEMMA NextKeeps ==
    ASSUME TypeOK, CopyIsKept, CauseIsShown, StopsHeard, [Next]_vars, undisturbed'
    PROVE  CopyIsKept' /\ CauseIsShown' /\ StopsHeard'
  <1> USE DEF Answer, Told, ToldError, ToldNothing, Stopped, StopsHeard
  <1>1. ASSUME NEW reg \in Registers, ReadReg(reg, TRUE) \/ ReadAll(reg, TRUE, TRUE)
        PROVE  CopyIsKept' /\ CauseIsShown' /\ StopsHeard'
    <2>1. UNCHANGED <<cpuVars, rspVars>>
      BY <1>1 DEF ReadReg, ReadAll
    <2>2. CopyIsKept' /\ CauseIsShown'
      BY <2>1 DEF CopyIsKept, CauseIsShown, cpuVars, rspVars
    <2>3. NpcIsTrue'
      BY <1>1, <2>1
      DEF ReadReg, ReadAll, NpcIsTrue, CopyIsKept, Content, Registers, cpuVars
    <2>4. answer'.kind = "value"
      BY <1>1 DEF ReadReg, ReadAll
    <2> QED
      BY <2>2, <2>3, <2>4 DEF NpcAfterStop, SignalIsTrue
  <1>2. ASSUME NEW reg \in Registers, NEW v \in Words, WriteReg(reg, v, TRUE)
        PROVE  CopyIsKept' /\ CauseIsShown' /\ StopsHeard'
    BY <1>2 DEF WriteReg, SetNpc, CopyIsKept, CauseIsShown, NpcIsTrue, NpcAfterStop,
                SignalIsTrue
  <1>3. CASE Restart(TRUE)
    BY <1>3 DEF Restart, SetNpc, CopyIsKept, CauseIsShown, NpcIsTrue, NpcAfterStop,
                SignalIsTrue
  <1>4. ASSUME NEW a \in Words, Continue(TRUE) \/ Step(TRUE) \/ ContinueFrom(a, TRUE)
        PROVE  CopyIsKept' /\ CauseIsShown' /\ StopsHeard'
    <2>1. Resumes("running", TRUE) \/ Resumes("stepping", TRUE)
      BY <1>4 DEF Continue, Step, ContinueFrom
    <2>2. drr' = "none" /\ use_cached_npc' = FALSE /\ cpu' \in {"running", "stepping"}
      BY <2>1 DEF Resumes, ClearCause
    <2>3. ~wbs'
      <3>1. PICK hit \in {wbs} : wbs' = (wbs /\ ~(hit /\ TRUE))
        BY <2>1, Zenon DEF Resumes, ClearCause, ReadWord
      <3>2. hit = wbs
        OBVIOUS
      <3>3. CASE wbs
        BY <3>1, <3>2, <3>3
      <3>4. CASE ~wbs
        BY <3>1, <3>4
      <3> QED
        BY <3>3, <3>4
    <2>4. answer'.kind = "none"
      <3>1. ToldNothing
        BY <2>1, Zenon DEF Resumes
      <3> QED
        BY <3>1
    <2> QED
      BY <2>2, <2>3, <2>4 DEF CopyIsKept, CauseIsShown, NpcIsTrue, NpcAfterStop, SignalIsTrue
  <1>5. CASE Halted(TRUE)
    <2>1. /\ cpu = "stopping" /\ cpu' = "stopped"
          /\ sigval' = SignalOf(drr, sigval)
          /\ IF client_waiting /\ sigval' = "TRAP" /\ (ppc \in Breakpoints \/ wbs)
             THEN SetNpc(ppc, TRUE)
             ELSE UNCHANGED <<npc, hidden, use_cached_npc, cached_npc>>
          /\ IF client_waiting THEN Told("stop", sigval', 0) ELSE ToldNothing
          /\ UNCHANGED <<ppc, drr, wbs, cause>>
      <3>1. PICK at \in {ppc}, hit \in {wbs} :
               IF client_waiting /\ sigval' = "TRAP" /\ (at \in Breakpoints \/ hit)
               THEN SetNpc(at, TRUE)
               ELSE UNCHANGED <<npc, hidden, use_cached_npc, cached_npc>>
        BY <1>5, Zenon DEF Halted, ReadWord
      <3>2. IF client_waiting /\ sigval' = "TRAP" /\ (ppc \in Breakpoints \/ wbs)
            THEN SetNpc(ppc, TRUE)
            ELSE UNCHANGED <<npc, hidden, use_cached_npc, cached_npc>>
        <4>1. at = ppc /\ hit = wbs
          OBVIOUS
        <4> QED
          BY <3>1, <4>1
      <3> QED
        BY <1>5, <3>2 DEF Halted, ReadWord
    <2>2. CopyIsKept' /\ CauseIsShown'
      BY <2>1 DEF SetNpc, CopyIsKept, CauseIsShown
    <2>3. NpcIsTrue'
      BY <2>1 DEF NpcIsTrue
    <2>4. cause # "several" =>
            sigval' = IF cause = "illegal" THEN "ILL" ELSE "TRAP"
      BY <2>1 DEF CauseIsShown, SignalOf, TypeOK, Causes
    <2>5. SignalIsTrue'
      BY <2>1, <2>4 DEF SignalIsTrue
    <2>6. client_waiting =>
            npc' = IF cause \in {"memory", "hardware"} THEN ppc ELSE After(ppc)
      <3>1. cause \in {"memory", "hardware"} <=> ppc \in Breakpoints \/ wbs
        BY <2>1 DEF CauseIsShown
      <3>2. cause \in {"memory", "hardware"} => sigval' = "TRAP"
        BY <2>4
      <3> QED
        BY <2>1, <3>1, <3>2 DEF SetNpc, CauseIsShown
    <2>7. NpcAfterStop'
      BY <2>1, <2>6 DEF NpcAfterStop, After
    <2> QED
      BY <2>2, <2>3, <2>5, <2>7
  <1>6. ASSUME NEW why \in Causes, NEW p \in Words, CpuStops(why, p)
        PROVE  CopyIsKept' /\ CauseIsShown' /\ StopsHeard'
    <2>1. cpu \in {"running", "stepping"} /\ cpu' = "stopping" /\ ~hidden'
      BY <1>6 DEF CpuStops
    <2>2. UNCHANGED <<use_cached_npc, cached_npc>> /\ answer'.kind = "none"
      BY <1>6 DEF CpuStops, rspVars
    <2>3. CopyIsKept'
      BY <2>1, <2>2 DEF CopyIsKept
    <2>4. drr = "none" /\ ~wbs
      BY <2>1 DEF CauseIsShown
    <2>5. npc' = After(ppc')
      BY <1>6 DEF CpuStops, After
    <2>6. CauseIsShown'
      BY <1>6, <2>1, <2>4, <2>5 DEF CauseIsShown, CpuStops, Causes, TypeOK
    <2> QED
      BY <2>2, <2>3, <2>6 DEF NpcIsTrue, NpcAfterStop, SignalIsTrue
  <1>7. CASE UNCHANGED vars
    BY <1>7
    DEF vars, cpuVars, rspVars, CopyIsKept, CauseIsShown, NpcIsTrue, NpcAfterStop,
        SignalIsTrue, After
  <1>8. CASE Connect
    BY <1>8 DEF Connect, cpuVars, CopyIsKept, CauseIsShown, NpcIsTrue, NpcAfterStop,
                SignalIsTrue
  <1>9. ASSUME NEW reg \in Registers, ReadSpr(reg, TRUE)
        PROVE  CopyIsKept' /\ CauseIsShown' /\ StopsHeard'
    <2>1. UNCHANGED <<cpuVars, rspVars>>
      BY <1>9 DEF ReadSpr
    <2>2. PICK word : answer' = Answer("spr", reg, word, FALSE)
      BY <1>9 DEF ReadSpr
    <2>3. answer'.kind = "spr"
      BY <2>2
    <2> QED
      BY <2>1, <2>3
      DEF CopyIsKept, CauseIsShown, cpuVars, rspVars, NpcIsTrue, NpcAfterStop,
          SignalIsTrue
  <1>12. ASSUME NEW reg \in {"gpr", "ppc"}, NEW v \in Words, WriteSpr(reg, v, TRUE)
         PROVE  CopyIsKept' /\ CauseIsShown' /\ StopsHeard'
    <2>1. UNCHANGED <<npc, drr, wbs, cpu, cause, rspVars>> /\ cpu = "stopped"
      BY <1>12 DEF WriteSpr
    <2>2. answer'.kind = "OK"
      BY <1>12 DEF WriteSpr
    <2>3. hidden' = hidden
      BY <1>12, Zenon DEF WriteSpr, TypeOK
    <2> QED
      BY <2>1, <2>2, <2>3 DEF CopyIsKept, CauseIsShown, rspVars, NpcIsTrue,
                              NpcAfterStop, SignalIsTrue
  <1>10. CASE \E ok \in Outcomes : /\ Request(ok) \/ Halted(ok)
                                  /\ undisturbed' = (undisturbed /\ ok)
    <2>1. PICK ok \in Outcomes : /\ Request(ok) \/ Halted(ok)
                                /\ undisturbed' = (undisturbed /\ ok)
      BY <1>10
    <2>2. ok = TRUE
      BY <2>1 DEF Outcomes
    <2>3. Request(TRUE) \/ Halted(TRUE)
      BY <2>1, <2>2
    <2> QED
      BY <2>3, <1>1, <1>2, <1>3, <1>4, <1>5, <1>9, <1>12, ZeroIsWord DEF Request
  <1>11. CASE \E ok1, ok2 \in Outcomes, reg \in Registers :
                /\ ReadAll(reg, ok1, ok2)
                /\ undisturbed' = (undisturbed /\ ok1 /\ ok2)
    <2>1. PICK ok1 \in Outcomes, ok2 \in Outcomes, reg \in Registers :
                /\ ReadAll(reg, ok1, ok2)
                /\ undisturbed' = (undisturbed /\ ok1 /\ ok2)
      BY <1>11
    <2>2. ok1 = TRUE /\ ok2 = TRUE
      BY <2>1 DEF Outcomes
    <2>3. ReadAll(reg, TRUE, TRUE)
      BY <2>1, <2>2
    <2> QED
      BY <1>1, <2>3
  <1> QED
    BY <1>6, <1>7, <1>8, <1>10, <1>11 DEF Next

LEMMA Invariance == Spec => []IInv
  <1>1. Init => IInv
    BY InitTypes
    DEF Init, Answer, IInv, Kept, CopyIsKept, CauseIsShown, StopsHeard, NpcIsTrue,
        NpcAfterStop, SignalIsTrue
  <1>2. IInv /\ [Next]_vars => IInv'
    <2> SUFFICES ASSUME IInv, [Next]_vars, undisturbed'
                 PROVE  CopyIsKept' /\ CauseIsShown' /\ StopsHeard'
      BY NextTypes DEF IInv, Kept
    <2>1. undisturbed
      BY DEF Next, vars, IInv, TypeOK
    <2> QED
      BY <2>1, NextKeeps DEF IInv, Kept
  <1> QED
    BY <1>1, <1>2, PTL DEF Spec

-----------------------------------------------------------------------------
\* For any words, breakpoints, requests and failures, as long as accesses succeed and
\* set_npc() alone writes the NPC: the NPC that GDB reads is where the CPU will go on.
THEOREM NpcStaysTrue == Spec => [](undisturbed => NpcIsTrue)
  <1>1. IInv => (undisturbed => NpcIsTrue)
    BY DEF IInv, Kept, StopsHeard
  <1> QED
    BY <1>1, Invariance, PTL

\* As long as that is so, after a stop at a breakpoint of either kind the NPC is the
\* breakpoint's address.
THEOREM StopsAtBreakpoint == Spec => [](undisturbed => NpcAfterStop)
  <1>1. IInv => (undisturbed => NpcAfterStop)
    BY DEF IInv, Kept, StopsHeard
  <1> QED
    BY <1>1, Invariance, PTL

\* As long as that is so, the signal GDB is told is the cause of this stop.
THEOREM SignalStaysTrue == Spec => [](undisturbed => SignalIsTrue)
  <1>1. IInv => (undisturbed => SignalIsTrue)
    BY DEF IInv, Kept, StopsHeard
  <1> QED
    BY <1>1, Invariance, PTL

\* All that GDB is told of stops is true as long as accesses succeed and set_npc()
\* alone writes the NPC, whatever words, breakpoints and requests there are.
THEOREM StopsAreTrue == Spec => []StopsAreTold
  <1>1. IInv => StopsAreTold
    BY DEF IInv, Kept, StopsHeard, StopsAreTold
  <1> QED
    BY <1>1, Invariance, PTL

\* Whatever fails and whatever GDB does, p, P and g tell it of failures, answers to
\* qRcmd are true unless its own access failed, and signals and addresses exist.
THEOREM FailuresStayTold == Spec => []FailuresAreTold
  BY TypeCorrect, AnswersStayTrue, PTL DEF FailuresAreTold
=============================================================================
