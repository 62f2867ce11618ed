-------------------------- MODULE StatusMsgProofs ---------------------------
(***************************************************************************)
(* Proofs about StatusMsg, for every duration, any number of messages and  *)
(* any number of spurious wakeups.                                         *)
(***************************************************************************)
EXTENDS StatusMsg, TLAPS

USE StatusAssumption

LEMMA InitOK == Init => IInv
<1> SUFFICES ASSUME Init PROVE IInv
  OBVIOUS
<1>1. TypeOK
  <2>1. late \in BOOLEAN /\ mpc \in MainLabel /\ spc \in HelperLabel
    BY Zenon DEF Init, MainLabel, HelperLabel
  <2>2. /\ status_msg \in 0 .. posted /\ drawn \in 0 .. posted
        /\ left \in 0 .. Dur /\ age \in 0 .. Dur
        /\ posted \in Nat /\ spurious \in Nat
    BY DEF Init
  <2>3. msg_lock \in {"free", "main", "status"}
    BY DEF Init
  <2> QED BY <2>1, <2>2, <2>3 DEF TypeOK
<1>2. LockInv
  BY DEF Init, LockInv
<1> QED BY <1>1, <1>2 DEF Init, IInv, NoLostWakeup, Deadline

\* A step of the main thread preserves the invariant.
LEMMA MainOK == IInv /\ game_loop => IInv'
<1> SUFFICES ASSUME IInv, game_loop PROVE IInv'
  OBVIOUS
<1> USE DEF IInv, TypeOK, LockInv, NoLostWakeup, Deadline, MainLabel,
            HelperLabel, mainVars, timeVars
<1>1. ASSUME NEW from, NEW to \in {"drawing", "incmd", "copy"},
             from \in {"draw", "getcmd", "post"}, MainLock(from, to)
      PROVE  IInv'
  BY <1>1 DEF MainLock
<1>2. CASE DrawLock
  BY <1>1, <1>2 DEF DrawLock
<1>3. CASE DrawUnlock
  BY <1>3 DEF DrawUnlock, MainUnlock
<1>4. CASE CommandLock
  BY <1>1, <1>4 DEF CommandLock
<1>5. CASE CommandUnlock
  BY <1>5 DEF CommandUnlock, MainUnlock
<1>6. CASE CommandQuiet \/ CommandPosts \/ CommandQuits
  BY <1>6 DEF CommandQuiet, CommandPosts, CommandQuits, MainGoto
<1>7. CASE PostLock
  BY <1>1, <1>7 DEF PostLock
<1>8. CASE PostCopy
  BY <1>8 DEF PostCopy
<1>9. CASE PostSignal
  BY <1>9 DEF PostSignal
<1>10. CASE PostUnlock
  BY <1>10 DEF PostUnlock, MainUnlock
<1> QED BY <1>2, <1>3, <1>4, <1>5, <1>6, <1>7, <1>8, <1>9, <1>10 DEF game_loop

\* A step of the helper thread preserves the invariant.
LEMMA HelperOK == IInv /\ (status_thread \/ SpuriousWakeup) => IInv'
<1> SUFFICES ASSUME IInv, status_thread \/ SpuriousWakeup PROVE IInv'
  OBVIOUS
<1> USE DEF IInv, TypeOK, LockInv, NoLostWakeup, Deadline, MainLabel,
            HelperLabel, mainVars, timeVars
<1>1. CASE StartLock \/ WaitRelock
  BY <1>1 DEF StartLock, WaitRelock, HelperLock
<1>2. CASE TimedRelock \/ TimedOutRelock
  BY <1>2 DEF TimedRelock, TimedOutRelock, HelperLock
<1>3. CASE TestMsg
  BY <1>3 DEF TestMsg
<1>4. CASE ArmTimer
  BY <1>4 DEF ArmTimer
<1>5. CASE TimedWait
  BY <1>5 DEF TimedWait
<1>6. CASE TimeOut
  BY <1>6 DEF TimeOut
<1>7. CASE SpuriousWakeup
  BY <1>7 DEF SpuriousWakeup
<1>8. CASE ClearMsg
  BY <1>8 DEF ClearMsg
<1>9. CASE Cancelled
  BY <1>9 DEF Cancelled
<1> QED BY <1>1, <1>2, <1>3, <1>4, <1>5, <1>6, <1>7, <1>8, <1>9
        DEF status_thread

LEMMA NextOK == IInv /\ [Next]_vars => IInv'
<1> SUFFICES ASSUME IInv, [Next]_vars PROVE IInv'
  OBVIOUS
<1>1. CASE game_loop
  BY <1>1, MainOK
<1>2. CASE status_thread \/ SpuriousWakeup
  BY <1>2, HelperOK
<1>3. CASE Tick
  BY <1>3 DEF Tick, IInv, TypeOK, LockInv, NoLostWakeup, Deadline, mainVars
<1>4. CASE UNCHANGED vars
  BY <1>4 DEF vars, IInv, TypeOK, LockInv, NoLostWakeup, Deadline, mainVars,
              timeVars
<1> QED BY <1>1, <1>2, <1>3, <1>4 DEF Next, Ended

LEMMA Inductive == Spec => []IInv
  BY InitOK, NextOK, PTL DEF Spec

\* Type correctness.
THEOREM TypeCorrect == Spec => []TypeOK
<1>1. IInv => TypeOK
  BY DEF IInv
<1> QED BY <1>1, Inductive, PTL

\* show_status, game_loop's drawing and status_thread exclude each other.
THEOREM MutualExclusion == Spec => []LockInv
<1>1. IInv => LockInv
  BY DEF IInv
<1> QED BY <1>1, Inductive, PTL

\* status_thread never waits for a message that is already there.
THEOREM WakeupNotLost == Spec => []NoLostWakeup
<1>1. IInv => NoLostWakeup
  BY DEF IInv
<1> QED BY <1>1, Inductive, PTL

\* The deadline of status_thread belongs to the message in place.
THEOREM DeadlineRight == Spec => []Deadline
<1>1. IInv => Deadline
  BY DEF IInv
<1> QED BY <1>1, Inductive, PTL

\* Only ClearMsg deletes a message, and only an old one or a late one.
LEMMA ClearStep ==
  IInv /\ [Next]_vars
    => [status_msg # 0 /\ status_msg' = 0 => age = Dur \/ late]_vars
<1> SUFFICES ASSUME IInv, Next, status_msg # 0, status_msg' = 0
             PROVE  age = Dur \/ late
  BY DEF vars
<1>1. CASE game_loop
  <2>1. posted \in Nat
    BY DEF IInv, TypeOK
  <2> QED
    BY <1>1, <2>1 DEF game_loop, DrawLock, DrawUnlock, CommandLock, CommandUnlock,
      CommandQuiet, CommandPosts, CommandQuits, PostLock, PostCopy, PostSignal,
      PostUnlock, MainLock, MainUnlock, MainGoto
<1>2. CASE ClearMsg
  BY <1>2 DEF ClearMsg, IInv, Deadline, LockInv
<1>3. CASE status_msg' = status_msg
  BY <1>3
<1> QED
  BY <1>1, <1>2, <1>3 DEF Next, status_thread, SpuriousWakeup, Tick, Ended, vars,
    StartLock, WaitRelock, TimedRelock, TimedOutRelock, HelperLock, TestMsg,
    ArmTimer, TimedWait, TimeOut, Cancelled

\* status_thread deletes a message only after it has been in place for its
\* 1.5 seconds, except in the one race that ClearOnlyOld names.
THEOREM MessagesShown == Spec => ClearOnlyOld
  BY Inductive, ClearStep, PTL DEF Spec, ClearOnlyOld
=============================================================================
