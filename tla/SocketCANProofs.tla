-------------------------- MODULE SocketCANProofs --------------------------
(***************************************************************************)
(* SocketCAN for every set of descriptors, buffer size and number of       *)
(* frames: no descriptor is leaked or mistaken, read() cannot block, and   *)
(* frames are delivered as CanChannel promises.                            *)
(***************************************************************************)
EXTENDS SocketCAN, SequenceTheorems, TLAPS

(* How far an initialisation or a cleanup has come, in the members. *)
StageInv ==
  /\ pc \in {"idle", "close_epoll", "close_socket"} \/ pc \in InitStage \/ pc \in ReadStage
  /\ then \in {"idle", "socket"}
  /\ pc = "idle" /\ ~initialized => socket_fd = NONE /\ epoll_fd = NONE
  /\ pc = "socket" => socket_fd = NONE /\ epoll_fd = NONE
  /\ pc \in InitStage \ {"socket"} => socket_fd # NONE
  /\ pc \in InitStage \ {"epoll_ctl"} => epoll_fd = NONE
  /\ pc = "epoll_ctl" => epoll_fd # NONE
  /\ pc \in InitStage => ~initialized
  /\ pc \in {"getfl", "setfl", "epoll_create", "epoll_ctl"} => bound
  /\ pc \in {"epoll_create", "epoll_ctl"} => nonblocking
  /\ pc = "close_socket" => epoll_fd = NONE

(* A descriptor is a socket, or an epoll, exactly if a member names it. *)
OwnerInv ==
  /\ socket_fd \in Fd \cup {NONE} /\ epoll_fd \in Fd \cup {NONE}
  /\ \A fd \in Fd : owner[fd] = "socket" <=> fd = socket_fd
  /\ \A fd \in Fd : owner[fd] = "epoll" <=> fd = epoll_fd
  /\ owner \in [Fd -> {"free", "socket", "epoll", "other"}]

(* The socket's attributes are those of a socket there is. *)
SocketInv ==
  /\ ~bound => queue = <<>>
  /\ bound => socket_fd # NONE
  /\ pc # "drain" => frames = <<>>

IInv == StageInv /\ OwnerInv /\ SocketInv /\ ReadyToRead

(* The sequences, apart. *)
SeqInv ==
  /\ queue \in Seq(Frame) /\ frames \in Seq(Frame) /\ delivered \in Seq(Frame)
  /\ heard \in 0..MaxFrames

BoolInv ==
  /\ initialized \in BOOLEAN
  /\ nonblocking \in BOOLEAN /\ bound \in BOOLEAN /\ registered \in BOOLEAN

-----------------------------------------------------------------------------
(* Types. *)
LEMMA NextBool == BoolInv /\ [Next]_vars => BoolInv'
  <1> SUFFICES ASSUME BoolInv, [Next]_vars PROVE BoolInv'
    OBVIOUS
  <1> USE DEF BoolInv
  <1>1. CASE Initializing
    BY <1>1, Zenon
    DEF Initializing, CallInit, CallReset, CallClose, SocketCall, IoctlIndex, BindCall, FcntlGet,
        FcntlSet, EpollCreate, EpollAdd, CallFails, CloseEpoll, CloseSocket, memberVars, kernelVars
  <1>2. CASE Reading
    BY <1>2, Zenon
    DEF Reading, CallRead, WaitReturns, WaitReady, DrainFrame, DrainShort, ReadDrained, ReadFails,
        memberVars, kernelVars
  <1>3. CASE Environment \/ UNCHANGED vars
    BY <1>3, Zenon
    DEF Environment, OtherOpens, OtherCloses, FrameArrives, vars, memberVars, kernelVars
  <1> QED BY <1>1, <1>2, <1>3 DEF Next

LEMMA NextSeq == SeqInv /\ [Next]_vars => SeqInv'
  <1> SUFFICES ASSUME SeqInv, [Next]_vars PROVE SeqInv'
    OBVIOUS
  <1> USE DEF SeqInv
  <1>0. Frame' = Frame
    BY DEF Frame
  <1>7. <<>> \in Seq(Frame)
    OBVIOUS
  <1>1. CASE Initializing
    BY <1>0, <1>1, <1>7
    DEF Initializing, CallInit, CallReset, CallClose, SocketCall, IoctlIndex, BindCall, FcntlGet,
        FcntlSet, EpollCreate, EpollAdd, CallFails, CloseEpoll, CloseSocket, kernelVars, busVars
  <1>2. CASE CallRead \/ WaitReturns \/ WaitReady
    BY <1>0, <1>2, <1>7 DEF CallRead, WaitReturns, WaitReady, kernelVars, busVars
  <1>3. CASE DrainFrame \/ DrainShort
    <2>1. Head(queue) \in Frame /\ Tail(queue) \in Seq(Frame)
      BY <1>3 DEF DrainFrame, DrainShort
    <2>2. Append(frames, Head(queue)) \in Seq(Frame)
      BY <2>1, AppendProperties
    <2> QED BY <1>0, <1>3, <2>1, <2>2 DEF DrainFrame, DrainShort, busVars
  <1>4. CASE ReadDrained \/ ReadFails
    <2>1. delivered \o frames \in Seq(Frame)
      BY ConcatProperties
    <2> QED BY <1>0, <1>4, <1>7, <2>1 DEF ReadDrained, ReadFails, kernelVars
  <1>5. CASE OtherOpens \/ OtherCloses \/ UNCHANGED vars
    BY <1>0, <1>5 DEF OtherOpens, OtherCloses, vars, kernelVars, busVars
  <1>6. CASE FrameArrives
    <2>1. heard + 1 \in Frame /\ heard + 1 \in 0..MaxFrames
      BY <1>6, QueueAssumption DEF FrameArrives, Frame
    <2>2. Append(queue, heard + 1) \in Seq(Frame)
      BY <2>1
    <2> QED BY <1>0, <1>6, <2>1, <2>2 DEF FrameArrives
  <1> QED
    BY <1>1, <1>2, <1>3, <1>4, <1>5, <1>6 DEF Next, Reading, Environment

-----------------------------------------------------------------------------
(* The members and the stages: one step for each group of system calls.    *)
LEMMA InitStageInv == IInv /\ (CallInit \/ CallReset \/ CallClose \/ CallFails) => IInv'
  BY DEF IInv, StageInv, OwnerInv, SocketInv, ReadyToRead, InitStage, CleanupStage, ReadStage,
         CallInit, CallReset, CallClose, CallFails, memberVars, kernelVars

LEMMA SocketCallInv == IInv /\ SocketCall => IInv'
  <1> SUFFICES ASSUME IInv, SocketCall PROVE IInv'
    OBVIOUS
  <1> USE DEF IInv, SocketCall, memberVars, kernelVars
  <1>1. OwnerInv'
    BY FdAssumption DEF OwnerInv, StageInv, Free, NONE
  <1>2. StageInv' /\ SocketInv' /\ ReadyToRead'
    BY FdAssumption
    DEF StageInv, SocketInv, ReadyToRead, InitStage, CleanupStage, ReadStage, NONE
  <1> QED BY <1>1, <1>2

LEMMA SocketSetupInv == IInv /\ (IoctlIndex \/ BindCall \/ FcntlGet \/ FcntlSet) => IInv'
  BY DEF IInv, StageInv, OwnerInv, SocketInv, ReadyToRead, InitStage, CleanupStage, ReadStage,
         IoctlIndex, BindCall, FcntlGet, FcntlSet, memberVars, kernelVars

LEMMA EpollCreateInv == IInv /\ EpollCreate => IInv'
  <1> SUFFICES ASSUME IInv, EpollCreate PROVE IInv'
    OBVIOUS
  <1> USE DEF IInv, EpollCreate, memberVars, kernelVars
  <1>1. OwnerInv'
    BY FdAssumption DEF OwnerInv, StageInv, InitStage, Free, NONE
  <1>2. StageInv' /\ SocketInv' /\ ReadyToRead'
    BY FdAssumption
    DEF StageInv, SocketInv, ReadyToRead, InitStage, CleanupStage, ReadStage, NONE
  <1> QED BY <1>1, <1>2

LEMMA EpollAddInv == IInv /\ EpollAdd => IInv'
  BY DEF IInv, StageInv, OwnerInv, SocketInv, ReadyToRead, InitStage, CleanupStage, ReadStage,
         EpollAdd, memberVars, kernelVars

LEMMA CleanupInv == IInv /\ (CloseEpoll \/ CloseSocket) => IInv'
  <1> SUFFICES ASSUME IInv, CloseEpoll \/ CloseSocket PROVE IInv'
    OBVIOUS
  <1> USE FdAssumption DEF IInv, NONE
  <1>1. OwnerInv'
    <2>1. CASE CloseEpoll
      BY <2>1 DEF OwnerInv, CloseEpoll, Released
    <2>2. CASE CloseSocket
      BY <2>2 DEF OwnerInv, CloseSocket, Released
    <2> QED BY <2>1, <2>2
  <1>2. StageInv' /\ SocketInv' /\ ReadyToRead'
    BY DEF StageInv, SocketInv, ReadyToRead, InitStage, CleanupStage, ReadStage, CloseEpoll,
           CloseSocket
  <1> QED BY <1>1, <1>2

LEMMA ReadingInv == IInv /\ Reading => IInv'
  <1> SUFFICES ASSUME IInv, Reading PROVE IInv'
    OBVIOUS
  <1> USE DEF IInv, StageInv, OwnerInv, SocketInv, ReadyToRead, InitStage, CleanupStage, ReadStage,
              memberVars, kernelVars
  <1>1. CASE CallRead \/ WaitReturns \/ WaitReady
    BY <1>1 DEF CallRead, WaitReturns, WaitReady
  <1>2. CASE DrainFrame \/ DrainShort
    BY <1>2 DEF DrainFrame, DrainShort
  <1>3. CASE ReadDrained \/ ReadFails
    BY <1>3 DEF ReadDrained, ReadFails
  <1> QED BY <1>1, <1>2, <1>3 DEF Reading

LEMMA EnvironmentInv == IInv /\ (Environment \/ UNCHANGED vars) => IInv'
  <1> SUFFICES ASSUME IInv, Environment \/ UNCHANGED vars PROVE IInv'
    OBVIOUS
  <1> USE DEF IInv, StageInv, OwnerInv, SocketInv, ReadyToRead, InitStage, CleanupStage, ReadStage,
              memberVars, kernelVars
  <1>1. CASE OtherOpens
    BY <1>1 DEF OtherOpens, Free
  <1>2. CASE OtherCloses
    BY <1>2 DEF OtherCloses, Released
  <1>3. CASE FrameArrives
    BY <1>3 DEF FrameArrives
  <1>4. CASE UNCHANGED vars
    BY <1>4 DEF vars
  <1> QED BY <1>1, <1>2, <1>3, <1>4 DEF Environment

LEMMA NextIInv == IInv /\ [Next]_vars => IInv'
  BY InitStageInv, SocketCallInv, SocketSetupInv, EpollCreateInv, EpollAddInv, CleanupInv,
     ReadingInv, EnvironmentInv
  DEF Next, Initializing

LEMMA InitIInv == Init => IInv /\ SeqInv /\ BoolInv
  <1> SUFFICES ASSUME Init PROVE IInv /\ SeqInv /\ BoolInv
    OBVIOUS
  <1>1. BoolInv
    BY Zenon DEF Init, BoolInv
  <1>2. SeqInv
    BY QueueAssumption DEF Init, SeqInv
  <1>3. IInv
    BY FdAssumption
    DEF Init, IInv, StageInv, OwnerInv, SocketInv, ReadyToRead, InitStage, CleanupStage,
        ReadStage, NONE
  <1> QED BY <1>1, <1>2, <1>3

(* All that is needed of a reachable state. *)
LEMMA Invariant == Spec => [](IInv /\ SeqInv /\ BoolInv)
  BY InitIInv, NextIInv, NextSeq, NextBool, PTL DEF Spec

-----------------------------------------------------------------------------
(* The variables keep their types. *)
THEOREM TypeCorrect == Spec => []TypeOK
  <1>1. IInv /\ SeqInv /\ BoolInv => TypeOK
    BY DEF IInv, StageInv, OwnerInv, SeqInv, BoolInv, TypeOK, CleanupStage
  <1> QED BY <1>1, Invariant, PTL

(* No failing call and no sequence of operations leaks a descriptor or     *)
(* leaves a member naming somebody else's (socket_can_interface.cpp:       *)
(* 38-100, :131-143).                                                      *)
THEOREM NoDescriptorLeaks == Spec => []DescriptorsAccounted
  <1>1. ASSUME OwnerInv PROVE DescriptorsAccounted
    <2>1. NONE \notin Fd
      BY FdAssumption DEF NONE
    <2>2. \A fd : fd \in {f \in Fd : owner[f] = "socket"} <=> fd \in {socket_fd} \ {NONE}
      BY <1>1, <2>1 DEF OwnerInv
    <2>3. \A fd : fd \in {f \in Fd : owner[f] = "epoll"} <=> fd \in {epoll_fd} \ {NONE}
      BY <1>1, <2>1 DEF OwnerInv
    <2> QED BY <2>2, <2>3, Zenon DEF DescriptorsAccounted
  <1>2. IInv => DescriptorsAccounted
    BY <1>1 DEF IInv
  <1> QED BY <1>2, Invariant, PTL

(* read() only drains a socket that cannot block (socket_can_interface.cpp:*)
(* 73-97, :194-209).                                                       *)
THEOREM ReadNeverBlocks == Spec => []ReadyToRead
  <1>1. IInv => ReadyToRead
    BY DEF IInv
  <1> QED BY <1>1, Invariant, PTL

-----------------------------------------------------------------------------
(* What the steps of a drain do to the vector and the buffer together. *)
LEMMA MoveKeepsOrder ==
  ASSUME NEW S, NEW s \in Seq(S), NEW t \in Seq(S), t # <<>>
  PROVE  Append(s, Head(t)) \o Tail(t) = s \o t
  <1>1. /\ Head(t) \in S /\ Tail(t) \in Seq(S)
        /\ t = <<Head(t)>> \o Tail(t)
    <2>1. /\ Head(t) \in S /\ Tail(t) \in Seq(S) /\ Len(Tail(t)) = Len(t) - 1
          /\ \A i \in 1..Len(Tail(t)) : Tail(t)[i] = t[i + 1]
          /\ Head(t) = t[1] /\ Len(t) \in Nat \ {0}
      BY HeadTailProperties, EmptySeq
    <2>2. <<Head(t)>> \in Seq(S) /\ Len(<<Head(t)>>) = 1 /\ <<Head(t)>>[1] = Head(t)
      BY <2>1
    <2>3. /\ <<Head(t)>> \o Tail(t) \in Seq(S)
          /\ Len(<<Head(t)>> \o Tail(t)) = Len(t)
          /\ \A i \in 1..Len(t) : (<<Head(t)>> \o Tail(t))[i]
                                   = IF i <= 1 THEN Head(t) ELSE Tail(t)[i - 1]
      BY <2>1, <2>2, ConcatProperties
    <2>4. \A i \in 1..Len(t) : t[i] = (<<Head(t)>> \o Tail(t))[i]
      BY <2>1, <2>3
    <2> QED BY <2>1, <2>3, <2>4, SeqEqual
  <1>2. Append(s, Head(t)) = s \o <<Head(t)>> /\ <<Head(t)>> \in Seq(S)
    BY <1>1, AppendIsConcat
  <1> QED BY <1>1, <1>2, ConcatAssociative

LEMMA ShortLosesOne ==
  ASSUME NEW S, NEW s \in Seq(S), NEW t \in Seq(S), t # <<>>
  PROVE  /\ Len(s) + 1 \in 1..Len(s \o t)
         /\ s \o Tail(t) = Channel!RemoveAt(s \o t, Len(s) + 1)
  <1> DEFINE all == s \o t
             n == Len(s)
  <1>1. /\ n \in Nat /\ Len(t) \in Nat \ {0} /\ Len(all) = n + Len(t) /\ all \in Seq(S)
        /\ \A i \in 1..n : all[i] = s[i]
    BY EmptySeq, LenProperties, ConcatProperties
  <1>2. n + 1 \in 1..Len(all)
    BY <1>1
  <1>3. SubSeq(all, 1, n) = s
    <2>1. CASE n = 0
      BY <1>1, <2>1, SubSeqEmpty, EmptySeq
    <2>2. CASE n > 0
      BY <1>1, <2>2, SubSeqOfConcat1, SubSeqFull
    <2> QED BY <1>1, <2>1, <2>2
  <1>4. SubSeq(all, n + 2, Len(all)) = Tail(t)
    <2>1. Tail(t) = SubSeq(t, 2, Len(t))
      BY TailIsSubSeq
    <2>2. CASE Len(t) = 1
      BY <1>1, <2>1, <2>2, SubSeqEmpty
    <2>3. CASE Len(t) > 1
      <3>1. n + 2 \in n + 1 .. n + Len(t) /\ Len(all) \in n + 1 .. n + Len(t)
        BY <1>1, <2>3
      <3>2. SubSeq(all, n + 2, Len(all)) = SubSeq(t, n + 2 - n, Len(all) - n)
        BY <3>1, SubSeqOfConcat2
      <3> QED BY <1>1, <2>1, <3>2
    <2> QED BY <1>1, <2>2, <2>3
  <1>5. Channel!RemoveAt(all, n + 1) = SubSeq(all, 1, n) \o SubSeq(all, n + 2, Len(all))
    <2>1. PICK i \in Nat : i = n + 1
      BY <1>1
    <2>2. i - 1 = n /\ i + 1 = n + 2
      BY <1>1, <2>1
    <2>3. Channel!RemoveAt(all, i) = SubSeq(all, 1, n) \o SubSeq(all, n + 2, Len(all))
      BY <2>2, Zenon DEF Channel!RemoveAt
    <2> QED BY <2>1, <2>3, Zenon
  <1> QED BY <1>2, <1>3, <1>4, <1>5

LEMMA ReturnDelivers ==
  ASSUME NEW S, NEW s \in Seq(S), NEW t \in Seq(S), s # <<>>
  PROVE  /\ Len(s) \in 1..Len(s \o t)
         /\ SubSeq(s \o t, 1, Len(s)) = s
         /\ SubSeq(s \o t, Len(s) + 1, Len(s \o t)) = t
  <1> DEFINE n == Len(s)
  <1>1. n \in Nat \ {0} /\ Len(t) \in Nat /\ Len(s \o t) = n + Len(t)
    BY EmptySeq, LenProperties, ConcatProperties
  <1>2. SubSeq(s \o t, 1, n) = s
    BY <1>1, SubSeqOfConcat1, SubSeqFull
  <1>3. SubSeq(s \o t, n + 1, Len(s \o t)) = t
    <2>1. CASE Len(t) = 0
      BY <1>1, <2>1, SubSeqEmpty, EmptySeq
    <2>2. CASE Len(t) > 0
      <3>1. n + 1 \in n + 1 .. n + Len(t) /\ Len(s \o t) \in n + 1 .. n + Len(t)
        BY <1>1, <2>2
      <3>2. SubSeq(s \o t, n + 1, Len(s \o t)) = SubSeq(t, n + 1 - n, Len(s \o t) - n)
        BY <3>1, SubSeqOfConcat2
      <3> QED BY <1>1, <3>2, SubSeqFull
    <2> QED BY <1>1, <2>1, <2>2
  <1> QED BY <1>1, <1>2, <1>3

-----------------------------------------------------------------------------
(* Every step of the interface is one of the channel.                      *)
LEMMA QuietStep ==
  ASSUME bound' = bound, queue' = queue, frames' = frames, delivered' = delivered
  PROVE  [Channel!Next]_Channel!avars
  BY DEF Channel!avars

LEMMA InitializingSimulates ==
  IInv /\ BoolInv /\ SeqInv /\ Initializing => [Channel!Next]_Channel!avars
  <1> SUFFICES ASSUME IInv, BoolInv, SeqInv, Initializing PROVE [Channel!Next]_Channel!avars
    OBVIOUS
  <1>1. CASE \/ CallInit \/ CallReset \/ CallClose \/ CallFails \/ SocketCall \/ IoctlIndex
             \/ FcntlGet \/ FcntlSet \/ EpollCreate \/ EpollAdd \/ CloseEpoll
    BY <1>1, QuietStep
    DEF CallInit, CallReset, CallClose, CallFails, SocketCall, IoctlIndex, FcntlGet, FcntlSet,
        EpollCreate, EpollAdd, CloseEpoll, kernelVars, busVars
  <1>2. CASE BindCall
    <2>1. CASE bound
      BY <1>2, <2>1, QuietStep, Zenon DEF BindCall, BoolInv, busVars
    <2>2. CASE ~bound
      BY <1>2, <2>2 DEF BindCall, busVars, Channel!Next, Channel!Open
    <2> QED BY <2>1, <2>2
  <1>3. CASE CloseSocket
    <2>1. frames = <<>> /\ frames' = <<>>
      BY <1>3 DEF CloseSocket, IInv, SocketInv
    <2>2. CASE bound
      <3>1. bound' = FALSE /\ queue' = <<>> /\ delivered' = delivered
        BY <1>3, <2>2 DEF CloseSocket, IInv, SocketInv, busVars
      <3>2. frames' \o queue' = <<>>
        BY <2>1, <3>1
      <3> QED BY <2>2, <3>1, <3>2 DEF Channel!Next, Channel!Close
    <2>3. CASE ~bound
      <3>1. queue = <<>> /\ queue' = <<>> /\ ~bound' /\ delivered' = delivered
        BY <1>3, <2>3 DEF CloseSocket, IInv, SocketInv, busVars
      <3>2. bound' = bound
        <4>1. bound' \in BOOLEAN /\ bound \in BOOLEAN
          BY <1>3, Zenon DEF CloseSocket, BoolInv
        <4> QED BY <2>3, <3>1, <4>1
      <3> QED BY <2>1, <3>1, <3>2, QuietStep
    <2> QED BY <2>2, <2>3
  <1> QED BY <1>1, <1>2, <1>3 DEF Initializing

LEMMA ReadingSimulates == IInv /\ SeqInv /\ Reading => [Channel!Next]_Channel!avars
  <1> SUFFICES ASSUME IInv, SeqInv, Reading PROVE [Channel!Next]_Channel!avars
    OBVIOUS
  <1>0. queue \in Seq(Frame) /\ frames \in Seq(Frame) /\ delivered \in Seq(Frame)
    BY DEF SeqInv
  <1>1. CASE CallRead \/ WaitReturns \/ WaitReady
    BY <1>1, QuietStep
    DEF CallRead, WaitReturns, WaitReady, IInv, SocketInv, kernelVars, busVars
  <1>2. CASE DrainFrame
    <2>1. frames' \o queue' = frames \o queue
      BY <1>0, <1>2, MoveKeepsOrder DEF DrainFrame
    <2> QED BY <1>2, <2>1 DEF DrainFrame, busVars, Channel!avars
  <1>3. CASE DrainShort
    <2>1. /\ Len(frames) + 1 \in 1..Len(frames \o queue)
          /\ frames' \o queue' = Channel!RemoveAt(frames \o queue, Len(frames) + 1)
      BY <1>0, <1>3, ShortLosesOne DEF DrainShort
    <2> QED BY <1>3, <2>1 DEF DrainShort, busVars, Channel!Next, Channel!Lose
  <1>4. CASE ReadDrained \/ ReadFails
    <2>1. /\ queue' = queue /\ frames' = <<>> /\ delivered' = delivered \o frames
          /\ bound' = bound /\ pc = "drain"
      BY <1>4 DEF ReadDrained, ReadFails, kernelVars
    <2>2. CASE frames = <<>>
      <3>1. delivered' = delivered
        BY <1>0, <2>1, <2>2, ConcatEmptySeq
      <3> QED BY <2>1, <2>2, <3>1, QuietStep
    <2>3. CASE frames # <<>>
      <3>1. bound
        BY <2>1 DEF IInv, ReadyToRead, ReadStage, CleanupStage
      <3>2. frames' \o queue' = queue
        BY <1>0, <2>1, ConcatEmptySeq
      <3>3. /\ Len(frames) \in 1..Len(frames \o queue)
            /\ SubSeq(frames \o queue, 1, Len(frames)) = frames
            /\ SubSeq(frames \o queue, Len(frames) + 1, Len(frames \o queue)) = queue
        BY <1>0, <2>3, ReturnDelivers
      <3> QED BY <2>1, <3>1, <3>2, <3>3 DEF Channel!Next, Channel!Deliver
    <2> QED BY <2>2, <2>3
  <1> QED BY <1>1, <1>2, <1>3, <1>4 DEF Reading

LEMMA EnvironmentSimulates == IInv /\ SeqInv /\ Environment => [Channel!Next]_Channel!avars
  <1> SUFFICES ASSUME IInv, SeqInv, Environment PROVE [Channel!Next]_Channel!avars
    OBVIOUS
  <1>1. CASE OtherOpens \/ OtherCloses
    BY <1>1, QuietStep DEF OtherOpens, OtherCloses, kernelVars, busVars
  <1>2. CASE FrameArrives
    <2>1. UNCHANGED <<bound, frames, delivered>>
      BY <1>2 DEF FrameArrives
    <2>2. CASE queue' = queue
      BY <2>1, <2>2, QuietStep
    <2>3. CASE bound /\ queue' = Append(queue, heard + 1)
      <3>1. heard + 1 \in Frame
        BY <1>2, QueueAssumption DEF FrameArrives, Frame, SeqInv
      <3>2. frames \o queue' = Append(frames \o queue, heard + 1)
        <4>1. queue' = queue \o <<heard + 1>> /\ <<heard + 1>> \in Seq(Frame)
          BY <2>3, <3>1, AppendIsConcat DEF SeqInv
        <4>2. frames \o queue \in Seq(Frame)
          BY ConcatProperties DEF SeqInv
        <4>3. Append(frames \o queue, heard + 1) = (frames \o queue) \o <<heard + 1>>
          BY <3>1, <4>2, AppendIsConcat
        <4> QED BY <4>1, <4>3, ConcatAssociative DEF SeqInv
      <3> QED BY <2>1, <2>3, <3>1, <3>2 DEF Channel!Next, Channel!Arrive
    <2> QED BY <1>2, <2>2, <2>3 DEF FrameArrives
  <1> QED BY <1>1, <1>2 DEF Environment

(* The interface delivers what CanChannel promises: in order and once,     *)
(* whatever fails (socket_can_interface.cpp:145-230).                      *)
THEOREM InterfaceImplementsChannel == Spec => ImplementsChannel
  <1>1. Init => Channel!Init
    BY DEF Init, Channel!Init
  <1>2. IInv /\ SeqInv /\ BoolInv /\ [Next]_vars => [Channel!Next]_Channel!avars
    <2>1. UNCHANGED vars => [Channel!Next]_Channel!avars
      BY QuietStep DEF vars, kernelVars, busVars
    <2> QED
      BY <2>1, InitializingSimulates, ReadingSimulates, EnvironmentSimulates DEF Next
  <1> QED
    BY <1>1, <1>2, Invariant, PTL DEF Spec, ImplementsChannel, Channel!Spec

=============================================================================
