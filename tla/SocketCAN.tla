----------------------------- MODULE SocketCAN -----------------------------
(***************************************************************************)
(* The interface to the bus (src/socket_can_interface.cpp), system call by *)
(* system call, over a kernel that hands out the lowest free descriptor    *)
(* and may refuse any call.  The other threads of the process open and     *)
(* close descriptors of their own between any two calls, so a descriptor   *)
(* closed twice, or kept after it was closed, is soon somebody else's.     *)
(*                                                                         *)
(* mutex_ is held by every operation from beginning to end, so one pc is   *)
(* enough.  A call that returns at once (init() of an open interface,      *)
(* read() and write() of a closed one) and a system call repeated after    *)
(* EINTR change nothing and are stuttering steps.                          *)
(***************************************************************************)
EXTENDS Integers, SequencesExt

CONSTANTS
  Fd,          \* the descriptors the process may have
  MaxQueue,    \* frames the receive buffer of a socket holds
  MaxFrames    \* bound: frames the bus carries

ASSUME FdAssumption == Fd \subseteq Nat /\ IsFiniteSet(Fd)
ASSUME QueueAssumption == MaxQueue \in Nat /\ MaxFrames \in Nat

VARIABLES
  socket_fd, epoll_fd, initialized,   \* the members
  pc,          \* the system call the operation under way comes to next
  then,        \* where cleanupUnlocked() returns to
  frames,      \* the vector read() fills
  owner,       \* what each descriptor is
  nonblocking, \* O_NONBLOCK of the socket
  bound,       \* the socket is bound to the interface
  registered,  \* the socket is in the interest list of the epoll
  queue,       \* the receive buffer of the socket
  heard,       \* frames the bus has carried so far
  delivered    \* history: the frames read() has returned

memberVars == <<socket_fd, epoll_fd, initialized>>
kernelVars == <<nonblocking, bound, registered, queue>>
busVars    == <<heard, delivered>>
vars == <<memberVars, pc, then, frames, owner, kernelVars, busVars>>

NONE == -1

InitStage == {"socket", "ifindex", "bind", "getfl", "setfl", "epoll_create", "epoll_ctl"}
CleanupStage == {"close_epoll", "close_socket"}
ReadStage == {"epoll_wait", "drain"}

Frame == 1..MaxFrames

TypeOK ==
  /\ socket_fd \in Fd \cup {NONE} /\ epoll_fd \in Fd \cup {NONE}
  /\ initialized \in BOOLEAN
  /\ pc \in {"idle"} \cup InitStage \cup CleanupStage \cup ReadStage
  /\ then \in {"idle", "socket"}
  /\ frames \in Seq(Frame)
  /\ owner \in [Fd -> {"free", "socket", "epoll", "other"}]
  /\ nonblocking \in BOOLEAN /\ bound \in BOOLEAN /\ registered \in BOOLEAN
  /\ queue \in Seq(Frame)
  /\ heard \in 0..MaxFrames
  /\ delivered \in Seq(Frame)

(* The constructor. *)
Init ==
  /\ socket_fd = NONE /\ epoll_fd = NONE /\ initialized = FALSE
  /\ pc = "idle" /\ then = "idle"
  /\ frames = <<>>
  /\ owner = [fd \in Fd |-> "free"]
  /\ nonblocking = FALSE /\ bound = FALSE /\ registered = FALSE
  /\ queue = <<>>
  /\ heard = 0 /\ delivered = <<>>

-----------------------------------------------------------------------------
(* The kernel. *)
Free(fd) == owner[fd] = "free" /\ \A f \in Fd : owner[f] = "free" => fd <= f

(* close() of a descriptor, whosoever it is by now. *)
Released(fd) == [owner EXCEPT ![fd] = "free"]

(* The other threads. *)
OtherOpens ==
  /\ \E fd \in Fd : Free(fd) /\ owner' = [owner EXCEPT ![fd] = "other"]
  /\ UNCHANGED <<memberVars, pc, then, frames, kernelVars, busVars>>

OtherCloses ==
  /\ \E fd \in Fd : owner[fd] = "other" /\ owner' = Released(fd)
  /\ UNCHANGED <<memberVars, pc, then, frames, kernelVars, busVars>>

(* A frame on the bus reaches a bound socket whose buffer is not full. *)
FrameArrives ==
  /\ heard < MaxFrames
  /\ heard' = heard + 1
  /\ queue' = IF bound /\ Len(queue) < MaxQueue THEN Append(queue, heard + 1) ELSE queue
  /\ UNCHANGED <<memberVars, pc, then, frames, owner, nonblocking, bound, registered,
                 delivered>>

-----------------------------------------------------------------------------
(* init(), reset() and close(). *)
CallInit ==
  /\ pc = "idle" /\ ~initialized
  /\ pc' = "socket"
  /\ UNCHANGED <<memberVars, then, frames, owner, kernelVars, busVars>>

CallReset ==
  /\ pc = "idle"
  /\ pc' = "close_epoll" /\ then' = "socket"
  /\ UNCHANGED <<memberVars, frames, owner, kernelVars, busVars>>

CallClose ==
  /\ pc = "idle"
  /\ pc' = "close_epoll" /\ then' = "idle"
  /\ UNCHANGED <<memberVars, frames, owner, kernelVars, busVars>>

(* socket(): the failure returns as it is, there is nothing to clean up. *)
SocketCall ==
  /\ pc = "socket"
  /\ \/ \E fd \in Fd :
          /\ Free(fd)
          /\ socket_fd' = fd
          /\ owner' = [owner EXCEPT ![fd] = "socket"]
          /\ pc' = "ifindex"
     \/ socket_fd' = NONE /\ pc' = "idle" /\ UNCHANGED owner
  /\ UNCHANGED <<epoll_fd, initialized, then, frames, kernelVars, busVars>>

(* Every later failure goes through cleanupUnlocked() and returns. *)
CallFails ==
  /\ pc \in InitStage \ {"socket"}
  /\ pc' = "close_epoll" /\ then' = "idle"
  /\ UNCHANGED <<memberVars, frames, owner, kernelVars, busVars>>

IoctlIndex ==
  /\ pc = "ifindex" /\ pc' = "bind"
  /\ UNCHANGED <<memberVars, then, frames, owner, kernelVars, busVars>>

BindCall ==
  /\ pc = "bind" /\ pc' = "getfl"
  /\ bound' = TRUE
  /\ UNCHANGED <<memberVars, then, frames, owner, nonblocking, registered, queue, busVars>>

FcntlGet ==
  /\ pc = "getfl" /\ pc' = "setfl"
  /\ UNCHANGED <<memberVars, then, frames, owner, kernelVars, busVars>>

(* A mutant of the operator below: the flag is not written back.           *)
MutFcntlSetForgets ==
  /\ pc = "setfl" /\ pc' = "epoll_create"
  /\ UNCHANGED <<memberVars, then, frames, owner, kernelVars, busVars>>

FcntlSet ==
  /\ pc = "setfl" /\ pc' = "epoll_create"
  /\ nonblocking' = TRUE
  /\ UNCHANGED <<memberVars, then, frames, owner, bound, registered, queue, busVars>>

EpollCreate ==
  /\ pc = "epoll_create" /\ pc' = "epoll_ctl"
  /\ \E fd \in Fd :
       /\ Free(fd)
       /\ epoll_fd' = fd
       /\ owner' = [owner EXCEPT ![fd] = "epoll"]
  /\ UNCHANGED <<socket_fd, initialized, then, frames, kernelVars, busVars>>

EpollAdd ==
  /\ pc = "epoll_ctl" /\ pc' = "idle"
  /\ registered' = TRUE
  /\ initialized' = TRUE
  /\ UNCHANGED <<socket_fd, epoll_fd, then, frames, owner, nonblocking, bound, queue, busVars>>

(* cleanupUnlocked(): each descriptor that is held. *)
CloseEpoll ==
  /\ pc = "close_epoll" /\ pc' = "close_socket"
  /\ epoll_fd' = NONE
  /\ IF epoll_fd # NONE THEN owner' = Released(epoll_fd) /\ registered' = FALSE
                        ELSE UNCHANGED <<owner, registered>>
  /\ UNCHANGED <<socket_fd, initialized, then, frames, nonblocking, bound, queue, busVars>>

(* A mutant of the operator below: the member keeps the closed descriptor. *)
MutCloseKeepsNumber ==
  /\ pc = "close_socket" /\ pc' = then
  /\ IF socket_fd # NONE
     THEN /\ owner' = Released(socket_fd)
          /\ nonblocking' = FALSE /\ bound' = FALSE /\ queue' = <<>>
     ELSE UNCHANGED <<owner, nonblocking, bound, queue>>
  /\ initialized' = FALSE
  /\ UNCHANGED <<socket_fd, epoll_fd, then, frames, registered, busVars>>

CloseSocket ==
  /\ pc = "close_socket" /\ pc' = then
  /\ socket_fd' = NONE
  /\ IF socket_fd # NONE
     THEN /\ owner' = Released(socket_fd)
          /\ nonblocking' = FALSE /\ bound' = FALSE /\ queue' = <<>>
     ELSE UNCHANGED <<owner, nonblocking, bound, queue>>
  /\ initialized' = FALSE
  /\ UNCHANGED <<epoll_fd, then, frames, registered, busVars>>

-----------------------------------------------------------------------------
(* read(). *)
CallRead ==
  /\ pc = "idle" /\ initialized
  /\ pc' = "epoll_wait"
  /\ frames' = <<>>
  /\ UNCHANGED <<memberVars, then, owner, kernelVars, busVars>>

(* Nothing there, an error of epoll_wait(), EPOLLERR or EPOLLHUP: the       *)
(* frames that wait stay in the socket.                                    *)
WaitReturns ==
  /\ pc = "epoll_wait" /\ pc' = "idle"
  /\ UNCHANGED <<memberVars, then, frames, owner, kernelVars, busVars>>

WaitReady ==
  /\ pc = "epoll_wait" /\ pc' = "drain"
  /\ registered /\ queue # <<>>
  /\ UNCHANGED <<memberVars, then, frames, owner, kernelVars, busVars>>

DrainFrame ==
  /\ pc = "drain" /\ queue # <<>>
  /\ queue' = Tail(queue)
  /\ frames' = Append(frames, Head(queue))
  /\ UNCHANGED <<memberVars, pc, then, owner, nonblocking, bound, registered, busVars>>

(* A short read consumes the frame; the drain goes on. *)
DrainShort ==
  /\ pc = "drain" /\ queue # <<>>
  /\ queue' = Tail(queue)
  /\ UNCHANGED <<memberVars, pc, then, frames, owner, nonblocking, bound, registered, busVars>>

(* The socket is empty.  One that blocks would not say so, but wait.       *)
ReadDrained ==
  /\ pc = "drain" /\ pc' = "idle"
  /\ queue = <<>> /\ nonblocking
  /\ delivered' = delivered \o frames
  /\ frames' = <<>>
  /\ UNCHANGED <<memberVars, then, owner, kernelVars, heard>>

(* A mutant of the operator below: the vector outlives the call.           *)
MutReadKeepsFrames ==
  /\ pc = "drain" /\ pc' = "idle"
  /\ delivered' = delivered \o frames
  /\ UNCHANGED <<memberVars, then, frames, owner, kernelVars, heard>>

(* An error in the middle: the callers look at the frames drained so far,  *)
(* whatever the status (steering_controller.cpp:147-149).                  *)
ReadFails ==
  /\ pc = "drain" /\ pc' = "idle"
  /\ delivered' = delivered \o frames
  /\ frames' = <<>>
  /\ UNCHANGED <<memberVars, then, owner, kernelVars, heard>>

-----------------------------------------------------------------------------
Initializing ==
  \/ CallInit \/ CallReset \/ CallClose
  \/ SocketCall \/ IoctlIndex \/ BindCall \/ FcntlGet \/ FcntlSet \/ EpollCreate \/ EpollAdd
  \/ CallFails
  \/ CloseEpoll \/ CloseSocket

Reading ==
  \/ CallRead \/ WaitReturns \/ WaitReady
  \/ DrainFrame \/ DrainShort \/ ReadDrained \/ ReadFails

Environment == OtherOpens \/ OtherCloses \/ FrameArrives

Next == Initializing \/ Reading \/ Environment

Spec == Init /\ [][Next]_vars

-----------------------------------------------------------------------------
(* Between any two system calls, whichever of them failed and however      *)
(* often the interface is opened, reset and closed, the sockets and epolls *)
(* the process has are the two the members name: none is leaked, and a     *)
(* member never names a descriptor that another thread has got since       *)
(* (socket_can_interface.cpp:38-100, :131-143).                            *)
DescriptorsAccounted ==
  /\ {fd \in Fd : owner[fd] = "socket"} = {socket_fd} \ {NONE}
  /\ {fd \in Fd : owner[fd] = "epoll"} = {epoll_fd} \ {NONE}

(* read() holds mutex_ in the real-time loop: it only ever drains a socket *)
(* that is open, bound, in the epoll and cannot block                      *)
(* (socket_can_interface.cpp:97, :154-157, :194-209).                      *)
ReadyToRead ==
  /\ pc \in ReadStage => initialized
  /\ initialized /\ pc \notin CleanupStage =>
       /\ socket_fd # NONE /\ epoll_fd # NONE
       /\ bound /\ nonblocking /\ registered

(* What waits in the socket or in the vector of a read() is the inbox. *)
Channel == INSTANCE CanChannel WITH
  open <- bound, inbox <- frames \o queue

(* Frames come out in order and once, also when read() fails between two   *)
(* of them or the interface is reset (socket_can_interface.cpp:145-230).   *)
ImplementsChannel == Channel!Spec

=============================================================================
