------------------------------- MODULE Epoll -------------------------------
(***************************************************************************)
(* src/c/epoll.c: an asynchronous read is to make an eventfd readable, on   *)
(* which an epoll loop waits.  The C library performs the read in a thread  *)
(* of its own and notifies as aio_sigevent says: by the signal whose number *)
(* is in sigev_signo, which the program sets to the descriptor efd.         *)
(***************************************************************************)
EXTENDS Naturals, FiniteSets

CONSTANT Harmless   \* external: the signals that are ignored unless handled

VARIABLES
  pc,       \* where main is
  open,     \* the open descriptors
  efd,      \* the eventfd
  counter,  \* its counter: readable when not zero
  aio,      \* the control block: "idle", "busy", "done" or "failed"
  pending   \* the signals sent to the process and not yet delivered

vars == <<pc, open, efd, counter, aio, pending>>

Least(S) == CHOOSE d \in S : \A e \in S : d <= e

(* open, eventfd and epoll_create1 return the least descriptor not in use.  *)
Unused == Least(0 .. 10 \ open)

Init ==
  /\ pc = "file" /\ open \in SUBSET (0 .. 2)
  /\ efd = 0 /\ counter = 0 /\ aio = "idle" /\ pending = {}

OpenFile ==
  /\ pc = "file"
  /\ \/ pc' = "eventfd" /\ open' = open \cup {Unused}
     \/ pc' = "ended" /\ UNCHANGED open
  /\ UNCHANGED <<efd, counter, aio, pending>>

EventFd ==
  /\ pc = "eventfd"
  /\ \/ pc' = "epoll" /\ efd' = Unused /\ open' = open \cup {Unused}
     \/ pc' = "ended" /\ UNCHANGED <<efd, open>>
  /\ UNCHANGED <<counter, aio, pending>>

EpollCreate ==
  /\ pc = "epoll"
  /\ \/ pc' = "aio" /\ open' = open \cup {Unused}
     \/ pc' = "ended" /\ UNCHANGED open
  /\ UNCHANGED <<efd, counter, aio, pending>>

(* aio_read, or epoll_ctl or aio_read fails.                                *)
AioRead ==
  /\ pc = "aio"
  /\ \/ pc' = "wait" /\ aio' = "busy"
     \/ pc' = "ended" /\ UNCHANGED aio
  /\ UNCHANGED <<open, efd, counter, pending>>

(* The library's thread ends the read and notifies with SIGEV_SIGNAL.       *)
Complete ==
  /\ aio = "busy"
  /\ aio' \in {"done", "failed"}
  /\ pending' = pending \cup {efd}
  /\ UNCHANGED <<pc, open, efd, counter>>

(* Without a handler most signals end the process, and the rest do nothing. *)
Deliver ==
  /\ pending # {} /\ pc # "ended"
  /\ pc' = IF pending \subseteq Harmless THEN pc ELSE "killed"
  /\ pending' = {}
  /\ UNCHANGED <<open, efd, counter, aio>>

(* epoll_wait returns, with a timeout of -1, only when efd is readable.     *)
EpollWait ==
  /\ pc = "wait" /\ counter > 0
  /\ pc' = "reported" /\ counter' = 0
  /\ UNCHANGED <<open, efd, aio, pending>>

Next ==
  \/ OpenFile \/ EventFd \/ EpollCreate \/ AioRead
  \/ Complete \/ Deliver \/ EpollWait

(* The library's thread performs the read, the kernel delivers the signal,  *)
(* and main runs while it can.                                              *)
Spec == Init /\ [][Next]_vars
FairSpec == Spec /\ WF_vars(Complete) /\ WF_vars(Deliver) /\ WF_vars(EpollWait)

(* The comment at the control block: when the read completes, the eventfd   *)
(* is signalled, so that the loop reports the read.                         *)
Notified == (aio \in {"done", "failed"}) ~> (pc = "reported")
=============================================================================
