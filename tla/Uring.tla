------------------------------- MODULE Uring -------------------------------
(***************************************************************************)
(* src/odin/uring.odin: all files are opened, a read of each is queued on   *)
(* the submission ring, one system call submits them and waits, and the     *)
(* completions are copied out in the order in which they arrived.  The      *)
(* kernel performs the reads in any order; a read may fail, and one that is *)
(* short counts as a success, as its result is not negative.                *)
(***************************************************************************)
EXTENDS Naturals, Sequences, FiniteSets, SequencesExt

CONSTANTS
  MaxFiles,  \* bound: at most so many files are named on the command line
  Entries    \* the length of the submission ring: uring.DEFAULT_PARAMS, external

UringAssumption == MaxFiles \in Nat \ {0} /\ Entries \in Nat \ {0}

VARIABLES
  files,    \* len(requests)
  pc,       \* where main is
  next,     \* the request that main's loops are at
  held,     \* the requests whose buffer is allocated
  sq,       \* the submission ring: the requests queued
  busy,     \* the reads the kernel is performing
  cq,       \* the completion ring, in order of arrival
  copied,   \* requests.completion
  printed   \* the requests printed

vars == <<files, pc, next, held, sq, busy, cq, copied, printed>>

-----------------------------------------------------------------------------
Requests == 1 .. files
Results == {"read", "failed"}

(* A completion says how the read ended; that it is of request r is known   *)
(* to the kernel alone, as every read is queued with user_data 0.           *)
Completion(r, res) == [of |-> r, res |-> res]

Init ==
  /\ files \in 1 .. MaxFiles
  /\ pc = "queue" /\ next = 1
  /\ held = {}
  /\ sq = <<>> /\ busy = {} /\ cq = <<>> /\ copied = <<>> /\ printed = {}

Stop == pc' = "stopped" /\ UNCHANGED <<files, next, held, sq, busy, cq, copied, printed>>

HasRoom(q) == Len(q) < Entries

(* submit_read_request; the assertion stops a program with too many files.  *)
Queue ==
  /\ pc = "queue" /\ next <= files
  /\ IF HasRoom(sq)
       THEN /\ held' = held \cup {next}
            /\ sq' = Append(sq, next)
            /\ next' = next + 1
            /\ UNCHANGED <<files, pc, busy, cq, copied, printed>>
       ELSE Stop

(* A file that cannot be opened or is not regular, or an error of submit.   *)
Refuse == pc = "queue" /\ Stop

(* What the kernel takes of the ring.  Seeded bug: its last entry is left.  *)
TakenButLast(q) == {q[k] : k \in 1 .. Len(q) - 1}

Taken(q) == ToSet(q)

(* The assertions n == ulen and cn == ulen.  Seeded bug: they are disabled. *)
Unasserted(n) == TRUE

Whole(n) == n = files

(* uring.submit: the kernel takes the first k of the entries queued; when   *)
(* it did not take all of them, it does not wait and main is stopped.       *)
Submit ==
  /\ pc = "queue" /\ next > files
  /\ \E k \in 0 .. Len(sq) :
       /\ busy' = Taken(SubSeq(sq, 1, k))
       /\ sq' = SubSeq(sq, k + 1, Len(sq))
       /\ pc' = IF Whole(k) THEN "wait" ELSE "stopped"
  /\ UNCHANGED <<files, next, held, cq, copied, printed>>

(* The kernel ends a read.                                                  *)
Complete(r) ==
  /\ r \in busy
  /\ busy' = busy \ {r}
  /\ \E res \in Results : cq' = Append(cq, Completion(r, res))
  /\ UNCHANGED <<files, pc, next, held, sq, copied, printed>>

(* copy_cqes_ready copies what is there; main is stopped when that is not   *)
(* all, and prints otherwise.                                               *)
Collect ==
  /\ copied' = cq /\ cq' = <<>>
  /\ IF Whole(Len(cq)) THEN pc' = "print" /\ next' = 1
                       ELSE pc' = "stopped" /\ UNCHANGED next
  /\ UNCHANGED <<files, held, sq, busy, printed>>

(* The wait ends when as many reads have ended as were asked for.  Seeded   *)
(* bug: one too many is asked for.                                          *)
EnoughAndOne(n) == n > files

Enough(n) == n >= files

Copy == pc = "wait" /\ Enough(Len(cq)) /\ Collect

(* The wait is interrupted: submit returns what it submitted all the same.  *)
Interrupted == pc = "wait" /\ ~ Enough(Len(cq)) /\ Collect

(* Seeded bug: the first completion is looked at for every request.         *)
BadFirst(k) == 1 \in DOMAIN copied /\ copied[1].res = "failed"

(* A completion that was not copied is the zero it was made with.           *)
Bad(k) == k \in DOMAIN copied /\ copied[k].res = "failed"

(* The last loop of main.                                                   *)
PrintNext ==
  /\ pc = "print" /\ next <= files
  /\ IF Bad(next) THEN Stop
     ELSE /\ printed' = printed \cup {next}
          /\ held' = held \ {next}
          /\ next' = next + 1
          /\ UNCHANGED <<files, pc, sq, busy, cq, copied>>

Return ==
  /\ pc = "print" /\ next > files
  /\ pc' = "done"
  /\ UNCHANGED <<files, next, held, sq, busy, cq, copied, printed>>

Next ==
  \/ Queue \/ Refuse \/ Submit \/ Copy \/ Interrupted \/ PrintNext \/ Return
  \/ \E r \in Requests : Complete(r)

(* A signal may interrupt the wait, and need not.                           *)
Spec == Init /\ [][Next]_vars
FairSpec ==
  /\ Spec
  /\ WF_vars(Queue \/ Submit \/ Copy \/ PrintNext \/ Return)
  /\ \A r \in 1 .. MaxFiles : WF_vars(Complete(r))

-----------------------------------------------------------------------------
(* The request that main is at is one of the files or past the last, and no *)
(* more is queued than the ring has room for.                               *)
TypeOK ==
  /\ pc \in {"queue", "wait", "print", "done", "stopped"}
  /\ next \in 1 .. files + 1
  /\ held \subseteq Requests
  /\ sq \in Seq(Requests) /\ Len(sq) <= Entries
  /\ busy \subseteq Requests
  /\ cq \in Seq([of : Requests, res : Results])
  /\ copied \in Seq([of : Requests, res : Results])
  /\ printed \subseteq Requests

(* Every request is, from the moment its buffer exists, in one place only:  *)
(* queued, being read, or completed once; none is lost between the rings.   *)
Accounted ==
  LET ended == copied \o cq
      at(r) == {<<"sq", k>> : k \in {i \in DOMAIN sq : sq[i] = r}}
               \cup {<<"busy", b>> : b \in busy \cap {r}}
               \cup {<<"cq", k>> : k \in {i \in DOMAIN ended : ended[i].of = r}}
  IN \A r \in Requests :
       Cardinality(at(r)) = IF r \in held \cup printed THEN 1 ELSE 0

(* The kernel writes to no buffer that main prints or has freed, however    *)
(* many entries it took and whenever the wait was over.                     *)
Quiet == busy \subseteq held /\ (pc = "print" => busy = {})

(* No failed read goes unnoticed: main does not get to its end after one.   *)
NoticesFailure ==
  pc = "done" => printed = Requests /\ \A k \in DOMAIN copied : copied[k].res # "failed"

(* The comment in main, "check result of the requests": what is printed of  *)
(* a request is what was read for it.                                       *)
PrintedWasRead ==
  \A r \in printed : \A k \in DOMAIN copied : copied[k].of = r => copied[k].res # "failed"

(* main ends, however the reads end.                                        *)
Ends == <>(pc \in {"done", "stopped"})
=============================================================================
