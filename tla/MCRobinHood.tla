---------------------------- MODULE MCRobinHood ----------------------------
(***************************************************************************)
(* An instance of RobinHood and, in behaviours of its own, one of Uring: the*)
(* two programs whose loops must come to an end.  They share no state; one  *)
(* of them is run.                                                          *)
(***************************************************************************)
EXTENDS RobinHood

CONSTANTS MaxFiles, Entries  \* of Uring

VARIABLES
  ring,                                                         \* the second is run
  files, ringPc, ringNext, held, sq, busy, cq, copied, printed  \* uring.odin

Ring == INSTANCE Uring WITH pc <- ringPc, next <- ringNext

ASSUME Ring!UringAssumption

(* A page is a pair <<hash, n>>, so that the set of pages chosen decides    *)
(* which of them collide at which capacity.                                 *)
MCHash == [p \in Page |-> p[1]]

(* At 4 slots three pages share home 3 and wrap past the end of the array;  *)
(* at 8 slots they part into homes 3 and 7 and the chain from 7 wraps.      *)
Wrapping == {<<3, 1>>, <<3, 2>>, <<7, 1>>, <<0, 1>>, <<6, 1>>}

-----------------------------------------------------------------------------
ringVars == <<files, ringPc, ringNext, held, sq, busy, cq, copied, printed>>
mcVars == <<ring, vars, ringVars>>

MCInit ==
  /\ ring \in BOOLEAN
  /\ Init /\ (ring => call = CHOOSE c \in Calls : TRUE)
  /\ Ring!Init /\ (~ ring => files = 1)

Only(A) == ~ ring /\ A /\ UNCHANGED <<ring, ringVars>>
OnlyRing(A) == ring /\ A /\ UNCHANGED <<ring, vars>>

(* A program that is over stays as it is, and is not in a deadlock.         *)
Over == ring /\ ringPc \in {"done", "stopped"} /\ UNCHANGED mcVars

MCNext == Only(Next) \/ OnlyRing(Ring!Next) \/ Over

(* The fairness of RobinHood's FairSpec and of Uring's.                     *)
MCSpec ==
  /\ MCInit /\ [][MCNext]_mcVars
  /\ WF_mcVars(Only(Step))
  /\ WF_mcVars(OnlyRing(Ring!Queue \/ Ring!Submit \/ Ring!Copy \/ Ring!PrintNext \/ Ring!Return))
  /\ \A r \in 1 .. MaxFiles : WF_mcVars(OnlyRing(Ring!Complete(r)))

(* uring.odin: main ends, however the reads end.                            *)
Ends == ring => Ring!Ends
=============================================================================
