------------------------------ MODULE Programs ------------------------------
(***************************************************************************)
(* Small programs of the repository side by side: the buffer pool of        *)
(* SwizzlePool and six others on instances of their own, one of them the    *)
(* reader of Uring with its kernel.  They share no state; one of them is    *)
(* run.                                                                     *)
(***************************************************************************)
EXTENDS SwizzlePool, Sequences

CONSTANTS
  Keys, KeyHash, Payload, Addr, Null, Size,                             \* of Chaining
  Numbers, FirstCapacity, MaxNodes,                                     \* of FlatTree
  Width, Words, PageId,                                                 \* of TaggedRef
  Data, MAX_NODES, MaxLength,                                           \* of SavedList
  LowerCase, Upper, Digits, Spaces, Symbols, Others, Keywords, MaxText, \* of Lexer
  MaxFiles, Entries                                                     \* of Uring

VARIABLES
  program,                                                      \* which one
  buckets, heap, chainPc, call, ret, index, current, prev,      \* HashTable.c
  flatPc, ast, loose, stack, nodes, capacity, root, result,     \* flatast.c
  version, reference, pages,                                    \* pointersw1.c, pointersw3.c
  listPc, original, saved, restored, head,                      \* pointersw2.c
  lexer, text, lexPc, start, cursor, tokens,                    \* lex.c and the SQL lexers
  files, ringPc, ringNext, held, sq, busy, cq, copied, printed  \* uring.odin

Chain == INSTANCE Chaining WITH pc <- chainPc, Frame <- Payload, Page <- Keys, Hash <- KeyHash
Flat == INSTANCE FlatTree WITH pc <- flatPc, frames <- stack
Tag == INSTANCE TaggedRef WITH root <- reference, heap <- pages, program <- version, Addr <- Words
List == INSTANCE SavedList WITH pc <- listPc, nodes <- restored
Lex == INSTANCE Lexer WITH pc <- lexPc, version <- lexer, Lower <- LowerCase, MaxLength <- MaxText
Ring == INSTANCE Uring WITH pc <- ringPc, next <- ringNext

chainVars == <<buckets, heap, chainPc, call, ret, index, current, prev>>
flatVars == <<flatPc, ast, loose, stack, nodes, capacity, root, result>>
tagVars == <<version, reference, pages>>
listVars == <<listPc, original, saved, restored, head>>
lexVars == <<lexer, text, lexPc, start, cursor, tokens>>
ringVars == <<files, ringPc, ringNext, held, sq, busy, cq, copied, printed>>
sideVars == <<program, vars, chainVars, flatVars, tagVars, listVars, lexVars, ringVars>>

SideInit ==
  /\ Init /\ Chain!Init /\ Flat!Init /\ Lex!Init
  /\ Tag!Init /\ version = (IF program = "pointersw3" THEN program ELSE "pointersw1")
  /\ List!Init /\ (program # "list" => original = <<>>)
  /\ Ring!Init /\ (program # "ring" => files = 1)

SideNext ==
  /\ UNCHANGED program
  /\ \/ program = "pool" /\ Next /\ UNCHANGED <<chainVars, flatVars, tagVars, listVars, lexVars, ringVars>>
     \/ program = "chain" /\ Chain!Next /\ UNCHANGED <<vars, flatVars, tagVars, listVars, lexVars, ringVars>>
     \/ program = "flat" /\ Flat!Next /\ UNCHANGED <<vars, chainVars, tagVars, listVars, lexVars, ringVars>>
     \/ program = version /\ Tag!Next /\ UNCHANGED <<vars, chainVars, flatVars, listVars, lexVars, ringVars>>
     \/ program = "list" /\ List!Next /\ UNCHANGED <<vars, chainVars, flatVars, tagVars, lexVars, ringVars>>
     \/ program = "lex" /\ Lex!Next /\ UNCHANGED <<vars, chainVars, flatVars, tagVars, listVars, ringVars>>
     \/ program = "ring" /\ Ring!Next /\ UNCHANGED <<vars, chainVars, flatVars, tagVars, listVars, lexVars>>

SideBySide == SideInit /\ [][SideNext]_sideVars

-----------------------------------------------------------------------------
(* HashTable.c: no node is lost, freed too early or reached twice.          *)
ChainOwned == Chain!ChainOwned

(* HashTable.c: the chains are a map from keys to values that never refuses:*)
(* each call takes effect in one step and its reply is the map's.           *)
Map == INSTANCE PageMap WITH map <- Chain!Contents, reply <- ret, MayRefuseUpdate <- FALSE,
                             Page <- Keys, Frame <- Payload,
                             phase <- IF chainPc = "idle" THEN "idle" ELSE "called"
ChainMaps ==
  [][chainPc' \in {"idle", "walk"} =>
       \/ UNCHANGED Map!vars
       \/ Map!Next /\ (chainPc' = "idle" /\ call.op = "insert" => ret'.ok)]_chainVars

(* flatast.c: the array is the tree, and has its value when the tree is gone.*)
FlatLowered == Flat!FlatLowered

(* pointersw1.c and pointersw3.c: a reference leads to the page it was made *)
(* for, swizzled or not.                                                    *)
RefLeads == Tag!RefLeads

(* pointersw2.c: a list of distinct data comes back as it was, as far as    *)
(* there was room for it.                                                   *)
ListReloaded == List!ListReloaded

(* The lexers: the tokens are what the text says.                           *)
TextTiled == Lex!TextTiled

(* uring.odin: no request is lost between the rings or completed twice.     *)
Accounted == Ring!Accounted

(* uring.odin: the kernel writes to no buffer that main prints or has freed.*)
Quiet == Ring!Quiet

(* uring.odin: main does not get to its end after a read that failed.       *)
NoticesFailure == Ring!NoticesFailure
=============================================================================
