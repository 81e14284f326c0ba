----------------------------- MODULE MCPrograms -----------------------------
(***************************************************************************)
(* Programs, and Mixing beside them, on small values.                       *)
(***************************************************************************)
EXTENDS Programs, Mixing, TLC

(* Two buckets, one chain of up to three keys and one of a single key;      *)
(* addresses are interchangeable.                                           *)
MCKeys == {<<1, 1>>, <<1, 2>>, <<1, 3>>, <<0, 1>>}
MCKeyHash == [p \in MCKeys |-> p[1]]
Symmetry == Permutations(Addr)

(* Words of four bits; one address looks like the page id without its tag.  *)
MCWords == 1 .. 4

(* A keyword "in" in both cases; "(" and "+" are tokens of one version each *)
(* and errors of the other.                                                 *)
MCUpper == [c \in {"I"} |-> "i"]
MCSymbols == [sql |-> {";", "("}, lex |-> {";", "+"}]
MCKeywords == {<<"i", "n">>}

ASSUME Chain!ChainingAssumption
ASSUME Flat!FlatAssumption
ASSUME Tag!TaggedAssumption
ASSUME List!ListAssumption
ASSUME Lex!LexerAssumption
ASSUME Ring!UringAssumption

(* The mixers' words are of four bits, their multipliers the low bits of the*)
(* source's.                                                                *)
allVars == <<sideVars, mixVars>>

AllInit ==
  /\ program \in {"pool", "chain", "flat", "pointersw1", "pointersw3", "list", "lex", "ring", "mix"}
  /\ SideInit /\ MixInit

AllNext ==
  \/ SideNext /\ UNCHANGED mixVars
  \/ program = "mix" /\ MixNext /\ UNCHANGED sideVars

AllSpec == AllInit /\ [][AllNext]_allVars
=============================================================================
