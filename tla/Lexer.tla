------------------------------- MODULE Lexer -------------------------------
(***************************************************************************)
(* The lexers of this repository: src/c/lex.c, and the one inside the three *)
(* CREATE TABLE programs.  A text is a sequence of characters that ends in  *)
(* NUL; one action is one turn of a loop, or one decision, of next_token.   *)
(* Keywords are fewer and shorter than in the source.                       *)
(***************************************************************************)
EXTENDS Naturals, Sequences, SequencesExt

CONSTANTS
  Lower, Upper,   \* letters, and the function from each to its lower case
  Digits, Spaces,
  Symbols,        \* from a version to the characters that are tokens alone
  Others,         \* characters that no version accepts
  Keywords,       \* sequences of lower case letters
  MaxLength       \* bound: the length of a text

VARIABLES
  version,   \* "sql" or "lex"
  text,
  pc,        \* "init", "skip" at white space, "number", "word" or, in lex.c, "stopped"
  start,     \* where the token being read starts
  cursor,    \* the place of the next character
  tokens     \* the tokens handed out, but those for the end

vars == <<version, text, pc, start, cursor, tokens>>

Letters == Lower \cup DOMAIN Upper
Chars == Letters \cup Digits \cup Spaces \cup UNION {Symbols[v] : v \in DOMAIN Symbols} \cup Others
NUL == "nul"

Accepted == Letters \cup Digits \cup UNION {Symbols[v] : v \in DOMAIN Symbols}

LexerAssumption ==
  /\ MaxLength \in Nat /\ Keywords \subseteq Seq(Lower)
  /\ NUL \notin Chars /\ Spaces \cap Accepted = {}
  /\ Accepted \cap {"number", "keyword", "identifier", "error"} = {}

Init ==
  /\ pc = "init" /\ version = "sql" /\ text = <<>>
  /\ start = 1 /\ cursor = 1 /\ tokens = <<>>

Open ==
  /\ pc = "init" /\ pc' = "skip"
  /\ version' \in DOMAIN Symbols /\ text' \in BoundedSeq(Chars, MaxLength)
  /\ UNCHANGED <<start, cursor, tokens>>

peek == IF cursor > Len(text) THEN NUL ELSE text[cursor]

(* lexer_advance leaves the cursor at the NUL; lex.c looks before it calls  *)
(* advance.                                                                 *)
AfterPeek == IF peek = NUL THEN cursor ELSE cursor + 1

Skip ==
  /\ pc = "skip" /\ peek \in Spaces
  /\ cursor' = AfterPeek
  /\ UNCHANGED <<version, text, pc, start, tokens>>

Emit(type, first, last) ==
  tokens' = Append(tokens, [type |-> type, first |-> first, last |-> last])

(* A call at the end hands out an EOF, and so does the next.                *)
AtEnd ==
  /\ pc = "skip" /\ peek = NUL
  /\ cursor' = AfterPeek
  /\ UNCHANGED <<version, text, pc, start, tokens>>

Symbol ==
  /\ pc = "skip" /\ peek \in Symbols[version]
  /\ Emit(peek, cursor, cursor) /\ cursor' = AfterPeek
  /\ UNCHANGED <<version, text, pc, start>>

(* main of lex.c stops at an error, whose text is not of the source.        *)
Error ==
  /\ pc = "skip" /\ peek \notin Spaces \cup Symbols[version] \cup Digits \cup Letters \cup {NUL}
  /\ cursor' = AfterPeek
  /\ IF version = "lex" THEN pc' = "stopped" /\ UNCHANGED tokens
                        ELSE Emit("error", cursor, cursor) /\ UNCHANGED pc
  /\ UNCHANGED <<version, text, start>>

Begin ==
  /\ pc = "skip" /\ peek \in Digits \cup Letters
  /\ pc' = IF peek \in Digits THEN "number" ELSE "word"
  /\ start' = cursor /\ cursor' = AfterPeek
  /\ UNCHANGED <<version, text, tokens>>

Goes == peek \in (IF pc = "number" THEN Digits ELSE Digits \cup Letters)

Extend ==
  /\ pc \in {"number", "word"} /\ Goes
  /\ cursor' = AfterPeek
  /\ UNCHANGED <<version, text, pc, start, tokens>>

Folded(c) == IF version = "sql" /\ c \in DOMAIN Upper THEN Upper[c] ELSE c

(* Seeded bug: str_equals_case_insensitive without its last test.           *)
EqualsPrefix(k) ==
  \A i \in 0 .. cursor - start - 1 :
    Folded(text[start + i]) = IF i < Len(k) THEN k[i + 1] ELSE NUL

(* str_equals_case_insensitive, or the comparison in identifierType: over   *)
(* the length of the word, and then the keyword must be at its NUL.         *)
Equals(k) ==
  /\ \A i \in 0 .. cursor - start - 1 :
       Folded(text[start + i]) = IF i < Len(k) THEN k[i + 1] ELSE NUL
  /\ cursor - start = Len(k)

Finish ==
  /\ pc \in {"number", "word"} /\ ~ Goes
  /\ pc' = "skip"
  /\ Emit(IF pc = "number" THEN "number" ELSE
          IF \E k \in Keywords : Equals(k) THEN "keyword" ELSE "identifier", start, cursor - 1)
  /\ UNCHANGED <<version, text, start, cursor>>

Next ==
  Open \/ Skip \/ AtEnd \/ Symbol \/ Error \/ Begin \/ Extend \/ Finish

Spec == Init /\ [][Next]_vars

-----------------------------------------------------------------------------
Range1(t) == t.first .. t.last
Between == UNION {Range1(tokens[k]) : k \in DOMAIN tokens}
AllIn(t, class) == \A p \in Range1(t) : text[p] \in class
NextOut(t, class) == t.last = Len(text) \/ text[t.last + 1] \notin class
Word(t) == [i \in 1 .. t.last - t.first + 1 |-> Folded(text[t.first + i - 1])]

(* The tokens are what the text says: they follow each other and leave out  *)
(* white space only, each is of one kind and as long as it can be, and a    *)
(* word is a keyword exactly when the whole of it is one.  Nothing is ever  *)
(* read past the NUL, however often the end is asked for.                   *)
TextTiled ==
  /\ cursor <= Len(text) + 1
  /\ \A k \in 1 .. Len(tokens) - 1 : tokens[k].last < tokens[k + 1].first
  /\ pc = "skip" => \A p \in 1 .. cursor - 1 : p \in Between <=> text[p] \notin Spaces
  /\ \A k \in DOMAIN tokens :
       LET t == tokens[k] IN
       CASE t.type = "number" -> AllIn(t, Digits) /\ NextOut(t, Digits)
         [] t.type \in {"keyword", "identifier"} ->
              /\ text[t.first] \in Letters
              /\ AllIn(t, Letters \cup Digits) /\ NextOut(t, Letters \cup Digits)
              /\ t.type = "keyword" <=> Word(t) \in Keywords
         [] t.type = "error" -> t.first = t.last /\ text[t.first] \in Chars \ (Letters \cup Digits \cup Spaces)
         [] OTHER -> t.first = t.last /\ text[t.first] = t.type
=============================================================================
