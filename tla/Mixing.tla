------------------------------- MODULE Mixing -------------------------------
(***************************************************************************)
(* The words that this repository packs and mixes: page ids and handles of  *)
(* two numbers, slots of three and the hashes of keys of one or more        *)
(* columns (src/c/hash4.c, hash5.c, bitpack1.c, bitpack2.c, handles1.c and  *)
(* poweroftwo.c).  The width of a word, the shifts and the odd multipliers  *)
(* are any, FMIX being that of key_hash or of hash_key; the digest of a     *)
(* string by the library is a word of its own.                              *)
(* Powers and bits are recursive functions, which theorems can be about.    *)
(***************************************************************************)
EXTENDS Naturals

CONSTANTS
  WordBits,                        \* bits of a word
  ByteBits,                        \* bits of a uint8_t
  FlagBits,                        \* bits of lp_flags
  Seed,                            \* of the callers
  GOLDEN, PRIME1, PRIME2, FMIX,    \* the multipliers; the first is the addend too
  ShiftA, ShiftB, ShiftC, ShiftD,  \* 30, 27, 31 and 33, or 16 in hash_key
  Up, Down,                        \* the shifts of hash_combine
  NumCols, Int32,                  \* the columns of an array or a row, and those that are INT32
  Sample                           \* bound: the values of the columns that do not differ

VARIABLES
  how,        \* which function is called
  fields,     \* its arguments but for the one that differs
  at,         \* which one that is
  one, two    \* the two values it has in the two calls

mixVars == <<how, fields, at, one, two>>

Pow2[n \in Nat] == IF n = 0 THEN 1 ELSE 2 * Pow2[n - 1]

(* The table of one bit, applied to all bits of two words.                  *)
BitByBit(table) ==
  LET word[p \in Nat \X Nat] ==
        IF p = <<0, 0>> THEN 0
        ELSE table[<<p[1] % 2, p[2] % 2>>] + 2 * word[<<p[1] \div 2, p[2] \div 2>>]
  IN word

Bits == {0, 1} \X {0, 1}
Xor(a, b) == BitByBit([p \in Bits |-> (p[1] + p[2]) % 2])[<<a, b>>]
Or(a, b) == BitByBit([p \in Bits |-> IF p = <<0, 0>> THEN 0 ELSE 1])[<<a, b>>]

Word == 0 .. Pow2[WordBits] - 1
Half == Pow2[WordBits \div 2]
Add(a, b) == (a + b) % Pow2[WordBits]
Mul(a, b) == (a * b) % Pow2[WordBits]
Left(a, n) == (a * Pow2[n]) % Pow2[WordBits]
Right(a, n) == a \div Pow2[n]
Fold(a, n) == Xor(a, Right(a, n))

ASSUME MixingAssumption ==
  /\ WordBits \in Nat /\ ByteBits \in 0 .. WordBits /\ FlagBits \in 0 .. WordBits
  /\ {ShiftA, ShiftB, ShiftC, ShiftD} \subseteq Nat \ {0} /\ Up \in Nat /\ Down \in Nat
  /\ Seed \in Word /\ {GOLDEN, PRIME1, PRIME2, FMIX} \subseteq {w \in Word : w % 2 = 1}
  /\ NumCols \in Nat

(* The finalizer that ends splitmix64, hash_finish and the others.          *)
Avalanche(h) == Fold(Mul(Fold(Mul(Fold(h, ShiftA), PRIME1), ShiftB), PRIME2), ShiftC)
splitmix64(x) == Avalanche(Add(x, GOLDEN))
hash_combine(h1, h2) ==
  splitmix64(Xor(h1, Add(Add(h2, GOLDEN), Add(Left(h1, Up), Right(h1, Down)))))

(* Seeded bug: a column is or-ed into the accumulator.                      *)
OrInto(h, v, prime) == Mul(Or(h, v), prime)

hash_add(h, v, prime) == Mul(Xor(h, v), prime)

(* Keys added column by column; hash_wide is hash_wide_composite_optimized, *)
(* and a row without an INT32 hashes as hash_key_6 does.                    *)
ByColumn == {"hash_key_4", "hash_u64_array", "hash_dynamic_row", "key_hash", "hash_wide"}
Functions == ByColumn \cup {"splitmix64", "hash_key", "hash_short_composite",
                            "hash_mixed_with_string", "make_page_id", "slot"}

Arity(f) ==
  CASE f \in {"hash_u64_array", "hash_dynamic_row"} -> NumCols
    [] f \in {"hash_key_4", "key_hash", "hash_wide"} -> 4
    [] f \in {"splitmix64", "hash_key"} -> 1
    [] f \in {"hash_short_composite", "make_page_id"} -> 2
    [] f \in {"hash_mixed_with_string", "slot"} -> 3

(* The multiplier for column i.                                             *)
Prime(f, i) ==
  CASE f = "hash_key_4" -> IF i = 4 THEN PRIME2 ELSE PRIME1
    [] f = "hash_u64_array" -> IF i % 2 = 1 THEN PRIME1 ELSE PRIME2
    [] f = "hash_dynamic_row" -> IF i \in Int32 THEN PRIME2 ELSE PRIME1
    [] f \in {"key_hash", "hash_wide"} -> <<PRIME1, PRIME2, GOLDEN, PRIME1>>[i]

(* What a column contributes: hash_dynamic_row casts an INT32 to uint8_t.   *)
Byte(v) == v % Pow2[ByteBits]
Cast(f, i, v) == IF f = "hash_dynamic_row" /\ i \in Int32 THEN Byte(v) ELSE v

Columns(f, k) ==
  LET acc[i \in 0 .. Arity(f)] ==
        IF i = 0 THEN Xor(Seed, GOLDEN) ELSE hash_add(acc[i - 1], Cast(f, i, k[i]), Prime(f, i))
      h == acc[Arity(f)]
  IN IF f = "key_hash" THEN Fold(Mul(Fold(h, ShiftD), FMIX), ShiftD) ELSE Avalanche(h)

(* Arguments with fewer bits than their place in the word are kept in it by *)
(* their type, or by a mask in bitpack2.c.                                  *)
FieldBits == (WordBits - FlagBits) \div 2
Lengths == Pow2[FieldBits]

Call(f, k) ==
  CASE f \in ByColumn               -> Columns(f, k)
    [] f = "splitmix64"             -> splitmix64(k[1])
    [] f = "hash_key"               -> Fold(Mul(Fold(Mul(Fold(k[1], ShiftD), FMIX), ShiftD), FMIX), ShiftD)
    [] f = "hash_short_composite"   -> hash_combine(splitmix64(k[1]), splitmix64(k[2]))
    [] f = "hash_mixed_with_string" -> hash_combine(hash_combine(k[1], k[2]), k[3])
    [] f = "make_page_id"           -> Or(Left(k[1], WordBits \div 2), k[2])
    [] f = "slot"                   -> Or(Or(k[1], Left(k[2], FieldBits)), Left(k[3], FieldBits + FlagBits))

(* The values of argument i.                                                *)
Values(f, i) ==
  CASE f = "make_page_id" \/ (f = "hash_dynamic_row" /\ i \in Int32) -> 0 .. Half - 1
    [] f \in {"hash_key_4", "key_hash", "hash_wide"} /\ i = 4 -> 0 .. Pow2[ByteBits] - 1
    [] f = "slot" -> 0 .. (IF i = 2 THEN Pow2[FlagBits] ELSE Lengths) - 1
    [] OTHER -> Word

MixInit == how = "none" /\ fields = <<>> /\ at = 0 /\ one = 0 /\ two = 0

MixNext ==
  /\ how = "none"
  /\ how' \in Functions
  /\ at' \in 1 .. Arity(how')
  /\ fields' \in [1 .. Arity(how') -> Sample]
  /\ \A i \in 1 .. Arity(how') : fields'[i] \in Values(how', i)
  /\ one' \in Values(how', at') /\ two' \in Values(how', at') /\ one' < two'

MixSpec == MixInit /\ [][MixNext]_mixVars

-----------------------------------------------------------------------------
(* Two keys that differ in one column have different hashes, and two packed *)
(* words are equal only if all their parts are, so that mixing "prevents ID *)
(* cancellation", as the comment in hash4.c has it.  Not so for two INT32   *)
(* that agree in their low byte, nor for the columns of hash_combine but    *)
(* its last.                                                                *)
With(v) == [fields EXCEPT ![at] = v]
Weak == \/ Cast(how, at, one) = Cast(how, at, two)
        \/ how \in {"hash_short_composite", "hash_mixed_with_string"} /\ at < Arity(how)
KeysSeparate == how # "none" /\ ~ Weak => Call(how, With(one)) # Call(how, With(two))

=============================================================================
