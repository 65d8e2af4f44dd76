----------------------------- MODULE SectorLemmas ---------------------------
(***************************************************************************)
(* Facts about the sector transform, for every width of a word, length of  *)
(* a sector, key and keystream.  The exclusive-or is known only by the     *)
(* laws of XorAssumption.                                                  *)
(***************************************************************************)
EXTENDS SectorCipher, TLAPS

(* An exclusive-or with the same word is undone by itself: the argument of *)
(* cipher.rs:92 for xor_walk.                                              *)
LEMMA XorCancel ==
  ASSUME NEW a \in Word, NEW b \in Word
  PROVE  WordXor(WordXor(a, b), b) = a
<1>1. WordXor(WordXor(a, b), b) = WordXor(a, WordXor(b, b))
  BY XorAssumption
<1>2. WordXor(b, b) = 0 /\ WordXor(a, 0) = a
  BY XorAssumption
<1> QED
  BY <1>1, <1>2

(* The word folded in by xor_walk is a word again (two wrapping_add).      *)
LEMMA WalkKeyType ==
  ASSUME NEW l \in Nat, NEW i \in WordIdx
  PROVE  WalkKey(l, i) \in Word
<1> DEFINE k == (XorKey + l) % WordMod
<1>1. WordMod \in Nat \ {0} /\ XorKey \in Nat /\ i \in Nat
  BY WordAssumption DEF Word, WordIdx
<1>2. k \in Nat
  BY <1>1
<1>3. (k + i) % WordMod \in 0 .. WordMod - 1
  BY <1>1, <1>2
<1> QED
  BY <1>3 DEF WalkKey, Word

(* A sum of two words wraps at most once.                                  *)
LEMMA WrapOnce ==
  ASSUME NEW x \in Nat, x < 2 * WordMod
  PROVE  x % WordMod = IF x < WordMod THEN x ELSE x - WordMod
  BY WordAssumption

(* Below the width of a word, different addresses give different words at  *)
(* every index.                                                            *)
LEMMA WalkKeyInjective ==
  ASSUME NEW l \in Word, NEW m \in Word, l # m, NEW i \in WordIdx
  PROVE  WalkKey(l, i) # WalkKey(m, i)
<1> DEFINE a(x) == (XorKey + x) % WordMod
<1>1. /\ WordMod \in Nat \ {0} /\ XorKey \in 0 .. WordMod - 1
      /\ i \in 0 .. WordMod - 1
      /\ l \in 0 .. WordMod - 1 /\ m \in 0 .. WordMod - 1
  BY WordAssumption DEF Word, WordIdx
<1>2. \A x \in Word : /\ a(x) \in 0 .. WordMod - 1
                     /\ a(x) = IF XorKey + x < WordMod THEN XorKey + x
                               ELSE XorKey + x - WordMod
  BY <1>1, WrapOnce DEF Word
<1>3. a(l) # a(m) /\ a(l) \in 0 .. WordMod - 1 /\ a(m) \in 0 .. WordMod - 1
  BY <1>1, <1>2
<1> HIDE DEF a
<1>4. ASSUME NEW y \in 0 .. WordMod - 1
      PROVE  (y + i) % WordMod = IF y + i < WordMod THEN y + i ELSE y + i - WordMod
  BY <1>1, WrapOnce
<1>5. (a(l) + i) % WordMod # (a(m) + i) % WordMod
  BY <1>1, <1>3, <1>4
<1> QED
  BY <1>5 DEF WalkKey, a

(* The transform of a sector is a sector.                                  *)
LEMMA TransformType ==
  ASSUME NEW l \in Nat, NEW b \in Sector
  PROVE  EncryptSector(l, b) \in Sector /\ DecryptSector(l, b) \in Sector
<1>1. \A i \in WordIdx : b[i] \in Word /\ Keystream[i] \in Word /\ WalkKey(l, i) \in Word
  BY WordAssumption, WalkKeyType DEF Sector
<1>2. \A x, y \in Word : WordXor(x, y) \in Word
  BY XorAssumption
<1>3. ApplyKeystream(b) \in Sector /\ XorWalk(l, b) \in Sector
  BY <1>1, <1>2 DEF ApplyKeystream, XorWalk, Sector
<1> QED
  BY <1>1, <1>2, <1>3 DEF EncryptSector, DecryptSector, ApplyKeystream, XorWalk, Sector

(* A word of the ciphertext, written out.                                  *)
LEMMA EncryptWord ==
  ASSUME NEW l \in Nat, NEW b \in Sector, NEW i \in WordIdx
  PROVE  EncryptSector(l, b)[i] = WordXor(WordXor(b[i], Keystream[i]), WalkKey(l, i))
  BY DEF EncryptSector, XorWalk, ApplyKeystream

(* A word of the decrypted sector, written out.                            *)
LEMMA DecryptWord ==
  ASSUME NEW l \in Nat, NEW b \in Sector, NEW i \in WordIdx
  PROVE  DecryptSector(l, b)[i] = WordXor(WordXor(b[i], WalkKey(l, i)), Keystream[i])
  BY DEF DecryptSector, XorWalk, ApplyKeystream

(* decrypt_sector inverts encrypt_sector at the same address               *)
(* (cipher.rs:127).                                                        *)
THEOREM DecryptInvertsEncrypt ==
  ASSUME NEW l \in Nat, NEW b \in Sector
  PROVE  DecryptSector(l, EncryptSector(l, b)) = b
<1> DEFINE e == EncryptSector(l, b)
           d == DecryptSector(l, e)
<1>1. e \in Sector /\ d \in Sector
  BY TransformType
<1>2. ASSUME NEW i \in WordIdx
      PROVE  d[i] = b[i]
  <2>1. b[i] \in Word /\ Keystream[i] \in Word /\ WalkKey(l, i) \in Word
    BY WordAssumption, WalkKeyType DEF Sector
  <2>2. e[i] = WordXor(WordXor(b[i], Keystream[i]), WalkKey(l, i))
    BY EncryptWord
  <2>3. WordXor(b[i], Keystream[i]) \in Word
    BY <2>1, XorAssumption
  <2>4. WordXor(e[i], WalkKey(l, i)) = WordXor(b[i], Keystream[i])
    BY <2>1, <2>2, <2>3, XorCancel
  <2>5. d[i] = WordXor(WordXor(e[i], WalkKey(l, i)), Keystream[i])
    BY <1>1, DecryptWord
  <2> QED
    BY <2>1, <2>4, <2>5, XorCancel
<1> HIDE DEF e, d
<1> QED
  BY <1>1, <1>2 DEF Sector, d, e

(* Two addresses never encrypt a word to the same value, nor decrypt one   *)
(* to the same value: the contracts of cipher.rs:91 and cipher.rs:115.     *)
LEMMA DifferentAddress ==
  ASSUME NEW l \in Word, NEW m \in Word, l # m, NEW b \in Sector, NEW i \in WordIdx
  PROVE  /\ EncryptSector(l, b)[i] # EncryptSector(m, b)[i]
         /\ DecryptSector(l, b)[i] # DecryptSector(m, b)[i]
<1> DEFINE k == Keystream[i]
           x == WalkKey(l, i)
           y == WalkKey(m, i)
<1>1. l \in Nat /\ m \in Nat
  BY WordAssumption DEF Word
<1>2. b[i] \in Word /\ k \in Word /\ x \in Word /\ y \in Word /\ x # y
  BY <1>1, WordAssumption, WalkKeyType, WalkKeyInjective DEF Sector
<1> HIDE DEF k, x, y
<1>3. ASSUME NEW w \in Word, NEW v \in Word
      PROVE  WordXor(w, WordXor(w, v)) = v
  BY XorAssumption
<1>4. ASSUME NEW w \in Word
      PROVE  WordXor(w, x) # WordXor(w, y)
  BY <1>2, <1>3
<1>5. WordXor(b[i], k) \in Word /\ WordXor(b[i], x) \in Word /\ WordXor(b[i], y) \in Word
  BY <1>2, XorAssumption
<1>6. WordXor(WordXor(b[i], k), x) # WordXor(WordXor(b[i], k), y)
  BY <1>4, <1>5
<1>7. WordXor(WordXor(b[i], x), k) # WordXor(WordXor(b[i], y), k)
  BY <1>2, <1>4, <1>5, XorCancel
<1> QED
  BY <1>1, <1>6, <1>7, EncryptWord, DecryptWord DEF k, x, y
=============================================================================
