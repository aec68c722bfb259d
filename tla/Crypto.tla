------------------------------- MODULE Crypto -------------------------------
(***************************************************************************)
(* sample-tools/impl/cryptopp_impl.h: the RSA and AES objects around       *)
(* Crypto++.  What Crypto++ itself does is external: a block that was      *)
(* encrypted with a key opens with the same key when it arrives as it was, *)
(* and anything else makes a filter throw.  Every method catches: the      *)
(* result is either whole, with ok, or empty without.                      *)
(***************************************************************************)
EXTENDS Naturals, Sequences, SequencesExt

CONSTANTS
  FixedMaxPlaintextLength,  \* of an RSA key
  FixedCiphertextLength,
  BlockSize,                \* of AES
  KeyLengths                \* of AES

ASSUME LengthAssumption ==
  /\ FixedMaxPlaintextLength \in Nat \ {0}
  /\ FixedCiphertextLength \in Nat /\ FixedMaxPlaintextLength < FixedCiphertextLength
  /\ BlockSize \in Nat \ {0}
  /\ KeyLengths \subseteq Nat

Success(s) == [ok |-> TRUE, out |-> s]
Failure == [ok |-> FALSE, out |-> << >>]

-----------------------------------------------------------------------------
(* RSA keys.  Their text is the lines -----BEGIN ...----- and -----END     *)
(* ...----- that are known, such lines of other kinds, white space, other  *)
(* characters that are not of Base64 ("*"), and the data of keys.          *)

Without(s, dropped) ==
  FlattenSeq([i \in DOMAIN s |-> IF s[i] \in dropped THEN << >> ELSE <<s[i]>>])

(* strReplace(pemKey, t, "") one after the other.                          *)
crypto_PemToOneline(pemKey) == Without(pemKey, {"BEGIN", "END", "\r", "\n", " "})

(* Crypto++'s decoder skips what is not of its alphabet.                   *)
Base64Decoder(s) == Without(s, {"*"})

(* SetPublicKey, SetPrivateKey: Load reads one key from where the text     *)
(* begins, or throws, and leaves the rest.                                 *)
SetKey(content, data) ==
  LET decoded == Base64Decoder(crypto_PemToOneline(content))
  IN IF decoded # << >> /\ Head(decoded) = data THEN Success(<<data>>) ELSE Failure

-----------------------------------------------------------------------------
(* RSA encryption.  One block of ciphertext and whether a key opens it.    *)

Block(key, plain) ==
  [j \in 1..FixedCiphertextLength |-> [key |-> key, plain |-> plain, at |-> j]]
Opens(key, c) == c # << >> /\ c = Block(key, Head(c).plain)

(* Mutant: what does not fill a part is dropped. *)
Parts_WholeOnly(s, fixedLen) ==
  [j \in 1..Len(s) \div fixedLen |-> SubSeq(s, (j - 1) * fixedLen + 1, j * fixedLen)]

(* s in parts of fixedLen, the last one of what is left.                   *)
Parts(s, fixedLen) ==
  [j \in 1..(Len(s) + fixedLen - 1) \div fixedLen |->
     LET i == (j - 1) * fixedLen
         left == Len(s) - i
     IN SubSeq(s, i + 1, i + IF fixedLen < left THEN fixedLen ELSE left)]

EncryptHex(key, msg) ==
  LET parts == Parts(msg, FixedMaxPlaintextLength)
  IN Success(FlattenSeq([j \in DOMAIN parts |-> Block(key, parts[j])]))

DecryptHex(key, msg) ==
  LET parts == Parts(msg, FixedCiphertextLength)
  IN IF \A j \in DOMAIN parts : Opens(key, parts[j])
     THEN Success(FlattenSeq([j \in DOMAIN parts |-> Head(parts[j]).plain]))
     ELSE Failure

(* With one block, and Base64 around it.                                   *)
Encrypt(key, msg) ==
  IF Len(msg) <= FixedMaxPlaintextLength THEN Success(Block(key, msg)) ELSE Failure
Decrypt(key, msg) ==
  IF Opens(key, msg) THEN Success(Head(msg).plain) ELSE Failure

-----------------------------------------------------------------------------
(* RSA signatures in hexadecimal: a digit is its value and, for the        *)
(* letters, whether it is in upper case; <<0, "other">> is no digit.       *)

SignHex(signature) ==
  [i \in 1..2 * Len(signature) |->
     LET byte == signature[(i + 1) \div 2]
     IN <<IF i % 2 = 1 THEN byte \div 16 ELSE byte % 16, "upper">>]

(* strtol of one or two characters stops at the first that is no digit.    *)
strtol(s) ==
  IF Head(s)[2] = "other" THEN 0
  ELSE IF Len(s) = 1 \/ s[2][2] = "other" THEN s[1][1]
  ELSE 16 * s[1][1] + s[2][1]

(* The bytes VerifyHex compares with the signature.                        *)
VerifyHex(sign_hex) ==
  LET pairs == Parts(sign_hex, 2) IN [j \in DOMAIN pairs |-> strtol(pairs[j])]

-----------------------------------------------------------------------------
(* AES in ECB mode: PKCS padding fills the last block with bytes that say  *)
(* how many they are.  A block of ciphertext is shown as the plain block   *)
(* it opens to with the key it was made with; other keys are left out.     *)

Padded(msg) ==
  LET n == BlockSize - (Len(msg) % BlockSize) IN msg \o [i \in 1..n |-> n]

AesEncrypt(key, msg) ==
  IF Len(key) \in KeyLengths THEN Success(Parts(Padded(msg), BlockSize)) ELSE Failure

AesDecrypt(key, msg) ==
  LET plain == FlattenSeq(msg)
      n == Last(plain)
      kept == SubSeq(plain, 1, Len(plain) - n)
  IN IF \/ Len(key) \notin KeyLengths
        \/ msg = << >>
        \/ n \notin 1..BlockSize
        \/ plain # Padded(kept)
     THEN Failure
     ELSE Success(kept)
=============================================================================
