------------------------------ MODULE MCTools ------------------------------
(***************************************************************************)
(* The algorithms of sample-tools and of the HTTP query, each run on every *)
(* input of a small set: a state is an input and what is said about it.    *)
(***************************************************************************)
EXTENDS Crypto, Hardware, HttpQuery, Zlib, FiniteSets

CONSTANTS
  MaxLength,     \* of the messages
  MaxValue,      \* of a parameter's value
  MaxInterfaces

ASSUME BoundAssumption == MaxLength \in Nat /\ MaxValue \in Nat /\ MaxInterfaces \in Nat

VARIABLE input

(* Messages whose bytes are all different, and their keys.                 *)
Message == {[i \in 1..n |-> i] : n \in 0..MaxLength}
Key == {"k1", "k2"}
Byte == {0, 1, 9, 10, 15, 16, 159, 160, 255}

Text == BoundedSeq({"BEGIN", "BEGIN RSA", "END", "\n", "*", "data"}, 4)

Char == {"a", " ", "+", "&", "=", "%"}
Value == BoundedSeq(Char, MaxValue)

Mac == {<<p, b>> : p \in {0, 5, 200}, b \in {1, 255}}

Input ==
  [tool : {"rsa"}, key : Key, msg : Message] \cup
  [tool : {"sign"}, msg : BoundedSeq(Byte, 2)] \cup
  [tool : {"key"}, text : Text] \cup
  [tool : {"aes"}, key : {<<1>>, <<1, 2>>}, msg : Message] \cup
  [tool : {"query"}, first : Value, second : Value] \cup
  [tool : {"zlib"}, length : {1, 20, 1000, 40000, 1000000}, more : -1..1] \cup
  [tool : {"mac"}, interfaces : BoundedSeq(Mac, MaxInterfaces)]

None == [tool |-> "none"]

Init == input = None
Next == input = None /\ input' \in Input
Spec == Init /\ [][Next]_input

-----------------------------------------------------------------------------
(* Properties. *)

Is(tool) == input.tool = tool

LeastOf(m, n) == IF m < n THEN m ELSE n

(* What EncryptHex makes of a message of any length, DecryptHex with the   *)
(* same key turns back into the message; another key gets nothing.  Of a   *)
(* ciphertext that was cut off it returns nothing, but for a cut between   *)
(* two blocks, which it cannot see.  Encrypt does one block or fails.      *)
RsaOpensWhole == Is("rsa") =>
  LET key == input.key
      msg == input.msg
      sent == EncryptHex(key, msg).out
      other == CHOOSE k \in Key : k # key
      single == Encrypt(key, msg)
  IN /\ DecryptHex(key, sent) = Success(msg)
     /\ msg # << >> => DecryptHex(other, sent) = Failure
     /\ \A n \in 0..Len(sent) :
          LET blocks == n \div FixedCiphertextLength IN
          DecryptHex(key, SubSeq(sent, 1, n)) =
            IF n % FixedCiphertextLength # 0 THEN Failure
            ELSE Success(SubSeq(msg, 1, LeastOf(Len(msg), blocks * FixedMaxPlaintextLength)))
     /\ IF Len(msg) <= FixedMaxPlaintextLength THEN Decrypt(key, single.out) = Success(msg)
                                               ELSE ~single.ok

(* The hexadecimal text of a signature stands for the bytes of this        *)
(* signature in upper and in lower case.                                   *)
SignatureReads == Is("sign") =>
  LET hex == SignHex(input.msg)
      lower == [i \in DOMAIN hex |-> <<hex[i][1], "lower">>]
  IN VerifyHex(hex) = input.msg /\ VerifyHex(lower) = input.msg

(* A key loads from its text exactly when, before its data, there is       *)
(* nothing but the usual lines, white space and characters that are not of *)
(* Base64: with a first line of another kind (BEGIN RSA) it does not, and  *)
(* what follows the data does not matter.                                  *)
KeyLoads == Is("key") =>
  (SetKey(input.text, "data").ok <=>
     \E i \in DOMAIN input.text :
       input.text[i] = "data" /\ \A j \in 1..i - 1 : input.text[j] # "BEGIN RSA")

(* AES gives the message back for keys of a possible length, also when the *)
(* message fills its last block.                                           *)
AesOpensWhole == Is("aes") =>
  AesDecrypt(input.key, AesEncrypt(input.key, input.msg).out) =
    IF Len(input.key) \in KeyLengths THEN Success(input.msg) ELSE Failure

(* What the crypto objects turn into another form they read back whole.    *)
CryptoReadsBack == RsaOpensWhole /\ SignatureReads /\ KeyLoads /\ AesOpensWhole

(* Uncompress gives the whole original or nothing, and the original        *)
(* whenever the data is as dense as zlib can make it (1032 to 1), also     *)
(* when it fits the buffer of some attempt exactly.                        *)
UncompressIsWhole == Is("zlib") =>
  LET guess == compressBound(input.length + 1024)
      densest == 1032 * input.length
      originals == {densest} \cup {LeastOf(densest, guess * 2^k + input.more) : k \in 0..11}
  IN \A n \in originals :
       /\ n > 0 => Uncompress(input.length, n) = n
       /\ n > 0 => Compress(n, LeastOf(n, input.length)) = LeastOf(n, input.length)
       /\ Uncompress(input.length, -1) = 0

(* The addresses at J in the one list are those at I in the other.         *)
Reordered(list, I, other, J) ==
  \E f \in Bijection(I, J) : \A i \in I : other[f[i]] = list[i]

(* The address is the same in whatever order the interfaces are listed and *)
(* whichever virtual ones come and go, as long as a physical one is there  *)
(* and all of them are listed.                                             *)
MacIsStable == Is("mac") /\ Len(input.interfaces) <= IfLimit =>
  LET list == input.interfaces
      physical(l) == {i \in DOMAIN l : ~IsVirtual(l[i])}
  IN \A other \in BoundedSeq(Mac, LeastOf(MaxInterfaces, IfLimit)) :
       (\/ Reordered(list, DOMAIN list, other, DOMAIN other)
        \/ physical(list) # {} /\ Reordered(list, physical(list), other, physical(other)))
         => GetMacAddr(other) = GetMacAddr(list)

(* Parameters whose values are free of & and = arrive as they were given:  *)
(* what a client encodes a server decodes, though the server decodes       *)
(* before it splits.                                                       *)
ParametersArrive == Is("query") =>
  LET params == <<<<<<"a">>, input.first>>, <<<<"b">>, input.second>>>>
      arrived == parameters(ParseParam(params))
  IN (\A i \in DOMAIN params : ~Contains(params[i][2], "&") /\ ~Contains(params[i][2], "=")) =>
       /\ DOMAIN arrived = {params[i][1] : i \in DOMAIN params}
       /\ \A i \in DOMAIN params : arrived[params[i][1]] = params[i][2]
=============================================================================
