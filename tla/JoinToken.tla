------------------------------ MODULE JoinToken ------------------------------
(***************************************************************************)
(* The join-token codec of clientaccess: parseToken, Info.String and      *)
(* ParseUsernamePassword, on strings written as sequences of characters.  *)
(* The codec is called with any string the operator may configure, and    *)
(* Info.String with any Info a node may hold.                             *)
(***************************************************************************)
EXTENDS Naturals, Sequences, SequencesExt

CONSTANTS
  TokenPrefix,   \* tokenPrefix, "K10"
  Chars,         \* the characters strings are made of
  MaxLen,        \* longest raw token tried
  CABundles,     \* CA bundles an Info may hold (a model value each)
  HashCA,        \* bundle -> hex digest, hashCA
  Users,         \* usernames an Info may hold
  Passwords,     \* passwords an Info may hold
  InvalidFormat, \* the error of parseToken, "invalid token format"
  NoInfo,        \* no Info printed yet
  NotParsed      \* parseToken not yet run on the current token

Colon == <<":">>
DoubleColon == <<":", ":">>

ASSUME JoinTokenAssumption ==
  /\ ":" \in Chars
  /\ TokenPrefix \in Seq(Chars \ {":"}) /\ TokenPrefix # <<>>
  /\ MaxLen \in Nat
  /\ HashCA \in [CABundles -> Seq(Chars \ {":"})]
  /\ Users \subseteq Seq(Chars) /\ Passwords \subseteq Seq(Chars)

Strings == SeqOf(Chars, MaxLen)

-----------------------------------------------------------------------------
(* strings.SplitN(s, sep, 2): split at the first occurrence of sep.       *)
SplitN2(s, sep) ==
  IF sep \in SubSeqs(s)
  THEN LET i == IndexFirstSubSeq(sep, s)
       IN <<SubSeq(s, 1, i - 1), SubSeq(s, i + Len(sep), Len(s))>>
  ELSE <<s>>

(* Mutant of TokenFormat: a single ":" after the hash.                   *)
TokenFormatOneColon(prefix, hash, user, pass) ==
  prefix \o hash \o Colon \o user \o Colon \o pass

(* tokenFormat, "%s%s::%s:%s".                                            *)
TokenFormat(prefix, hash, user, pass) ==
  prefix \o hash \o DoubleColon \o user \o Colon \o pass

(* parseToken: an untagged token is wrapped as the password of an empty   *)
(* user; the prefix is stripped; the first "::" ends the CA hash; the     *)
(* first ":" of the rest ends the username.                               *)
ParseToken(token) ==
  LET wrapped == IF IsPrefix(TokenPrefix, token) THEN token
                 ELSE TokenFormat(TokenPrefix, <<>>, <<>>, token)
      body == SubSeq(wrapped, Len(TokenPrefix) + 1, Len(wrapped))
      p1 == SplitN2(body, DoubleColon)
      caHash == IF Len(p1) > 1 THEN p1[1] ELSE <<>>
      rest == IF Len(p1) > 1 THEN p1[2] ELSE p1[1]
      p2 == SplitN2(rest, Colon)
  IN IF Len(p2) # 2 THEN InvalidFormat
     ELSE [caHash |-> caHash, username |-> p2[1], password |-> p2[2]]

(* Mutant of InfoString: the hash the Info's token declared is printed.  *)
InfoStringDeclared(i) ==
  TokenFormat(TokenPrefix, i.caHash, i.username, i.password)

(* Info.String: the token of an Info carries the hash of its CA bundle.  *)
InfoString(i) ==
  TokenFormat(TokenPrefix, HashCA[i.cacerts], i.username, i.password)

(* ParseUsernamePassword.                                                 *)
ParseUsernamePassword(token) ==
  LET t == ParseToken(token)
  IN IF t = InvalidFormat THEN <<<<>>, <<>>, FALSE>>
     ELSE <<t.username, t.password, TRUE>>

-----------------------------------------------------------------------------
(* The decoding of spec section 4.1, written from its words: an untagged   *)
(* string is all password; a tagged one is split at the first "::", if    *)
(* any, and the rest at its first ":", which must exist.                  *)
SpecDecode(raw) ==
  IF ~IsPrefix(TokenPrefix, raw)
  THEN [caHash |-> <<>>, username |-> <<>>, password |-> raw]
  ELSE LET r == SubSeq(raw, Len(TokenPrefix) + 1, Len(raw))
           \* h \o "::" \o rest = r with no "::" before the end of h \o ":"
           Cut(k) == /\ k + 2 <= Len(r)
                     /\ SubSeq(r, k + 1, k + 2) = DoubleColon
                     /\ DoubleColon \notin SubSeqs(SubSeq(r, 1, k) \o Colon)
           hasHash == \E k \in 0 .. Len(r) : Cut(k)
           k0 == CHOOSE k \in 0 .. Len(r) : Cut(k)
           h == IF hasHash THEN SubSeq(r, 1, k0) ELSE <<>>
           rest == IF hasHash THEN SubSeq(r, k0 + 3, Len(r)) ELSE r
           UserEnd(m) == /\ m + 1 <= Len(rest)
                         /\ rest[m + 1] = ":"
                         /\ \A j \in 1 .. m : rest[j] # ":"
       IN IF \E m \in 0 .. Len(rest) : UserEnd(m)
          THEN LET m0 == CHOOSE m \in 0 .. Len(rest) : UserEnd(m)
               IN [caHash |-> h, username |-> SubSeq(rest, 1, m0),
                   password |-> SubSeq(rest, m0 + 2, Len(rest))]
          ELSE InvalidFormat

-----------------------------------------------------------------------------
(* The codec used over and over: a raw token from the config is parsed,  *)
(* then tokens that Info.String prints for Infos are parsed.              *)

(* An Info holds the hash its token declared, if any, and that hash has  *)
(* passed validateCAHash against the bundle.                              *)
Infos == {i \in [cacerts : CABundles, caHash : {<<>>} \cup Range(HashCA),
                 username : Users, password : Passwords] :
            i.caHash \in {<<>>, HashCA[i.cacerts]}}

VARIABLES token, info, decoded
vars == <<token, info, decoded>>

Init ==
  /\ token \in Strings
  /\ info = NoInfo
  /\ decoded = NotParsed

(* Once a token is parsed, Info.String prints the token of an Info.      *)
PrintInfo ==
  /\ decoded # NotParsed
  /\ info' \in Infos
  /\ token' = InfoString(info')
  /\ decoded' = NotParsed

(* parseToken runs on the current token.                                  *)
Parse ==
  /\ decoded = NotParsed
  /\ decoded' = ParseToken(token)
  /\ UNCHANGED <<token, info>>

Next == PrintInfo \/ Parse

Spec == Init /\ [][Next]_vars

-----------------------------------------------------------------------------
(* parseToken decodes every string as spec section 4.1 says: untagged    *)
(* strings are opaque passwords, only the first "::" and the first ":"   *)
(* count, the password keeps every later separator, and a tagged string  *)
(* without a user separator is the one format error.                     *)
DecodeAsSpecified == decoded # NotParsed => decoded = SpecDecode(token)

(* What Info.String prints, parseToken reads back: the same username and *)
(* password, and the hash of the Info's CA bundle, for every username    *)
(* without a ":" (passwords may hold any separators).                    *)
PrintParsesBack ==
  (decoded # NotParsed /\ info # NoInfo /\ Colon \notin SubSeqs(info.username))
    => decoded = [caHash |-> HashCA[info.cacerts], username |-> info.username,
                  password |-> info.password]

(* Spec section 8, round trip: Decode(Encode(info)) reproduces the        *)
(* username, the password and the CA hash of the Info.                    *)
RoundTrip ==
  (decoded # NotParsed /\ info # NoInfo /\ info.username # <<>>
     /\ Colon \notin SubSeqs(info.username))
    => decoded = [caHash |-> info.caHash, username |-> info.username,
                  password |-> info.password]

=============================================================================
