--------------------------- MODULE FragmenterProofs ---------------------------
(***************************************************************************)
(* What Fragmenter promises of every candidate and every ChunkerConfig.    *)
(***************************************************************************)
EXTENDS Fragmenter, TLAPS

(* The next piece begins where a character begins. *)
AtCharacter == outcome # "failed" /\ current < Size => source[current + 1] # "co"

(* The inductive invariant: the properties, and where the next piece begins. *)
IInv ==
    /\ TypeOK
    /\ source \in Candidates
    /\ AtCharacter
    /\ PiecesTile
    /\ PiecesAreText
    /\ LinesStayWhole
    /\ FailsOnlyOnWideText

(* A character is one to four bytes wide. *)
LEMMA Widths ==
    /\ \A b \in Bytes : Width[b] \in 1 .. 4
    /\ Width["lf"] = 1 /\ Width["cr"] = 1
BY DEF Width, Bytes

(* A prefix of a text that ends before a character, or with the text, cuts *)
(* no character: with a start at a character it decodes.                   *)
LEMMA DecodesBetween ==
    ASSUME NEW s \in Seq(Bytes), Decodes(s, 0, Len(s)),
           NEW a \in 0 .. Len(s), NEW b \in a + 1 .. Len(s),
           s[a + 1] # "co",
           b < Len(s) => s[b + 1] # "co"
    PROVE  Decodes(s, a, b)
<1>1. ASSUME NEW i \in a + 1 .. b, s[i] # "co"
      PROVE  /\ i + Width[s[i]] - 1 <= b
             /\ \A j \in i + 1 .. i + Width[s[i]] - 1 : s[j] = "co"
  <2>1. s[i] \in Bytes /\ Width[s[i]] \in 1 .. 4
    BY Widths
  <2>2. /\ i + Width[s[i]] - 1 <= Len(s)
        /\ \A j \in i + 1 .. i + Width[s[i]] - 1 : s[j] = "co"
    BY <1>1 DEF Decodes
  <2>3. i + Width[s[i]] - 1 <= b
    BY <2>1, <2>2
  <2> QED
    BY <2>2, <2>3
<1>2. ASSUME NEW i \in a + 1 .. b, s[i] = "co"
      PROVE  \E j \in a + 1 .. i - 1 : s[j] # "co" /\ i < j + Width[s[j]]
  <2>1. PICK j \in 1 .. i - 1 : s[j] # "co" /\ i < j + Width[s[j]]
    BY <1>2 DEF Decodes
  <2>2. s[j] \in Bytes /\ Width[s[j]] \in 1 .. 4
    BY Widths
  <2>3. \A k \in j + 1 .. j + Width[s[j]] - 1 : s[k] = "co"
    BY <2>1 DEF Decodes
  <2>4. j >= a + 1
    BY <2>1, <2>2, <2>3
  <2> QED
    BY <2>1, <2>4
<1> QED
  BY <1>1, <1>2 DEF Decodes

(* Where a decoding prefix of a text ends, a character begins. *)
LEMMA CharacterAfter ==
    ASSUME NEW s \in Seq(Bytes), Decodes(s, 0, Len(s)),
           NEW a \in 0 .. Len(s), NEW b \in a + 1 .. Len(s) - 1,
           s[a + 1] # "co", Decodes(s, a, b)
    PROVE  s[b + 1] # "co"
<1> SUFFICES ASSUME s[b + 1] = "co" PROVE FALSE
  OBVIOUS
<1>1. PICK j \in 1 .. b : s[j] # "co" /\ b + 1 < j + Width[s[j]]
  BY DEF Decodes
<1>2. s[j] \in Bytes /\ Width[s[j]] \in 1 .. 4
  BY Widths
<1>3. \A k \in j + 1 .. j + Width[s[j]] - 1 : s[k] = "co"
  BY <1>1 DEF Decodes
<1>4. j >= a + 1
  BY <1>1, <1>2, <1>3
<1> QED
  BY <1>1, <1>2, <1>4 DEF Decodes

(* A character begins after a line terminator. *)
LEMMA CharacterAfterLine ==
    ASSUME NEW s \in Seq(Bytes), Decodes(s, 0, Len(s)),
           NEW b \in 1 .. Len(s) - 1, s[b] = "lf"
    PROVE  s[b + 1] # "co"
<1> SUFFICES ASSUME s[b + 1] = "co" PROVE FALSE
  OBVIOUS
<1>1. PICK j \in 1 .. b : s[j] # "co" /\ b + 1 < j + Width[s[j]]
  BY DEF Decodes
<1>2. s[j] \in Bytes /\ Width[s[j]] \in 1 .. 4
  BY Widths
<1>3. \A k \in j + 1 .. j + Width[s[j]] - 1 : s[k] = "co"
  BY <1>1 DEF Decodes
<1>4. j = b
  BY <1>1, <1>2, <1>3
<1> QED
  BY <1>1, <1>4, Widths

-------------------------------------------------------------------------------
(* The steps *)

(* Nothing is cut at first. *)
LEMMA InitIInv == Init => IInv
<1> SUFFICES ASSUME Init PROVE IInv
  OBVIOUS
<1>1. source \in Seq(Bytes) /\ source # << >> /\ Decodes(source, 0, Size)
  BY CandidatesAreText DEF Init, Size
<1>2. source[1] # "co"
  <2>1. source[1] = "co" => \E j \in 1 .. 0 : TRUE
    BY <1>1 DEF Decodes, Size
  <2> QED
    BY <2>1
<1> QED
  BY <1>1, <1>2 DEF Init, IInv, TypeOK, AtCharacter, PiecesTile, PiecesAreText, LinesStayWhole,
     FailsOnlyOnWideText, Size

(* A turn that takes a piece keeps the invariant, when the piece is not    *)
(* empty, fits, decodes, ends before a character and outside a CRLF, and   *)
(* cuts no line that fits.                                                 *)
LEMMA TakeIInv ==
    ASSUME IInv, outcome = "cutting",
           NEW end \in current + 1 .. Size,
           end - current <= config.max,
           Decodes(source, current, end),
           end < Size => /\ source[end + 1] # "co"
                         /\ ~(source[end] = "cr" /\ source[end + 1] = "lf"),
           \A a, b \in 0 .. Size : IsLine(a, b) /\ a < end /\ end < b => b - a > config.max,
           Take(end)
    PROVE  IInv'
<1> DEFINE n == Len(pieces)
<1>1. /\ source \in Seq(Bytes) /\ Size \in Nat /\ current \in Nat /\ end \in Nat
      /\ current < Size /\ config \in Configs
      /\ pieces \in Seq((0 .. Size) \X (0 .. Size))
  BY DEF IInv, TypeOK, Size
<1>2. /\ pieces' = Append(pieces, <<current, end>>)
      /\ current' = end /\ source' = source /\ config' = config /\ Size' = Size
      /\ outcome' = IF end = Size THEN "done" ELSE "cutting"
  BY DEF Take, Size
<1>3. /\ pieces' \in Seq((0 .. Size) \X (0 .. Size))
      /\ Len(pieces') = n + 1 /\ n \in Nat
      /\ pieces'[n + 1] = <<current, end>>
      /\ \A i \in 1 .. n : pieces'[i] = pieces[i]
  BY <1>1, <1>2
<1>4. TypeOK' /\ (source \in Candidates)' /\ AtCharacter' /\ FailsOnlyOnWideText'
  BY <1>1, <1>2, <1>3 DEF IInv, TypeOK, AtCharacter, FailsOnlyOnWideText
<1>5. PiecesTile'
  <2>1. \A i \in 1 .. n :
            /\ pieces[i][1] = IF i = 1 THEN 0 ELSE pieces[i - 1][2]
            /\ pieces[i][1] < pieces[i][2]
    BY DEF IInv, PiecesTile
  <2>2. current = IF n = 0 THEN 0 ELSE pieces[n][2]
    BY <1>1 DEF IInv, PiecesTile
  <2>3. ASSUME NEW i \in 1 .. n + 1
        PROVE  /\ pieces'[i][1] = IF i = 1 THEN 0 ELSE pieces'[i - 1][2]
               /\ pieces'[i][1] < pieces'[i][2]
    <3>1. CASE i = n + 1
      <4>1. n = 0 => i = 1 /\ current = 0
        BY <2>2, <3>1
      <4>2. n # 0 => i # 1 /\ i - 1 = n /\ n \in 1 .. n
        BY <1>3, <3>1
      <4>3. n # 0 => pieces'[n] = pieces[n] /\ current = pieces[n][2]
        BY <1>3, <2>2, <4>2
      <4>4. current = IF i = 1 THEN 0 ELSE pieces'[i - 1][2]
        BY <4>1, <4>2, <4>3
      <4>5. pieces'[i][1] = current /\ pieces'[i][2] = end
        BY <1>3, <3>1
      <4> QED
        BY <1>1, <4>4, <4>5, SMTT(20)
    <3>2. CASE i \in 1 .. n
      <4>1. i # 1 => i - 1 \in 1 .. n
        BY <1>3, <3>2
      <4> QED
        BY <1>3, <2>1, <3>2, <4>1
    <3> QED
      BY <1>3, <3>1, <3>2
  <2>4. current' = IF pieces' = << >> THEN 0 ELSE pieces'[Len(pieces')][2]
    BY <1>1, <1>2, <1>3, SMTT(20)
  <2> QED
    BY <1>1, <1>2, <1>3, <2>3, <2>4 DEF PiecesTile
<1>6. PiecesAreText'
  <2>1. ASSUME NEW i \in 1 .. n + 1
        PROVE  LET a == pieces'[i][1]  b == pieces'[i][2]
               IN /\ b - a <= config.max
                  /\ Decodes(source, a, b)
                  /\ b < Size => ~(source[b] = "cr" /\ source[b + 1] = "lf")
    <3>1. CASE i = n + 1
      BY <1>3, <3>1
    <3>2. CASE i \in 1 .. n
      BY <1>3, <3>2 DEF IInv, PiecesAreText
    <3> QED
      BY <1>3, <3>1, <3>2
  <2>2. \A a, b : Decodes(source, a, b)' <=> Decodes(source, a, b)
    BY <1>2 DEF Decodes
  <2> QED
    BY <1>2, <1>3, <2>1, <2>2 DEF PiecesAreText
<1>7. LinesStayWhole'
  <2>1. ASSUME NEW i \in 1 .. n + 1, NEW a \in 0 .. Size, NEW b \in 0 .. Size,
               IsLine(a, b), a < pieces'[i][2], pieces'[i][2] < b
        PROVE  b - a > config.max
    <3>1. CASE i = n + 1
      BY <1>3, <2>1, <3>1
    <3>2. CASE i \in 1 .. n
      BY <1>3, <2>1, <3>2 DEF IInv, LinesStayWhole
    <3> QED
      BY <1>3, <3>1, <3>2
  <2>2. \A a, b : IsLine(a, b)' <=> IsLine(a, b)
    BY <1>2 DEF IsLine
  <2> QED
    BY <1>2, <1>3, <2>1, <2>2 DEF LinesStayWhole
<1> QED
  BY <1>4, <1>5, <1>6, <1>7 DEF IInv

(* Facts every turn starts from. *)
LEMMA AtTurn ==
    ASSUME IInv, outcome = "cutting"
    PROVE  /\ source \in Seq(Bytes) /\ Size \in Nat /\ Size = Len(source)
           /\ current \in Nat /\ current < Size
           /\ config.target \in Nat \ {0} /\ config.max \in Nat \ {0}
           /\ config.target <= config.max
           /\ Decodes(source, 0, Size)
           /\ source[current + 1] # "co"
<1>1. current # Size
  BY DEF IInv, PiecesTile
<1> QED
  BY <1>1, CandidatesAreText, ConfigsAreValid DEF IInv, TypeOK, AtCharacter, Size

(* The rest of the candidate fits, and ends where the candidate ends. *)
LEMMA TakeRestIInv == ASSUME IInv, TakeRest PROVE IInv'
<1> USE AtTurn
<1>1. outcome = "cutting" /\ Size - current <= config.max /\ Take(Size)
  BY DEF TakeRest, Fits, Remaining
<1>2. Decodes(source, current, Size)
  BY <1>1, DecodesBetween
<1>3. Size \in current + 1 .. Size
  BY <1>1
<1>4. \A a, b \in 0 .. Size : IsLine(a, b) /\ a < Size /\ Size < b => b - a > config.max
  BY <1>1
<1> QED
  BY <1>1, <1>2, <1>3, <1>4, TakeIInv

(* A cut after the last line that fits cuts no line. *)
LEMMA CutAfterLineIInv == ASSUME IInv, CutAfterLine PROVE IInv'
<1> USE AtTurn
<1>1. outcome = "cutting"
  BY DEF CutAfterLine
<1>2. PICK e \in LineEnds(current + config.max) : Take(e)
  BY DEF CutAfterLine
<1>3. e \in current + 1 .. Size /\ e - current <= config.max /\ source[e] = "lf"
  BY <1>1, <1>2 DEF LineEnds
<1>4. e < Size => source[e + 1] # "co"
  BY <1>1, <1>3, CharacterAfterLine
<1>5. Decodes(source, current, e)
  BY <1>1, <1>3, <1>4, DecodesBetween
<1>6. \A a, b \in 0 .. Size : IsLine(a, b) /\ a < e /\ e < b => b - a > config.max
  BY <1>1, <1>3 DEF IsLine
<1> QED
  BY <1>1, <1>2, <1>3, <1>4, <1>5, <1>6, TakeIInv

(* A cut inside a line cuts one that is longer than max_chunk_bytes. *)
LEMMA CutInsideLineIInv == ASSUME IInv, CutInsideLine PROVE IInv'
<1> USE AtTurn
<1>1. /\ outcome = "cutting" /\ Size - current > config.max
      /\ LineEnds(current + config.max) = {}
  BY DEF CutInsideLine, Fits, Remaining
<1>2. PICK e \in CodePointEnds : Take(e)
  BY DEF CutInsideLine
<1>3. /\ Proposed <= current + config.max /\ Proposed \in Nat
      /\ source[Proposed] = "cr" /\ Proposed = current + config.max =>
            source[Proposed + 1] # "lf"
  BY <1>1, SMTT(20) DEF Proposed
<1>4. e \in current + 1 .. Proposed /\ Decodes(source, current, e)
  BY <1>2 DEF CodePointEnds
<1>5. e \in current + 1 .. Size /\ e - current <= config.max /\ e < Size
  BY <1>1, <1>3, <1>4
<1>6. source[e + 1] # "co"
  BY <1>1, <1>4, <1>5, CharacterAfter
<1>7. ~(source[e] = "cr" /\ source[e + 1] = "lf")
  <2>1. CASE e = current + config.max
    BY <1>3, <1>4, <2>1
  <2>2. CASE e < current + config.max
    BY <1>1, <1>5, <2>2 DEF LineEnds
  <2> QED
    BY <1>1, <1>5, <2>1, <2>2
<1>8. ASSUME NEW a \in 0 .. Size, NEW b \in 0 .. Size, IsLine(a, b), a < e, e < b
      PROVE  b - a > config.max
  <2>1. \A i \in current + 1 .. current + config.max : source[i] # "lf"
    BY <1>1 DEF LineEnds
  <2>2. a <= current
    BY <1>1, <1>5, <1>8, <2>1 DEF IsLine
  <2>3. b > current + config.max
    BY <1>1, <1>5, <1>8, <2>1 DEF IsLine
  <2> QED
    BY <1>1, <2>2, <2>3
<1> QED
  BY <1>1, <1>2, <1>4, <1>5, <1>6, <1>7, <1>8, TakeIInv

(* A failing turn stands before a character, or a CRLF, wider than max. *)
LEMMA FailIsWide ==
    ASSUME IInv, Fail
    PROVE  \/ Width[source[current + 1]] > config.max
           \/ /\ source[current + 1] = "cr" /\ source[current + 2] = "lf"
              /\ config.max = 1 /\ current + 1 < Size
<1> DEFINE w == Width[source[current + 1]]
<1> SUFFICES ASSUME w <= config.max PROVE /\ source[current + 1] = "cr"
                                          /\ source[current + 2] = "lf"
                                          /\ config.max = 1 /\ current + 1 < Size
  BY AtTurn, Widths DEF Fail
<1> USE AtTurn
<1>1. outcome = "cutting" /\ Size - current > config.max /\ CodePointEnds = {}
  BY DEF Fail, Fits, Remaining
<1>2. source[current + 1] \in Bytes /\ w \in 1 .. 4
  BY <1>1, Widths
<1>3. \A j \in current + 2 .. current + w : source[j] = "co"
  <2>1. current + 1 \in 1 .. Size
    BY <1>1
  <2> QED
    BY <1>1, <1>2, <2>1 DEF Decodes
<1>4. Decodes(source, current, current + w)
  <2>1. ASSUME NEW i \in current + 1 .. current + w, source[i] # "co" PROVE i = current + 1
    BY <1>1, <1>2, <1>3, <2>1
  <2>2. ASSUME NEW i \in current + 1 .. current + w, source[i] = "co"
        PROVE  /\ current + 1 \in current + 1 .. i - 1
               /\ i < current + 1 + w
    BY <1>1, <1>2, <2>2
  <2> QED
    BY <1>1, <1>2, <1>3, <2>1, <2>2, SMTT(20) DEF Decodes
<1>5. current + w > Proposed
  <2>1. current + w \in current + 1 .. Proposed => FALSE
    BY <1>1, <1>4 DEF CodePointEnds
  <2>2. Proposed \in Nat
    BY <1>1 DEF Proposed
  <2> QED
    BY <1>1, <1>2, <2>1, <2>2
<1>6. /\ w = config.max
      /\ source[current + config.max] = "cr" /\ source[current + config.max + 1] = "lf"
  <2>1. /\ source[current + config.max] = "cr" /\ source[current + config.max + 1] = "lf"
        /\ Proposed = current + config.max - 1
    <3>1. Proposed # current + config.max
      BY <1>1, <1>2, <1>5
    <3> QED
      BY <1>1, <3>1 DEF Proposed
  <2> HIDE DEF w
  <2>2. w \in Nat /\ config.max \in Nat /\ current \in Nat
    BY <1>1, <1>2
  <2>3. w = config.max
    BY <1>5, <2>1, <2>2
  <2> QED
    BY <2>1, <2>3
<1>7. w = 1
  <2> SUFFICES ASSUME w # 1 PROVE FALSE
    OBVIOUS
  <2> HIDE DEF w
  <2>1. current + w \in current + 2 .. current + w
    BY <1>1, <1>2
  <2> QED
    BY <1>3, <1>6, <2>1
<1> QED
  BY <1>1, <1>6, <1>7

(* A refused candidate has a character, or a CRLF, that is too wide. *)
LEMMA FailIInv == ASSUME IInv, Fail PROVE IInv'
<1>1. outcome = "cutting" /\ Size > current + config.max
  BY AtTurn DEF Fail, Fits, Remaining
<1>2. /\ source' = source /\ config' = config /\ current' = current /\ Size' = Size
      /\ outcome' = "failed" /\ pieces' = << >>
  BY DEF Fail, Size
<1>3. TypeOK' /\ (source \in Candidates)' /\ AtCharacter' /\ PiecesAreText' /\ LinesStayWhole'
  BY <1>2 DEF IInv, TypeOK, AtCharacter, PiecesAreText, LinesStayWhole
<1>4. PiecesTile'
  BY <1>1, <1>2, AtTurn DEF PiecesTile
<1>5. FailsOnlyOnWideText'
  <2>1. current + 1 \in 1 .. Size
    BY <1>1, AtTurn
  <2> QED
    BY <1>1, <1>2, <2>1, AtTurn, FailIsWide DEF FailsOnlyOnWideText
<1> QED
  BY <1>3, <1>4, <1>5 DEF IInv

(* Every turn of the loop keeps IInv. *)
LEMMA NextIInv == IInv /\ [Next]_vars => IInv'
<1> SUFFICES ASSUME IInv, [Next]_vars PROVE IInv'
  OBVIOUS
<1>1. CASE UNCHANGED vars
  <2>1. \A a, b : /\ Decodes(source, a, b)' <=> Decodes(source, a, b)
                  /\ IsLine(a, b)' <=> IsLine(a, b)
    BY <1>1 DEF vars, Decodes, IsLine, Size
  <2>2. TypeOK' /\ (source \in Candidates)' /\ AtCharacter' /\ PiecesTile' /\ FailsOnlyOnWideText'
    BY <1>1 DEF IInv, vars, TypeOK, AtCharacter, PiecesTile, FailsOnlyOnWideText, Size
  <2>3. PiecesAreText' /\ LinesStayWhole'
    BY <1>1, <2>1 DEF IInv, vars, PiecesAreText, LinesStayWhole, Size
  <2> QED
    BY <2>2, <2>3 DEF IInv
<1> QED
  BY <1>1, TakeRestIInv, CutAfterLineIInv, CutInsideLineIInv, FailIInv DEF Next

(* IInv holds for every text, candidate and maximum. *)
LEMMA Invariance == Spec => []IInv
BY InitIInv, NextIInv, PTL DEF Spec

-------------------------------------------------------------------------------
(* The theorems, for every candidate and every pair of limits *)

(* The variables of the fragmenter keep their types. *)
THEOREM TypeCorrect == Spec => []TypeOK
<1>1. IInv => TypeOK
  BY DEF IInv
<1> QED
  BY <1>1, Invariance, PTL

(* The pieces of fragment_candidate lie end to end and exhaust the         *)
(* candidate exactly when it is done.                                      *)
THEOREM TheyTile == Spec => []PiecesTile
<1>1. IInv => PiecesTile
  BY DEF IInv
<1> QED
  BY <1>1, Invariance, PTL

(* Every piece fits, decodes by itself and does not end inside a CRLF. *)
THEOREM TheyAreText == Spec => []PiecesAreText
<1>1. IInv => PiecesAreText
  BY DEF IInv
<1> QED
  BY <1>1, Invariance, PTL

(* No line that fits max_chunk_bytes is cut. *)
THEOREM LinesAreKept == Spec => []LinesStayWhole
<1>1. IInv => LinesStayWhole
  BY DEF IInv
<1> QED
  BY <1>1, Invariance, PTL

(* FragmentationFailure means a character or CRLF wider than the maximum. *)
THEOREM FailuresAreJustified == Spec => []FailsOnlyOnWideText
<1>1. IInv => FailsOnlyOnWideText
  BY DEF IInv
<1> QED
  BY <1>1, Invariance, PTL

(* With max_chunk_bytes of four or more, what the design document says     *)
(* without a condition is true: no candidate is refused.                   *)
THEOREM FourBytesSuffice ==
    ASSUME \A c \in Configs : c.max >= 4
    PROVE  Spec => []AlwaysProgresses
<1>1. IInv => AlwaysProgresses
  <2> SUFFICES ASSUME IInv, outcome = "failed" PROVE FALSE
    BY DEF AlwaysProgresses
  <2>1. source \in Seq(Bytes) /\ config \in Configs /\ config.max \in Nat
    BY ConfigsAreValid DEF IInv, TypeOK
  <2>2. PICK i \in 1 .. Size : Width[source[i]] > config.max \/ config.max = 1
    BY DEF IInv, FailsOnlyOnWideText
  <2>3. source[i] \in Bytes
    BY <2>1 DEF Size
  <2> QED
    BY <2>1, <2>2, <2>3, Widths
<1> QED
  BY <1>1, Invariance, PTL
===============================================================================
