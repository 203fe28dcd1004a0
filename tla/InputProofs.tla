------------------------------ MODULE InputProofs ------------------------------
(***************************************************************************)
(* Theorems about the two texts the daemon reads, whose reads end          *)
(* anywhere: the meter's stream, for any number of messages                *)
(* (SerialFraming), and a client's line, for any set of texts, any length  *)
(* of a read and anything behind it (CommandLine).                         *)
(***************************************************************************)
EXTENDS SerialFraming, CommandLine, SequenceTheorems, WellFoundedInduction, TLAPS

\* Min is the least element: the first place at which something is found.
LEMMA LeastElement ==
  ASSUME NEW S, S \subseteq Nat, S # {}
  PROVE  Min(S) \in S /\ \A y \in S : Min(S) <= y
<1>1. PICK x \in S : \A y \in S : ~(<<y, x>> \in OpToRel(<, Nat))
  BY NatLessThanWellFounded, WFMin
<1>2. \A y \in S : x <= y
  <2> SUFFICES ASSUME NEW y \in S PROVE x <= y
    OBVIOUS
  <2>1. x \in Nat /\ y \in Nat /\ ~(y < x)
    BY <1>1 DEF OpToRel
  <2> QED BY <2>1
<1> QED BY <1>2 DEF Min

-----------------------------------------------------------------------------
(* The meter's stream and the tags in a text.                               *)

\* What a piece of the stream is, by its place in its message.
LEMMA Pieces ==
  ASSUME NEW n \in Nat
  PROVE  /\ Piece(n) = [part |-> Parts[(n % 5) + 1], msg |-> n \div 5]
         /\ Piece(n).msg = n \div 5
         /\ Piece(n).part = "<m" <=> n % 5 = 0
         /\ Piece(n).part = "sg>" <=> n % 5 = 1
         /\ Piece(n).part = "body" <=> n % 5 = 2
         /\ Piece(n).part = "</m" <=> n % 5 = 3
         /\ Piece(n).part = "sg/>" <=> n % 5 = 4
         /\ Piece(n).part \in ToSet(Parts)
<1>1. n % 5 \in 0..4
  OBVIOUS
<1>2. /\ DOMAIN Parts = 1..5
      /\ Parts[1] = "<m" /\ Parts[2] = "sg>" /\ Parts[3] = "body"
      /\ Parts[4] = "</m" /\ Parts[5] = "sg/>"
  BY DEF Parts
<1>3. Piece(n).part = Parts[(n % 5) + 1] /\ Piece(n).msg = n \div 5
  BY DEF Piece
<1>4. Parts[(n % 5) + 1] \in ToSet(Parts)
  BY <1>1, <1>2 DEF ToSet
<1> QED BY <1>1, <1>2, <1>3, <1>4 DEF Piece

\* The pieces of message k.
LEMMA MessagePieces ==
  ASSUME NEW k \in Nat, NEW i \in 0..4
  PROVE  5 * k + i \in Nat /\ (5 * k + i) % 5 = i /\ (5 * k + i) \div 5 = k
  OBVIOUS

\* A piece of any message.
AnyPiece == [part : ToSet(Parts), msg : Nat]

\* What a read() returns.
LEMMA StreamProperties ==
  ASSUME NEW s \in Nat, NEW n \in Nat
  PROVE  /\ Stream(s, n) \in Seq(AnyPiece)
         /\ Len(Stream(s, n)) = n
         /\ \A j \in 1..n : Stream(s, n)[j] = Piece(s + j - 1)
<1>1. \A j \in 1..n : Piece(s + j - 1) \in AnyPiece
  <2> SUFFICES ASSUME NEW j \in 1..n PROVE Piece(s + j - 1) \in AnyPiece
    OBVIOUS
  <2>1. s + j - 1 \in Nat
    OBVIOUS
  <2> QED BY <2>1, Pieces DEF AnyPiece, Piece
<1> QED BY <1>1 DEF Stream

\* find() returns the first occurrence of a tag ...
LEMMA FindFirst ==
  ASSUME NEW s, NEW from \in Nat, NEW first, NEW second, Len(s) \in Nat,
         NEW p \in from..Len(s) - 1,
         s[p].part = first /\ s[p + 1].part = second,
         \A j \in from..p - 1 : ~(s[j].part = first /\ s[j + 1].part = second)
  PROVE  FindTag(s, from, first, second) = p
<1> DEFINE found == {j \in from..Len(s) - 1 : s[j].part = first /\ s[j + 1].part = second}
<1>1. p \in found /\ \A j \in found : p <= j
  OBVIOUS
<1>2. found \subseteq Int
  OBVIOUS
<1> HIDE DEF found
<1>3. Min(found) = p
  <2>1. \A x \in found : (\A y \in found : x <= y) => x = p
    BY <1>1, <1>2
  <2> QED BY <1>1, <2>1 DEF Min
<1>4. FindTag(s, from, first, second) = IF found = {} THEN 0 ELSE Min(found)
  BY DEF FindTag, found
<1> QED BY <1>1, <1>3, <1>4

\* ... and 0 if there is none.
LEMMA FindNone ==
  ASSUME NEW s, NEW from, NEW first, NEW second,
         \A j \in from..Len(s) - 1 : ~(s[j].part = first /\ s[j + 1].part = second)
  PROVE  FindTag(s, from, first, second) = 0
  BY DEF FindTag

\* A tag that occurs is found.
LEMMA FindSome ==
  ASSUME NEW s, NEW first, NEW second, Len(s) \in Nat,
         \E p \in 1..Len(s) - 1 : s[p].part = first /\ s[p + 1].part = second
  PROVE  FindTag(s, 1, first, second) # 0
<1> DEFINE found == {j \in 1..Len(s) - 1 : s[j].part = first /\ s[j + 1].part = second}
<1>1. found # {}
  OBVIOUS
<1>2. found \subseteq Nat /\ \A j \in found : j # 0
  OBVIOUS
<1>3. FindTag(s, 1, first, second) = IF found = {} THEN 0 ELSE Min(found)
  BY DEF FindTag
<1> HIDE DEF found
<1>4. Min(found) \in found
  BY <1>1, <1>2, LeastElement
<1> QED BY <1>1, <1>3, <1>2, <1>4

\* One piece of a text.
LEMMA OnePiece ==
  ASSUME NEW t \in Seq(AnyPiece), NEW e \in 1..Len(t)
  PROVE  SubSeq(t, e, e) = <<t[e]>>
<1>1. e \in Int /\ \A i \in e..e : t[i] \in AnyPiece
  BY ElementOfSeq
<1>2. /\ SubSeq(t, e, e) \in Seq(AnyPiece)
      /\ Len(SubSeq(t, e, e)) = IF e <= e THEN e - e + 1 ELSE 0
      /\ \A i \in 1..e - e + 1 : SubSeq(t, e, e)[i] = t[e + i - 1]
  BY <1>1, SubSeqProperties
<1>3. Len(SubSeq(t, e, e)) = 1 /\ SubSeq(t, e, e)[1] = t[e]
  BY <1>1, <1>2
<1>4. \A q \in Seq(AnyPiece) : Len(q) = 1 => q = <<q[1]>>
  OBVIOUS
<1> QED BY <1>2, <1>3, <1>4

-----------------------------------------------------------------------------
(* What the decoder's copy looks like: the end of a message whose beginning *)
(* was dropped, then whole messages and the beginning of one.               *)

\* a pieces from piece s on, then r pieces from the beginning of message k on.
Holds(t, s, a, k, r) ==
  /\ t \in Seq(AnyPiece) /\ Len(t) = a + r
  /\ \A j \in 1..a : t[j] = Piece(s + j - 1)
  /\ \A i \in 0..r - 1 : t[a + 1 + i] = Piece(5 * k + i)

\* The tags in such a text, if its first part is the end of a message.
Tags(t, a, k, r) ==
  /\ \A j \in 1..a : t[j].part # "<m"
  /\ 0 < r => t[a + 1].part = "<m"
  /\ 1 < r => t[a + 2].part = "sg>"
  /\ 2 < r => t[a + 3] = [part |-> "body", msg |-> k] /\ t[a + 3].part = "body"
  /\ 3 < r => t[a + 4].part = "</m"
  /\ 4 < r => t[a + 5].part = "sg/>"

\* A text as the decoder has it has its tags in these places.
LEMMA TextParts ==
  ASSUME NEW s \in Nat, NEW a \in 0..4, (s + a) % 5 = 0,
         NEW k \in Nat, NEW r \in Nat,
         NEW t, Holds(t, s, a, k, r)
  PROVE  Tags(t, a, k, r)
<1>1. a \in Nat
  OBVIOUS
<1>2. /\ \A j \in 1..a : t[j] = Piece(s + j - 1)
      /\ \A i \in 0..r - 1 : t[a + 1 + i] = Piece(5 * k + i)
  BY DEF Holds
<1>3. ASSUME NEW j \in 1..a PROVE t[j].part # "<m"
  <2>1. s + j - 1 \in Nat /\ (s + j - 1) % 5 # 0
    OBVIOUS
  <2> QED BY <2>1, <1>2, Pieces
<1>4. ASSUME NEW i \in 0..4, i < r
      PROVE  /\ t[a + 1 + i] = [part |-> Parts[i + 1], msg |-> k]
             /\ t[a + 1 + i].part = Parts[i + 1]
  <2>1. 5 * k + i \in Nat /\ (5 * k + i) % 5 = i /\ (5 * k + i) \div 5 = k
    BY MessagePieces
  <2>2. t[a + 1 + i] = Piece(5 * k + i)
    BY <1>2, <1>4
  <2>3. Piece(5 * k + i) = [part |-> Parts[((5 * k + i) % 5) + 1], msg |-> (5 * k + i) \div 5]
    BY DEF Piece
  <2>4. t[a + 1 + i] = [part |-> Parts[i + 1], msg |-> k]
    BY <2>1, <2>2, <2>3
  <2> QED BY <2>4
<1>5. /\ Parts[0 + 1] = "<m" /\ Parts[1 + 1] = "sg>" /\ Parts[2 + 1] = "body"
      /\ Parts[3 + 1] = "</m" /\ Parts[4 + 1] = "sg/>"
  BY DEF Parts
<1>6. /\ a + 1 + 0 = a + 1 /\ a + 1 + 1 = a + 2 /\ a + 1 + 2 = a + 3
      /\ a + 1 + 3 = a + 4 /\ a + 1 + 4 = a + 5
  OBVIOUS
<1>7. /\ 0 < r => t[a + 1 + 0].part = "<m"
      /\ 1 < r => t[a + 1 + 1].part = "sg>"
      /\ 2 < r => t[a + 1 + 2] = [part |-> "body", msg |-> k] /\ t[a + 1 + 2].part = "body"
      /\ 3 < r => t[a + 1 + 3].part = "</m"
      /\ 4 < r => t[a + 1 + 4].part = "sg/>"
  <2>1. 0 \in 0..4 /\ 1 \in 0..4 /\ 2 \in 0..4 /\ 3 \in 0..4 /\ 4 \in 0..4
    OBVIOUS
  <2> QED BY <2>1, <1>4, <1>5
<1> QED BY <1>3, <1>6, <1>7 DEF Tags

\* With the tags in these places the first message is matched if it is whole.
LEMMA TagsMatch ==
  ASSUME NEW a \in Nat, NEW k \in Nat, NEW r \in Nat,
         NEW t, Len(t) = a + r, Tags(t, a, k, r)
  PROVE  /\ Opening(t, 1) = IF r < 2 THEN 0 ELSE a + 1
         /\ r >= 5 => BlockEnd(t) = a + 4
         /\ r >= 2 /\ r < 5 => BlockEnd(t) = 0
<1>1. Len(t) = a + r /\ Len(t) \in Nat
  OBVIOUS
<1>2. Tags(t, a, k, r)
  OBVIOUS
<1>3. /\ \A j \in 1..a : t[j].part # "<m"
      /\ 0 < r => t[a + 1].part = "<m"
      /\ 1 < r => t[a + 2].part = "sg>"
      /\ 2 < r => t[a + 3].part = "body"
      /\ 3 < r => t[a + 4].part = "</m"
      /\ 4 < r => t[a + 5].part = "sg/>"
  BY <1>2 DEF Tags
<1>4. ASSUME r < 2 PROVE Opening(t, 1) = 0
  <2>1. \A j \in 1..Len(t) - 1 : t[j].part # "<m"
    BY <1>1, <1>3, <1>4
  <2> QED BY <2>1, FindNone DEF Opening
<1>5. ASSUME r >= 2 PROVE Opening(t, 1) = a + 1
  <2> DEFINE p == a + 1
  <2>1. p \in 1..Len(t) - 1 /\ p + 1 = a + 2 /\ p - 1 = a /\ 1 \in Nat
    BY <1>1, <1>5
  <2>2. t[p].part = "<m" /\ t[p + 1].part = "sg>"
    BY <2>1, <1>3, <1>5
  <2>3. \A j \in 1..p - 1 : ~(t[j].part = "<m" /\ t[j + 1].part = "sg>")
    BY <2>1, <1>3
  <2> HIDE DEF p
  <2>4. FindTag(t, 1, "<m", "sg>") = p
    BY <1>1, <2>1, <2>2, <2>3, FindFirst
  <2> QED BY <2>4 DEF Opening, p
<1>6. ASSUME r >= 5 PROVE Closing(t, (a + 1) + 2) = a + 4
  <2> DEFINE from == (a + 1) + 2
             p == a + 4
  <2>1. /\ from \in Nat /\ p \in from..Len(t) - 1 /\ p + 1 = a + 5
        /\ \A j \in from..p - 1 : j = a + 3
    BY <1>1, <1>6
  <2>2. t[p].part = "</m" /\ t[p + 1].part = "sg/>" /\ t[a + 3].part # "</m"
    BY <2>1, <1>3, <1>6
  <2> HIDE DEF from, p
  <2>3. \A j \in from..p - 1 : ~(t[j].part = "</m" /\ t[j + 1].part = "sg/>")
    BY <2>1, <2>2
  <2>4. FindTag(t, from, "</m", "sg/>") = p
    BY <1>1, <2>1, <2>2, <2>3, FindFirst
  <2> QED BY <2>4 DEF Closing, from, p
<1>7. ASSUME r >= 2, r < 5 PROVE Closing(t, (a + 1) + 2) = 0
  <2>1. ASSUME NEW j \in (a + 1) + 2..Len(t) - 1
        PROVE  ~(t[j].part = "</m" /\ t[j + 1].part = "sg/>")
    <3>1. j = a + 3 /\ r = 4
      BY <1>1, <1>7
    <3> QED BY <3>1, <1>3
  <2> QED BY <2>1, FindNone DEF Closing
<1>8. Opening(t, 1) = IF r < 2 THEN 0 ELSE a + 1
  BY <1>4, <1>5
<1>9. /\ r >= 5 => BlockEnd(t) = a + 4
      /\ r >= 2 /\ r < 5 => BlockEnd(t) = 0
  BY <1>5, <1>6, <1>7 DEF BlockEnd
<1> QED BY <1>8, <1>9

\* Such a text is matched if its first message is whole.
LEMMA TextMatch ==
  ASSUME NEW s \in Nat, NEW a \in 0..4, (s + a) % 5 = 0,
         NEW k \in Nat, NEW r \in Nat,
         NEW t, Holds(t, s, a, k, r)
  PROVE  /\ Opening(t, 1) = IF r < 2 THEN 0 ELSE a + 1
         /\ r >= 5 => BlockEnd(t) = a + 4
         /\ Matches(t) <=> r >= 5
<1>1. a \in Nat /\ Len(t) = a + r
  BY DEF Holds
<1>2. Tags(t, a, k, r)
  BY TextParts
<1>3. /\ Opening(t, 1) = IF r < 2 THEN 0 ELSE a + 1
      /\ r >= 5 => BlockEnd(t) = a + 4
      /\ r >= 2 /\ r < 5 => BlockEnd(t) = 0
  BY <1>1, <1>2, TagsMatch
<1>4. r < 2 \/ (r >= 2 /\ r < 5) \/ r >= 5
  OBVIOUS
<1>5. Matches(t) <=> r >= 5
  BY <1>1, <1>3, <1>4 DEF Matches
<1> QED BY <1>3, <1>5

\* Cutting the first message out leaves such a text, with the next message first.
LEMMA TagsCut ==
  ASSUME NEW s \in Nat, NEW a \in Nat, NEW k \in Nat, NEW r \in Nat, r >= 5,
         NEW t, Holds(t, s, a, k, r), Tags(t, a, k, r)
  PROVE  /\ SubSeq(t, Opening(t, 1) + 2, BlockEnd(t) - 1) = <<[part |-> "body", msg |-> k]>>
         /\ Holds(SubSeq(t, 1, Opening(t, 1) - 1) \o SubSeq(t, BlockEnd(t) + 2, Len(t)),
                  s, a, k + 1, r - 5)
<1> DEFINE front == SubSeq(t, 1, a)
           back == SubSeq(t, a + 6, a + r)
<1>1. a \in Nat /\ r - 5 \in Nat /\ k + 1 \in Nat
  OBVIOUS
<1>2. /\ t \in Seq(AnyPiece) /\ Len(t) = a + r
      /\ \A j \in 1..a : t[j] = Piece(s + j - 1)
      /\ \A i \in 0..r - 1 : t[a + 1 + i] = Piece(5 * k + i)
  BY DEF Holds
<1>3. \A j \in 1..a + r : t[j] \in AnyPiece
  BY <1>2, ElementOfSeq
<1>4. Opening(t, 1) = a + 1 /\ BlockEnd(t) = a + 4
  BY <1>2, TagsMatch
<1>5. Tags(t, a, k, r)
  OBVIOUS
<1>6. t[a + 3] = [part |-> "body", msg |-> k]
  BY <1>5 DEF Tags
<1>7. SubSeq(t, (a + 1) + 2, (a + 4) - 1) = <<[part |-> "body", msg |-> k]>>
  <2>1. a + 3 \in Int /\ (a + 1) + 2 = a + 3 /\ (a + 4) - 1 = a + 3 /\ a + 3 \in 1..a + r
    OBVIOUS
  <2>2. SubSeq(t, a + 3, a + 3) = <<t[a + 3]>>
    BY <2>1, <1>2, OnePiece
  <2> QED BY <2>1, <2>2, <1>6
<1>8. /\ front \in Seq(AnyPiece) /\ Len(front) = a
      /\ \A j \in 1..a : front[j] = t[j]
  <2>1. \A i \in 1..a : t[i] \in AnyPiece
    BY <1>3
  <2>2. 1 \in Int /\ a \in Int
    OBVIOUS
  <2>3. /\ front \in Seq(AnyPiece) /\ Len(front) = IF 1 <= a THEN a - 1 + 1 ELSE 0
        /\ \A i \in 1..a - 1 + 1 : front[i] = t[1 + i - 1]
    BY <2>1, <2>2, SubSeqProperties
  <2> QED BY <2>3
<1>9. /\ back \in Seq(AnyPiece) /\ Len(back) = r - 5
      /\ \A j \in 1..r - 5 : back[j] = t[a + 5 + j]
  <2> DEFINE x == a + 6
             y == a + r
  <2>1. x \in Int /\ y \in Int /\ \A i \in x..y : t[i] \in AnyPiece
    BY <1>3
  <2>2. y - x + 1 = r - 5 /\ (x <= y <=> r >= 6) /\ \A j \in 1..r - 5 : x + j - 1 = a + 5 + j
    OBVIOUS
  <2>3. back = SubSeq(t, x, y)
    OBVIOUS
  <2> HIDE DEF x, y, back
  <2>4. /\ SubSeq(t, x, y) \in Seq(AnyPiece)
        /\ Len(SubSeq(t, x, y)) = IF x <= y THEN y - x + 1 ELSE 0
        /\ \A i \in 1..y - x + 1 : SubSeq(t, x, y)[i] = t[x + i - 1]
    BY <2>1, SubSeqProperties
  <2>5. x <= y \/ r - 5 = 0
    BY <2>1, <2>2
  <2>6. Len(SubSeq(t, x, y)) = r - 5
    BY <2>1, <2>2, <2>4, <2>5
  <2>7. \A i \in 1..r - 5 : SubSeq(t, x, y)[i] = t[a + 5 + i]
    BY <2>2, <2>4
  <2> QED BY <2>3, <2>4, <2>6, <2>7
<1> HIDE DEF front, back
<1>10. Holds(front \o back, s, a, k + 1, r - 5)
  <2>1. /\ front \o back \in Seq(AnyPiece) /\ Len(front \o back) = Len(front) + Len(back)
        /\ \A j \in 1..Len(front) + Len(back) : (front \o back)[j] =
              IF j <= Len(front) THEN front[j] ELSE back[j - Len(front)]
    BY <1>8, <1>9, ConcatProperties
  <2>2. Len(front \o back) = a + (r - 5)
    BY <2>1, <1>8, <1>9
  <2> DEFINE all == front \o back
  <2>3. \A j \in 1..a + (r - 5) : all[j] = IF j <= a THEN front[j] ELSE back[j - a]
    BY <2>1, <1>8, <1>9
  <2> HIDE DEF all
  <2>4. \A j \in 1..a : all[j] = Piece(s + j - 1)
    BY <2>3, <1>1, <1>2, <1>8
  <2>5. ASSUME NEW i \in 0..r - 5 - 1
        PROVE  all[a + 1 + i] = Piece(5 * (k + 1) + i)
    <3>1. /\ a + 1 + i \in 1..a + (r - 5) /\ ~(a + 1 + i <= a) /\ a + 1 + i - a = i + 1
          /\ i + 1 \in 1..r - 5 /\ a + 5 + (i + 1) = a + 1 + (i + 5)
          /\ i + 5 \in 0..r - 1 /\ 5 * k + (i + 5) = 5 * (k + 1) + i
      BY <2>5
    <3>2. all[a + 1 + i] = back[i + 1]
      <4> DEFINE q == a + 1 + i
      <4>1. q \in 1..a + (r - 5) /\ ~(q <= a) /\ q - a = i + 1
        BY <3>1
      <4> HIDE DEF q
      <4>2. all[q] = back[q - a]
        BY <4>1, <2>3
      <4> QED BY <4>1, <4>2 DEF q
    <3>3. t[a + 1 + (i + 5)] = Piece(5 * k + (i + 5))
      BY <3>1, <1>2
    <3> QED BY <3>1, <3>2, <3>3, <1>9
  <2> QED BY <2>1, <2>4, <2>5, <2>2 DEF Holds, all
<1>11. SubSeq(t, 1, (a + 1) - 1) \o SubSeq(t, (a + 4) + 2, Len(t)) = front \o back
  <2>1. (a + 1) - 1 = a /\ (a + 4) + 2 = a + 6
    OBVIOUS
  <2> QED BY <2>1, <1>2 DEF front, back
<1> QED BY <1>4, <1>7, <1>10, <1>11

\* The turn of the loop, on the decoder's copy.
LEMMA TextCut ==
  ASSUME NEW s \in Nat, NEW a \in 0..4, (s + a) % 5 = 0,
         NEW k \in Nat, NEW r \in Nat, r >= 5,
         NEW t, Holds(t, s, a, k, r)
  PROVE  /\ SubSeq(t, Opening(t, 1) + 2, BlockEnd(t) - 1) = <<[part |-> "body", msg |-> k]>>
         /\ Holds(SubSeq(t, 1, Opening(t, 1) - 1) \o SubSeq(t, BlockEnd(t) + 2, Len(t)),
                  s, a, k + 1, r - 5)
<1>1. a \in Nat
  OBVIOUS
<1>2. Tags(t, a, k, r)
  BY TextParts
<1> QED BY <1>1, <1>2, TagsCut

-----------------------------------------------------------------------------
(* The inductive invariant of the framing.                                  *)

\* The place in the stream of the first piece of buf.
Start == sent - Len(buf)

\* The first message of which buf has the beginning.
FirstWhole == (Start + 4) \div 5

\* Every message up to piece n was decoded or lost a part by clear().
Accounted(n) == \A j \in 0..MaxMessages - 1 : 5 * j < n => j \in Decoded \union cutShort

\* procesa_msgs() has decoded the messages from FirstWhole to k - 1 of buf.
Upto(k) ==
  /\ k \in FirstWhole..MaxMessages /\ 5 * k <= sent
  /\ Holds(theMsg, Start, 5 * FirstWhole - Start, k, sent - 5 * k)
  /\ FirstWhole..k - 1 \subseteq Decoded /\ \A j \in Decoded : j < k

\* buf is the latest part of the stream.
BufIsStream ==
  /\ sent \in 0..5 * MaxMessages
  /\ buf \in Seq(AnyPiece) /\ Len(buf) <= sent
  /\ \A j \in 1..Len(buf) : buf[j] = Piece(Start + j - 1)

\* Before a read() no message of buf is whole, and none decoded is in buf.
InReading == at = "reading" => ~Completo(buf) /\ \A j \in Decoded : 5 * j + 5 <= Start

\* While it cuts, the decoder has got to some message.
InCutting == at = "cutting" => \E k \in Nat : Upto(k)

\* The inductive invariant.
FramingInv ==
  /\ BufIsStream
  /\ at \in {"reading", "cutting"} /\ blocks \in Seq(Seq(AnyPiece))
  /\ Decoded \subseteq 0..MaxMessages - 1
  /\ cutShort \subseteq 0..MaxMessages - 1
  /\ BlocksWhole
  /\ Accounted(Start)
  /\ InReading
  /\ InCutting

\* The first whole message begins at most four pieces after the start of buf.
LEMMA FirstWholeBounds ==
  ASSUME BufIsStream
  PROVE  /\ Start \in Nat /\ FirstWhole \in Nat
         /\ 5 * FirstWhole - Start \in 0..4
         /\ (Start + (5 * FirstWhole - Start)) % 5 = 0
<1>1. Start \in Nat
  <2>1. Len(buf) \in Nat /\ sent \in Nat
    BY LenProperties DEF BufIsStream
  <2> QED BY <2>1 DEF BufIsStream, Start
<1>2. \A x \in Nat : /\ (x + 4) \div 5 \in Nat /\ 5 * ((x + 4) \div 5) - x \in 0..4
                     /\ (x + (5 * ((x + 4) \div 5) - x)) % 5 = 0
  OBVIOUS
<1> QED BY <1>1, <1>2 DEF FirstWhole

\* buf is a text as the decoder wants it, if it reaches to its first whole message.
LEMMA BufHolds ==
  BufIsStream /\ 5 * FirstWhole <= sent =>
    Holds(buf, Start, 5 * FirstWhole - Start, FirstWhole, sent - 5 * FirstWhole)
<1> SUFFICES ASSUME BufIsStream, 5 * FirstWhole <= sent
             PROVE  Holds(buf, Start, 5 * FirstWhole - Start, FirstWhole,
                          sent - 5 * FirstWhole)
  OBVIOUS
<1> DEFINE a == 5 * FirstWhole - Start
<1>1. Start \in Nat /\ FirstWhole \in Nat /\ a \in 0..4 /\ sent \in Nat /\ Len(buf) \in Nat
  BY FirstWholeBounds, LenProperties DEF BufIsStream
<1>2. Start = sent - Len(buf)
  BY DEF Start
<1>3. /\ a + (sent - 5 * FirstWhole) = Len(buf)
      /\ \A j \in 1..a : j \in 1..Len(buf)
      /\ \A i \in 0..sent - 5 * FirstWhole - 1 :
            a + 1 + i \in 1..Len(buf) /\ Start + (a + 1 + i) - 1 = 5 * FirstWhole + i
  BY <1>1, <1>2
<1>4. buf \in Seq(AnyPiece) /\ \A j \in 1..Len(buf) : buf[j] = Piece(Start + j - 1)
  BY DEF BufIsStream
<1>5. \A i \in 0..sent - 5 * FirstWhole - 1 : buf[a + 1 + i] = Piece(5 * FirstWhole + i)
  BY <1>3, <1>4
<1> QED BY <1>3, <1>4, <1>5 DEF Holds

\* Nothing is found in an empty buf.
LEMMA EmptyNotComplete == ~Completo(<<>>)
<1>1. \A j \in 1..Len(<<>>) - 1 : FALSE
  OBVIOUS
<1>2. FindTag(<<>>, 1, "<m", "sg>") = 0
  BY <1>1, FindNone
<1> QED BY <1>2 DEF Completo, Opening

\* A complete buf has the beginning of a message.
LEMMA CompleteReaches == BufIsStream /\ Completo(buf) => 5 * FirstWhole <= sent
<1> SUFFICES ASSUME BufIsStream, Completo(buf) PROVE 5 * FirstWhole <= sent
  OBVIOUS
<1>1. Start \in Nat /\ Len(buf) \in Nat /\ sent \in Nat /\ Start = sent - Len(buf)
  BY FirstWholeBounds, LenProperties DEF BufIsStream, Start
<1>2. PICK p \in 1..Len(buf) - 1 : buf[p].part = "<m"
  BY FindNone DEF Completo, Opening
<1>3. Start + p - 1 \in Nat /\ buf[p] = Piece(Start + p - 1)
  BY <1>1 DEF BufIsStream
<1>4. (Start + p - 1) % 5 = 0
  BY <1>2, <1>3, Pieces
<1>5. \A x \in Nat, y \in Nat : (x + y) % 5 = 0 => 5 * ((x + 4) \div 5) <= x + y
  OBVIOUS
<1>6. p - 1 \in Nat /\ Start + (p - 1) = Start + p - 1 /\ Start + p - 1 <= sent
  BY <1>1
<1>7. 5 * ((Start + 4) \div 5) <= Start + (p - 1)
  BY <1>1, <1>4, <1>5, <1>6
<1>8. FirstWhole \in Nat
  BY FirstWholeBounds
<1> QED BY <1>1, <1>6, <1>7, <1>8 DEF FirstWhole

\* A buf that has a whole message is complete.
LEMMA WholeIsComplete ==
  ASSUME BufIsStream, NEW k \in Nat, Start <= 5 * k, 5 * (k + 1) <= sent
  PROVE  Completo(buf)
<1>1. Start \in Nat /\ Len(buf) \in Nat /\ sent \in Nat /\ Start = sent - Len(buf)
  BY FirstWholeBounds, LenProperties DEF BufIsStream, Start
<1>2. ASSUME NEW i \in 0..4
      PROVE  /\ 5 * k - Start + 1 + i \in 1..Len(buf)
             /\ buf[5 * k - Start + 1 + i].part = Parts[i + 1]
  <2>1. /\ 5 * k - Start + 1 + i \in 1..Len(buf)
        /\ Start + (5 * k - Start + 1 + i) - 1 = 5 * k + i
    BY <1>1
  <2>2. buf[5 * k - Start + 1 + i] = Piece(5 * k + i)
    BY <2>1 DEF BufIsStream
  <2>3. (5 * k + i) % 5 = i
    BY MessagePieces
  <2>4. Piece(5 * k + i).part = Parts[((5 * k + i) % 5) + 1]
    BY DEF Piece
  <2> QED BY <2>1, <2>2, <2>3, <2>4
<1> DEFINE p == 5 * k - Start + 1
<1>3. p \in Nat /\ p + 0 = p /\ p + 3 + 1 = p + 4
  BY <1>1
<1>4. /\ Parts[0 + 1] = "<m" /\ Parts[1 + 1] = "sg>"
      /\ Parts[3 + 1] = "</m" /\ Parts[4 + 1] = "sg/>"
  BY DEF Parts
<1>5. 0 \in 0..4 /\ 1 \in 0..4 /\ 3 \in 0..4 /\ 4 \in 0..4
  OBVIOUS
<1>6. \A i \in 0..4 : p + i \in 1..Len(buf) /\ buf[p + i].part = Parts[i + 1]
  BY <1>2
<1> HIDE DEF p
<1>7. /\ p \in 1..Len(buf) - 1 /\ buf[p].part = "<m" /\ buf[p + 1].part = "sg>"
      /\ p + 3 \in 1..Len(buf) - 1 /\ buf[p + 3].part = "</m" /\ buf[p + 3 + 1].part = "sg/>"
  BY <1>1, <1>3, <1>4, <1>5, <1>6
<1>8. FindTag(buf, 1, "<m", "sg>") # 0 /\ FindTag(buf, 1, "</m", "sg/>") # 0
  BY <1>1, <1>7, FindSome
<1> QED BY <1>8 DEF Completo, Opening, Closing

\* One more block is one more message decoded.
LEMMA OneMoreDecoded ==
  ASSUME NEW k \in Nat, blocks \in Seq(Seq(AnyPiece)),
         blocks' = Append(blocks, <<[part |-> "body", msg |-> k]>>)
  PROVE  /\ blocks' \in Seq(Seq(AnyPiece))
         /\ Len(blocks') = Len(blocks) + 1 /\ Len(blocks) \in Nat
         /\ \A i \in 1..Len(blocks) : blocks'[i] = blocks[i]
         /\ blocks'[Len(blocks) + 1] = <<[part |-> "body", msg |-> k]>>
         /\ ToSet(blocks') = ToSet(blocks) \union {<<[part |-> "body", msg |-> k]>>}
         /\ Decoded' = Decoded \union {k}
<1> DEFINE e == <<[part |-> "body", msg |-> k]>>
<1>1. e \in Seq(AnyPiece) /\ e[1].msg = k
  <2>1. "body" \in ToSet(Parts)
    <3>1. DOMAIN Parts = 1..5 /\ Parts[3] = "body" /\ 3 \in 1..5
      BY DEF Parts
    <3> QED BY <3>1 DEF ToSet
  <2> QED BY <2>1 DEF AnyPiece
<1>2. blocks' = Append(blocks, e)
  OBVIOUS
<1> HIDE DEF e
<1>3. /\ blocks' \in Seq(Seq(AnyPiece)) /\ Len(blocks') = Len(blocks) + 1 /\ Len(blocks) \in Nat
      /\ \A i \in 1..Len(blocks) : blocks'[i] = blocks[i]
      /\ blocks'[Len(blocks) + 1] = e
      /\ DOMAIN blocks = 1..Len(blocks) /\ DOMAIN blocks' = 1..Len(blocks')
  <2> DEFINE T == Seq(AnyPiece)
  <2>1. e \in T /\ blocks \in Seq(T)
    BY <1>1
  <2> HIDE DEF T
  <2>2. /\ Append(blocks, e) \in Seq(T) /\ Len(Append(blocks, e)) = Len(blocks) + 1
        /\ \A i \in 1..Len(blocks) : Append(blocks, e)[i] = blocks[i]
        /\ Append(blocks, e)[Len(blocks) + 1] = e
    BY <2>1, AppendProperties
  <2>3. \A q \in Seq(T) : Len(q) \in Nat /\ DOMAIN q = 1..Len(q)
    BY LenProperties
  <2>4. blocks' \in Seq(T) /\ blocks' \in Seq(Seq(AnyPiece))
    BY <2>2, <1>2 DEF T
  <2> QED BY <2>1, <2>2, <2>3, <2>4, <1>2
<1>4. ToSet(blocks') = ToSet(blocks) \union {e}
  <2>1. 1..Len(blocks') = 1..Len(blocks) \union {Len(blocks) + 1}
    BY <1>3
  <2> QED BY <1>3, <2>1 DEF ToSet
<1>5. Decoded' = Decoded \union {k}
  BY <1>1, <1>4 DEF Decoded
<1> QED BY <1>3, <1>4, <1>5 DEF e

\* Nothing read and nothing decoded.
LEMMA FramingInitial == FramingInit => FramingInv
<1> SUFFICES ASSUME FramingInit PROVE FramingInv
  OBVIOUS
<1>1. sent = 0 /\ buf = <<>> /\ at = "reading" /\ blocks = <<>> /\ cutShort = {}
  BY DEF FramingInit
<1>2. Len(buf) = 0 /\ buf \in Seq(AnyPiece) /\ Len(blocks) = 0 /\ blocks \in Seq(Seq(AnyPiece))
  BY <1>1
<1>3. BufIsStream
  BY <1>1, <1>2, MessagesAssumption DEF BufIsStream
<1>4. ToSet(blocks) = {} /\ Decoded = {}
  BY <1>1 DEF ToSet, Decoded
<1>5. BlocksWhole
  BY <1>2, <1>4 DEF BlocksWhole
<1>6. Accounted(Start)
  BY <1>1, <1>2, MessagesAssumption DEF Accounted, Start
<1>7. InReading /\ InCutting
  BY <1>1, <1>4, EmptyNotComplete DEF InReading, InCutting
<1> QED BY <1>1, <1>2, <1>3, <1>4, <1>5, <1>6, <1>7 DEF FramingInv

\* A read leaves the start of buf where it is; a complete buf has all its messages to decode.
LEMMA ReadKeeps ==
  ASSUME FramingInv, NEW n \in 1..5 * MaxMessages, Read(n)
  PROVE  FramingInv'
<1> DEFINE new == Stream(sent, n)
<1>1. /\ at = "reading" /\ sent' = sent + n /\ sent + n <= 5 * MaxMessages
      /\ blocks' = blocks /\ cutShort' = cutShort
  BY DEF Read
<1>2. /\ buf' = buf \o new
      /\ IF Completo(buf') THEN theMsg' = buf' /\ at' = "cutting"
                           ELSE theMsg' = theMsg /\ at' = at
  BY DEF Read, HandOver
<1>3. /\ sent \in Nat /\ n \in Nat /\ buf \in Seq(AnyPiece) /\ Len(buf) \in Nat
      /\ Len(buf) <= sent /\ Start = sent - Len(buf)
      /\ \A j \in 1..Len(buf) : buf[j] = Piece(Start + j - 1)
  BY LenProperties DEF FramingInv, BufIsStream, Start
<1>4. new \in Seq(AnyPiece) /\ Len(new) = n /\ \A j \in 1..n : new[j] = Piece(sent + j - 1)
  BY <1>3, StreamProperties
<1>5. /\ buf' \in Seq(AnyPiece) /\ Len(buf') = Len(buf) + n
      /\ \A j \in 1..Len(buf) + n : buf'[j] =
            IF j <= Len(buf) THEN buf[j] ELSE new[j - Len(buf)]
  <2> HIDE DEF new
  <2>1. /\ buf \o new \in Seq(AnyPiece) /\ Len(buf \o new) = Len(buf) + Len(new)
        /\ \A j \in 1..Len(buf) + Len(new) : (buf \o new)[j] =
              IF j <= Len(buf) THEN buf[j] ELSE new[j - Len(buf)]
    BY <1>3, <1>4, ConcatProperties
  <2> QED BY <2>1, <1>2, <1>4
<1>6. Start' = Start /\ FirstWhole' = FirstWhole
  BY <1>1, <1>3, <1>5 DEF Start, FirstWhole
<1>7. BufIsStream'
  <2>1. ASSUME NEW j \in 1..Len(buf') PROVE buf'[j] = Piece(Start + j - 1)
    <3>1. CASE j <= Len(buf)
      BY <3>1, <1>3, <1>5
    <3>2. CASE ~(j <= Len(buf))
      <4>1. j - Len(buf) \in 1..n /\ sent + (j - Len(buf)) - 1 = Start + j - 1
        BY <3>2, <1>3, <1>5
      <4> QED BY <4>1, <3>2, <1>4, <1>5
    <3> QED BY <3>1, <3>2
  <2>2. sent' \in 0..5 * MaxMessages /\ Len(buf') <= sent'
    BY <1>1, <1>3, <1>5, MessagesAssumption
  <2> QED BY <2>1, <2>2, <1>5, <1>6 DEF BufIsStream
<1>8. Decoded' = Decoded
  BY <1>1 DEF Decoded
<1>9. Accounted(Start)' /\ BlocksWhole'
  BY <1>1, <1>6, <1>8 DEF Accounted, BlocksWhole, FramingInv
<1>10. InReading'
  BY <1>1, <1>2, <1>6, <1>8 DEF InReading, FramingInv
<1>11. InCutting'
  <2> SUFFICES ASSUME at' = "cutting" PROVE Upto(FirstWhole)' /\ FirstWhole' \in Nat
    BY <1>6 DEF InCutting, Upto
  <2>1. theMsg' = buf' /\ Completo(buf')
    BY <1>1, <1>2
  <2>2. 5 * FirstWhole' <= sent'
    <3>1. (BufIsStream /\ Completo(buf) => 5 * FirstWhole <= sent)'
      BY CompleteReaches, PTL
    <3> QED BY <3>1, <1>7, <2>1
  <2>3. Holds(buf', Start', 5 * FirstWhole' - Start', FirstWhole', sent' - 5 * FirstWhole')
    <3>1. (BufIsStream /\ 5 * FirstWhole <= sent =>
             Holds(buf, Start, 5 * FirstWhole - Start, FirstWhole, sent - 5 * FirstWhole))'
      BY BufHolds, PTL
    <3> QED BY <3>1, <1>7, <2>2
  <2>4. FirstWhole \in Nat /\ Start \in Nat
    BY FirstWholeBounds DEF FramingInv
  <2>5. FirstWhole \in FirstWhole..MaxMessages /\ FirstWhole..FirstWhole - 1 = {}
    BY <1>1, <1>3, <2>2, <2>4, <1>6, MessagesAssumption
  <2>6. \A j \in Decoded : j < FirstWhole
    <3>1. \A j \in Decoded : 5 * j + 5 <= Start /\ j \in Nat
      BY <1>1, MessagesAssumption DEF FramingInv, InReading
    <3>2. 5 * FirstWhole - Start \in 0..4
      BY FirstWholeBounds DEF FramingInv
    <3> QED BY <3>1, <3>2, <2>4
  <2> QED BY <1>6, <1>8, <2>1, <2>2, <2>3, <2>4, <2>5, <2>6 DEF Upto
<1>12. at' \in {"reading", "cutting"}
  BY <1>1, <1>2
<1> QED BY <1>1, <1>7, <1>8, <1>9, <1>10, <1>11, <1>12 DEF FramingInv

\* One turn of procesa_msgs() decodes the first whole message that is left.
LEMMA CutBlockKeeps ==
  ASSUME FramingInv, CutBlock
  PROVE  FramingInv' /\ Len(theMsg') < Len(theMsg)
<1>1. /\ at = "cutting" /\ Matches(theMsg)
      /\ sent' = sent /\ buf' = buf /\ at' = at /\ cutShort' = cutShort
  BY DEF CutBlock
<1>2. PICK k \in Nat : Upto(k)
  BY <1>1 DEF FramingInv, InCutting
<1> DEFINE a == 5 * FirstWhole - Start
           r == sent - 5 * k
<1>3. /\ Start \in Nat /\ FirstWhole \in Nat /\ a \in 0..4 /\ (Start + a) % 5 = 0
      /\ sent \in Nat /\ r \in Nat /\ Holds(theMsg, Start, a, k, r)
  <2>1. /\ Start \in Nat /\ FirstWhole \in Nat /\ a \in 0..4 /\ (Start + a) % 5 = 0
        /\ sent \in Nat
    BY FirstWholeBounds, MessagesAssumption DEF FramingInv, BufIsStream
  <2>2. 5 * k <= sent /\ Holds(theMsg, Start, a, k, r)
    BY <1>2 DEF Upto
  <2>3. r \in Nat
    BY <2>1, <2>2
  <2> QED BY <2>1, <2>2, <2>3
<1> HIDE DEF a
<1>4. r >= 5
  <2> HIDE DEF r
  <2> QED BY <1>1, <1>3, TextMatch
<1>5. /\ SubSeq(theMsg, Opening(theMsg, 1) + 2, BlockEnd(theMsg) - 1)
           = <<[part |-> "body", msg |-> k]>>
      /\ Holds(theMsg', Start, a, k + 1, r - 5)
  <2> HIDE DEF r
  <2>1. theMsg' = SubSeq(theMsg, 1, Opening(theMsg, 1) - 1)
                     \o SubSeq(theMsg, BlockEnd(theMsg) + 2, Len(theMsg))
    BY DEF CutBlock
  <2>2. /\ SubSeq(theMsg, Opening(theMsg, 1) + 2, BlockEnd(theMsg) - 1)
             = <<[part |-> "body", msg |-> k]>>
        /\ Holds(SubSeq(theMsg, 1, Opening(theMsg, 1) - 1)
                   \o SubSeq(theMsg, BlockEnd(theMsg) + 2, Len(theMsg)), Start, a, k + 1, r - 5)
    BY <1>3, <1>4, TextCut
  <2> QED BY <2>1, <2>2
<1>6. blocks' = Append(blocks, <<[part |-> "body", msg |-> k]>>)
  BY <1>5 DEF CutBlock
<1>7. /\ blocks' \in Seq(Seq(AnyPiece))
      /\ Len(blocks') = Len(blocks) + 1 /\ Len(blocks) \in Nat
      /\ \A i \in 1..Len(blocks) : blocks'[i] = blocks[i]
      /\ blocks'[Len(blocks) + 1] = <<[part |-> "body", msg |-> k]>>
      /\ ToSet(blocks') = ToSet(blocks) \union {<<[part |-> "body", msg |-> k]>>}
      /\ Decoded' = Decoded \union {k}
  BY <1>6, OneMoreDecoded DEF FramingInv
<1>8. Start' = Start /\ FirstWhole' = FirstWhole
  BY <1>1 DEF Start, FirstWhole
<1>9. /\ k \in FirstWhole..MaxMessages /\ FirstWhole..k - 1 \subseteq Decoded
      /\ \A j \in Decoded : j < k
  BY <1>2 DEF Upto
<1>10. k + 1 <= MaxMessages /\ 5 * (k + 1) <= sent /\ r - 5 = sent - 5 * (k + 1)
  <2>1. sent <= 5 * MaxMessages
    BY MessagesAssumption DEF FramingInv, BufIsStream
  <2> QED BY <2>1, <1>3, <1>4, MessagesAssumption
<1>11. BufIsStream'
  BY <1>1, <1>8 DEF FramingInv, BufIsStream
<1>12. Decoded' \subseteq 0..MaxMessages - 1
  BY <1>7, <1>9, <1>10, <1>3, MessagesAssumption DEF FramingInv
<1>13. BlocksWhole'
  <2>1. BlocksWhole
    BY DEF FramingInv
  <2>2. \A b \in ToSet(blocks') : Len(b) = 1 /\ b[1].part = "body"
    <3>1. Len(<<[part |-> "body", msg |-> k]>>) = 1
      OBVIOUS
    <3>2. <<[part |-> "body", msg |-> k]>>[1].part = "body"
      OBVIOUS
    <3> QED BY <2>1, <3>1, <3>2, <1>7 DEF BlocksWhole
  <2>3. ASSUME NEW i \in 1..Len(blocks'), NEW j \in 1..Len(blocks'), i < j
        PROVE  blocks'[i][1].msg < blocks'[j][1].msg
    <3>1. i \in 1..Len(blocks) /\ (j \in 1..Len(blocks) \/ j = Len(blocks) + 1)
      <4> DEFINE n == Len(blocks)
      <4>1. n \in Nat /\ i \in 1..n + 1 /\ j \in 1..n + 1 /\ i < j
        BY <2>3, <1>7
      <4> HIDE DEF n
      <4>2. i \in 1..n /\ (j \in 1..n \/ j = n + 1)
        BY <4>1
      <4> QED BY <4>2 DEF n
    <3>2. CASE j \in 1..Len(blocks)
      BY <3>1, <3>2, <2>1, <2>3, <1>7 DEF BlocksWhole
    <3>3. CASE j = Len(blocks) + 1
      <4>1. blocks[i] \in ToSet(blocks)
        BY <3>1, LenProperties DEF ToSet, FramingInv
      <4>2. blocks[i][1].msg \in Decoded
        BY <4>1 DEF Decoded
      <4>3. blocks'[j][1].msg = k
        BY <3>3, <1>7
      <4> QED BY <3>1, <4>2, <4>3, <1>7, <1>9
    <3> QED BY <3>1, <3>2, <3>3
  <2> QED BY <2>2, <2>3 DEF BlocksWhole
<1>14. Accounted(Start)'
  BY <1>1, <1>7, <1>8 DEF Accounted, FramingInv
<1>15. InReading'
  BY <1>1 DEF InReading
<1>16. Upto(k + 1)'
  <2>1. /\ k + 1 \in FirstWhole..MaxMessages
        /\ FirstWhole..(k + 1) - 1 \subseteq Decoded \union {k}
        /\ \A j \in Decoded \union {k} : j < k + 1
    <3>1. FirstWhole..(k + 1) - 1 \subseteq (FirstWhole..k - 1) \union {k}
      BY <1>3
    <3>2. \A j \in Decoded : j \in Nat
      BY MessagesAssumption DEF FramingInv
    <3> QED BY <3>1, <3>2, <1>3, <1>9, <1>10, MessagesAssumption
  <2>2. Holds(theMsg', Start, 5 * FirstWhole - Start, k + 1, sent - 5 * (k + 1))
    BY <1>5, <1>10 DEF a
  <2> QED BY <2>1, <2>2, <1>1, <1>7, <1>8, <1>10 DEF Upto
<1>17. InCutting'
  BY <1>16 DEF InCutting
<1>18. Len(theMsg') < Len(theMsg)
  <2>1. Len(theMsg) = a + r /\ Len(theMsg') = a + (r - 5)
    BY <1>3, <1>5 DEF Holds
  <2> QED BY <2>1, <1>3
<1>19. at' \in {"reading", "cutting"} /\ cutShort' \subseteq 0..MaxMessages - 1
  BY <1>1 DEF FramingInv
<1> QED BY <1>7, <1>11, <1>12, <1>13, <1>14, <1>15, <1>17, <1>18, <1>19 DEF FramingInv

\* A message of which buf has the beginning but not the end loses a part.
LEMMA BrokenIsCutShort ==
  ASSUME BufIsStream, NEW k \in Nat, Start <= 5 * k, 5 * k < sent, sent < 5 * (k + 1)
  PROVE  PartsOf(buf, k) \notin {{}, ToSet(Parts)}
<1>1. Start \in Nat /\ Len(buf) \in Nat /\ sent \in Nat /\ Start = sent - Len(buf)
  BY FirstWholeBounds, LenProperties DEF BufIsStream, Start
<1>2. \A j \in 1..Len(buf) : buf[j] = Piece(Start + j - 1)
  BY DEF BufIsStream
<1>3. ToSet(buf) = {buf[j] : j \in 1..Len(buf)}
  BY LenProperties DEF ToSet, BufIsStream
<1>4. "<m" \in PartsOf(buf, k)
  <2> DEFINE p == 5 * k - Start + 1
  <2>1. p \in 1..Len(buf) /\ Start + p - 1 = 5 * k + 0
    BY <1>1
  <2> HIDE DEF p
  <2>2. buf[p] = Piece(5 * k + 0)
    BY <2>1, <1>2
  <2>3. 5 * k + 0 \in Nat /\ (5 * k + 0) % 5 = 0 /\ (5 * k + 0) \div 5 = k
    BY MessagePieces
  <2>4. buf[p].part = "<m" /\ buf[p].msg = k
    BY <2>2, <2>3, Pieces
  <2> QED BY <2>1, <2>4, <1>3 DEF PartsOf
<1>5. "sg/>" \notin PartsOf(buf, k)
  <2> SUFFICES ASSUME NEW j \in 1..Len(buf), buf[j].msg = k, buf[j].part = "sg/>"
               PROVE  FALSE
    BY <1>3 DEF PartsOf
  <2>1. Start + j - 1 \in Nat /\ Start + j - 1 < sent /\ buf[j] = Piece(Start + j - 1)
    BY <1>1, <1>2
  <2>2. (Start + j - 1) % 5 = 4 /\ (Start + j - 1) \div 5 = k
    BY <2>1, Pieces
  <2>3. \A x \in Nat : x % 5 = 4 => x = 5 * (x \div 5) + 4
    OBVIOUS
  <2>4. Start + j - 1 = 5 * k + 4
    BY <2>1, <2>2, <2>3
  <2> QED BY <2>1, <2>4, <1>1
<1>6. "sg/>" \in ToSet(Parts)
  <2>1. DOMAIN Parts = 1..5 /\ Parts[5] = "sg/>" /\ 5 \in 1..5
    BY DEF Parts
  <2> QED BY <2>1 DEF ToSet
<1> QED BY <1>4, <1>5, <1>6

\* When nothing matches any more, only the last message of buf may be broken.
LEMMA ClearKeeps ==
  ASSUME FramingInv, Clear
  PROVE  FramingInv'
<1>1. /\ at = "cutting" /\ ~Matches(theMsg) /\ buf' = <<>> /\ at' = "reading"
      /\ cutShort' = cutShort \union
           {k \in 0..MaxMessages - 1 : PartsOf(buf, k) \notin {{}, ToSet(Parts)}}
      /\ sent' = sent /\ blocks' = blocks
  BY DEF Clear
<1>2. PICK k \in Nat : Upto(k)
  BY <1>1 DEF FramingInv, InCutting
<1> DEFINE a == 5 * FirstWhole - Start
           r == sent - 5 * k
<1>3. /\ Start \in Nat /\ FirstWhole \in Nat /\ a \in 0..4 /\ (Start + a) % 5 = 0
      /\ sent \in Nat /\ r \in Nat /\ Holds(theMsg, Start, a, k, r)
  <2>1. /\ Start \in Nat /\ FirstWhole \in Nat /\ a \in 0..4 /\ (Start + a) % 5 = 0
        /\ sent \in Nat
    BY FirstWholeBounds, MessagesAssumption DEF FramingInv, BufIsStream
  <2>2. 5 * k <= sent /\ Holds(theMsg, Start, a, k, r)
    BY <1>2 DEF Upto
  <2>3. r \in Nat
    BY <2>1, <2>2
  <2> QED BY <2>1, <2>2, <2>3
<1> HIDE DEF a
<1>4. r < 5
  <2> HIDE DEF r
  <2> QED BY <1>1, <1>3, TextMatch
<1>5. /\ k \in FirstWhole..MaxMessages /\ FirstWhole..k - 1 \subseteq Decoded
      /\ \A j \in Decoded : j < k
  BY <1>2 DEF Upto
<1>6. Len(<<>>) = 0 /\ <<>> \in Seq(AnyPiece)
  OBVIOUS
<1>7. Start' = sent /\ Decoded' = Decoded
  BY <1>1, <1>3, <1>6 DEF Start, Decoded
<1>8. BufIsStream'
  BY <1>1, <1>6, <1>3 DEF BufIsStream, FramingInv
<1>9. \A j \in Decoded : j \in 0..MaxMessages - 1
  BY DEF FramingInv
<1>10. InReading'
  <2>1. \A j \in Decoded : 5 * j + 5 <= sent
    BY <1>2, <1>3, <1>5, <1>9, MessagesAssumption DEF Upto
  <2> QED BY <2>1, <1>1, <1>7, EmptyNotComplete DEF InReading
<1>11. Accounted(Start)'
  <2> SUFFICES ASSUME NEW j \in 0..MaxMessages - 1, 5 * j < sent
               PROVE  j \in Decoded \union cutShort'
    BY <1>7 DEF Accounted
  <2>1. j \in Nat
    BY MessagesAssumption
  <2>2. CASE 5 * j < Start
    BY <2>2, <1>1 DEF FramingInv, Accounted
  <2>3. CASE Start <= 5 * j /\ j < k
    <3>1. FirstWhole <= j
      BY <2>1, <2>3, <1>3 DEF a
    <3> QED BY <3>1, <2>1, <2>3, <1>3, <1>5
  <2>4. CASE Start <= 5 * j /\ ~(j < k)
    <3>1. j = k /\ sent < 5 * (k + 1)
      BY <2>1, <2>4, <1>3, <1>4
    <3>2. PartsOf(buf, j) \notin {{}, ToSet(Parts)}
      BY <3>1, <2>4, BrokenIsCutShort DEF FramingInv
    <3> QED BY <3>2, <1>1
  <2> QED BY <2>1, <2>2, <2>3, <2>4, <1>3
<1>12. BlocksWhole' /\ InCutting'
  BY <1>1, <1>7 DEF FramingInv, BlocksWhole, InCutting
<1> QED BY <1>1, <1>7, <1>8, <1>10, <1>11, <1>12 DEF FramingInv

\* Every step of run() and of procesa_msgs() keeps the invariant.
LEMMA FramingStep == FramingInv /\ [FramingNext]_framingVars => FramingInv'
<1> SUFFICES ASSUME FramingInv, [FramingNext]_framingVars PROVE FramingInv'
  OBVIOUS
<1>1. ASSUME NEW n \in 1..5 * MaxMessages, Read(n) PROVE FramingInv'
  BY <1>1, ReadKeeps
<1>2. CASE CutBlock
  BY <1>2, CutBlockKeeps
<1>3. CASE Clear
  BY <1>3, ClearKeeps
<1>4. CASE UNCHANGED framingVars
  BY <1>4 DEF framingVars, FramingInv, BufIsStream, Start, FirstWhole, Accounted, Decoded,
       BlocksWhole, InReading, InCutting, Upto
<1> QED BY <1>1, <1>2, <1>3, <1>4 DEF FramingNext, StreamEnds

\* The strengthening from which the properties of the framing follow.
LEMMA FramingInvariant == FramingSpec => []FramingInv
<1> QED BY FramingInitial, FramingStep, PTL DEF FramingSpec

\* Every decoded block is the body of one message and the messages come in order, none
\* twice, for any number of messages and wherever the reads end.
THEOREM BlocksAreWhole == FramingSpec => []BlocksWhole
<1>1. FramingInv => BlocksWhole
  BY DEF FramingInv
<1> QED BY <1>1, FramingInvariant, PTL

\* A message read to its end is decoded before the next read() unless buf.clear()
\* dropped a part of it.
THEOREM OnlyClearLoses == FramingSpec => []LostOnlyByClear
<1>1. FramingInv => LostOnlyByClear
  <2> SUFFICES ASSUME FramingInv, at = "reading", NEW k \in 0..MaxMessages - 1,
                      5 * (k + 1) <= sent
               PROVE  k \in Decoded \union cutShort
    BY DEF LostOnlyByClear
  <2>1. k \in Nat /\ sent \in Nat /\ Start \in Nat
    BY FirstWholeBounds, MessagesAssumption DEF FramingInv, BufIsStream
  <2>2. 5 * k < Start
    <3> SUFFICES ASSUME Start <= 5 * k PROVE FALSE
      BY <2>1
    <3>1. Completo(buf)
      BY <2>1, WholeIsComplete DEF FramingInv
    <3> QED BY <3>1 DEF FramingInv, InReading
  <2> QED BY <2>2 DEF FramingInv, Accounted
<1> QED BY <1>1, FramingInvariant, PTL

\* A turn of procesa_msgs() that is not its last one shortens the text it searches: the
\* argument why the loop ends.
TurnsShorten ==
  [][at = "cutting" /\ at' = "cutting" => Len(theMsg') < Len(theMsg)]_framingVars

\* procesa_msgs() cannot find the same block again for ever: each turn cuts one out.
THEOREM LoopShortens == FramingSpec => TurnsShorten
<1>1. FramingInv /\ [FramingNext]_framingVars =>
        [at = "cutting" /\ at' = "cutting" => Len(theMsg') < Len(theMsg)]_framingVars
  <2> SUFFICES ASSUME FramingInv, FramingNext, at = "cutting", at' = "cutting",
                      framingVars' # framingVars
               PROVE  Len(theMsg') < Len(theMsg)
    BY DEF framingVars
  <2>1. CutBlock
    BY DEF FramingNext, Read, Clear, StreamEnds
  <2> QED BY <2>1, CutBlockKeeps
<1> QED BY <1>1, FramingInvariant, PTL DEF FramingSpec, TurnsShorten

\* A piece of the stream is a part of one of its messages.
LEMMA PieceIsText ==
  ASSUME NEW n \in Nat, n < 5 * MaxMessages
  PROVE  Piece(n).part \in ToSet(Parts) /\ Piece(n).msg \in 0..MaxMessages - 1
<1>1. n \div 5 \in 0..MaxMessages - 1
  BY MessagesAssumption
<1> QED BY <1>1, Pieces

\* So is every piece of the decoder's copy.
LEMMA HoldsText ==
  ASSUME NEW s \in Nat, NEW a \in Nat, s + a <= 5 * MaxMessages,
         NEW k \in Nat, NEW r \in Nat, 5 * k + r <= 5 * MaxMessages,
         NEW t, Holds(t, s, a, k, r)
  PROVE  IsText(t)
<1>1. ToSet(t) = {t[j] : j \in 1..a + r}
  BY LenProperties DEF Holds, ToSet
<1>2. ASSUME NEW j \in 1..a + r
      PROVE  t[j].part \in ToSet(Parts) /\ t[j].msg \in 0..MaxMessages - 1
  <2>1. CASE j <= a
    <3>1. t[j] = Piece(s + j - 1)
      BY <2>1 DEF Holds
    <3>2. s + j - 1 \in Nat /\ s + j - 1 < 5 * MaxMessages
      BY <2>1, MessagesAssumption
    <3> QED BY <3>1, <3>2, PieceIsText
  <2>2. CASE ~(j <= a)
    <3> DEFINE i == j - a - 1
    <3>1. i \in 0..r - 1 /\ a + 1 + i = j
      BY <2>2
    <3>2. 5 * k + i \in Nat /\ 5 * k + i < 5 * MaxMessages
      BY <2>2, MessagesAssumption
    <3> HIDE DEF i
    <3>3. t[j] = Piece(5 * k + i)
      BY <3>1 DEF Holds
    <3> QED BY <3>2, <3>3, PieceIsText
  <2> QED BY <2>1, <2>2
<1> QED BY <1>1, <1>2 DEF IsText

\* So is every piece of buf.
LEMMA BufText == BufIsStream => IsText(buf)
<1> SUFFICES ASSUME BufIsStream PROVE IsText(buf)
  OBVIOUS
<1>1. Start \in Nat /\ Len(buf) \in Nat /\ sent \in Nat /\ Start = sent - Len(buf)
  BY FirstWholeBounds, LenProperties DEF BufIsStream, Start
<1>2. ToSet(buf) = {buf[j] : j \in 1..Len(buf)}
  BY LenProperties DEF ToSet, BufIsStream
<1>3. ASSUME NEW j \in 1..Len(buf)
      PROVE  buf[j].part \in ToSet(Parts) /\ buf[j].msg \in 0..MaxMessages - 1
  <2>1. Start + j - 1 \in Nat /\ Start + j - 1 < 5 * MaxMessages
    BY <1>1, MessagesAssumption DEF BufIsStream
  <2>2. buf[j] = Piece(Start + j - 1)
    BY DEF BufIsStream
  <2> QED BY <2>1, <2>2, PieceIsText
<1> QED BY <1>2, <1>3 DEF IsText

\* While it cuts, the decoder searches a part of the stream.
LEMMA UptoText == BufIsStream /\ (\E k \in Nat : Upto(k)) => IsText(theMsg)
<1> SUFFICES ASSUME BufIsStream, NEW k \in Nat, Upto(k) PROVE IsText(theMsg)
  OBVIOUS
<1> DEFINE a == 5 * FirstWhole - Start
           r == sent - 5 * k
<1>1. /\ Start \in Nat /\ FirstWhole \in Nat /\ a \in 0..4 /\ sent \in Nat
      /\ k \in FirstWhole..MaxMessages /\ 5 * k <= sent /\ sent <= 5 * MaxMessages
      /\ Holds(theMsg, Start, a, k, r)
  BY FirstWholeBounds, MessagesAssumption DEF BufIsStream, Upto
<1>2. /\ a \in Nat /\ r \in Nat /\ Start + a <= 5 * MaxMessages
      /\ 5 * k + r <= 5 * MaxMessages
  BY <1>1, MessagesAssumption
<1> HIDE DEF a, r
<1> QED BY <1>1, <1>2, HoldsText

\* A step leaves parts of the stream in buf, in the copy and in the blocks.
LEMMA TextStep == FramingInv /\ FramingInv' /\ TextOK /\ [FramingNext]_framingVars => TextOK'
<1> SUFFICES ASSUME FramingInv, FramingInv', TextOK, [FramingNext]_framingVars PROVE TextOK'
  OBVIOUS
<1>1. sent' \in 0..5 * MaxMessages /\ cutShort' \subseteq 0..MaxMessages - 1
      /\ at' \in {"reading", "cutting"}
  BY DEF FramingInv, BufIsStream
<1>2. IsText(buf')
  <2>1. (BufIsStream => IsText(buf))'
    BY BufText, PTL
  <2> QED BY <2>1 DEF FramingInv
<1>3. IsText(theMsg')
  <2>1. CASE at' = "cutting"
    <3>1. (BufIsStream /\ (\E k \in Nat : Upto(k)) => IsText(theMsg))'
      BY UptoText, PTL
    <3> QED BY <2>1, <3>1 DEF FramingInv, InCutting
  <2>2. CASE at' # "cutting"
    <3>1. theMsg' = theMsg
      BY <2>2 DEF FramingNext, framingVars, Read, HandOver, CutBlock, Clear, StreamEnds
    <3> QED BY <3>1 DEF TextOK, IsText
  <2> QED BY <2>1, <2>2
<1>4. \A b \in ToSet(blocks') : IsText(b)
  <2> SUFFICES ASSUME NEW b \in ToSet(blocks') PROVE IsText(b)
    OBVIOUS
  <2>1. /\ Len(b) = 1 /\ b[1].part = "body" /\ b[1].msg \in 0..MaxMessages - 1
    BY DEF FramingInv, BlocksWhole, Decoded
  <2>2. b \in Seq(AnyPiece)
    BY DEF FramingInv, ToSet
  <2>3. ToSet(b) = {b[1]}
    BY <2>1, <2>2, LenProperties DEF ToSet
  <2>4. "body" \in ToSet(Parts)
    <3>1. DOMAIN Parts = 1..5 /\ Parts[3] = "body" /\ 3 \in 1..5
      BY DEF Parts
    <3> QED BY <3>1 DEF ToSet
  <2> QED BY <2>1, <2>3, <2>4 DEF IsText
<1> QED BY <1>1, <1>2, <1>3, <1>4 DEF TextOK

\* buf, the decoder's copy and the blocks are parts of what the meter sent.
THEOREM TextsAreOfTheStream == FramingSpec => []TextOK
<1>1. FramingInit => TextOK
  <2> SUFFICES ASSUME FramingInit PROVE TextOK
    OBVIOUS
  <2>1. ToSet(<<>>) = {}
    BY DEF ToSet
  <2> QED BY <2>1, MessagesAssumption DEF FramingInit, TextOK, IsText
<1> QED BY <1>1, TextStep, FramingInvariant, PTL DEF FramingSpec

-----------------------------------------------------------------------------
(* A client's line: the parser, position by position.                         *)

\* p is the first place of symbol in s from a place on, or 0.
IsFirst(p, s, symbol, from) ==
  IF p = 0 THEN \A k \in from..Len(s) : s[k] # symbol
  ELSE p \in from..Len(s) /\ s[p] = symbol /\ \A k \in from..p - 1 : s[k] # symbol

\* Find() is the first place, or 0.
LEMMA FindProperties ==
  ASSUME NEW s \in Seq(Symbols), NEW symbol, NEW from \in Nat \ {0}
  PROVE  Find(s, symbol, from) \in Nat /\ IsFirst(Find(s, symbol, from), s, symbol, from)
<1> DEFINE places == {k \in from..Len(s) : s[k] = symbol}
<1>1. Len(s) \in Nat
  BY LenProperties
<1>2. Find(s, symbol, from) = IF places = {} THEN 0 ELSE Min(places)
  BY DEF Find
<1>3. places \subseteq Nat
  BY <1>1
<1>4. CASE places = {}
  <2>1. Find(s, symbol, from) = 0 /\ \A k \in from..Len(s) : s[k] # symbol
    BY <1>2, <1>4
  <2> QED BY <2>1 DEF IsFirst
<1>5. CASE places # {}
  <2>1. Find(s, symbol, from) = Min(places)
    BY <1>2, <1>5
  <2>2. Min(places) \in places /\ \A y \in places : Min(places) <= y
    <3> HIDE DEF places
    <3> QED BY <1>3, <1>5, LeastElement
  <2>3. \A q \in places : (\A y \in places : q <= y) =>
          /\ q \in from..Len(s) /\ s[q] = symbol /\ q # 0 /\ q \in Nat
          /\ \A k \in from..q - 1 : s[k] # symbol
    <3> SUFFICES ASSUME NEW q \in places, \A y \in places : q <= y
                 PROVE  /\ q \in from..Len(s) /\ s[q] = symbol /\ q # 0 /\ q \in Nat
                        /\ \A k \in from..q - 1 : s[k] # symbol
      OBVIOUS
    <3>1. q \in from..Len(s) /\ s[q] = symbol /\ q # 0 /\ q \in Nat
      BY <1>1
    <3>2. ASSUME NEW k \in from..q - 1, s[k] = symbol PROVE FALSE
      <4>1. k \in places /\ ~(q <= k)
        BY <1>1, <3>1, <3>2
      <4> QED BY <4>1
    <3> QED BY <3>1, <3>2
  <2> HIDE DEF places
  <2> QED BY <2>1, <2>2, <2>3 DEF IsFirst
<1> QED BY <1>4, <1>5

\* There is one such place.
LEMMA FirstUnique ==
  ASSUME NEW s \in Seq(Symbols), NEW symbol, NEW from \in Nat \ {0},
         NEW p \in Nat, IsFirst(p, s, symbol, from)
  PROVE  Find(s, symbol, from) = p
<1> DEFINE q == Find(s, symbol, from)
<1>1. q \in Nat /\ IsFirst(q, s, symbol, from) /\ Len(s) \in Nat
  BY FindProperties, LenProperties
<1> HIDE DEF q
<1>2. q = p
  BY <1>1 DEF IsFirst
<1> QED BY <1>2 DEF q

\* w is the part of s from place i to place j: one word, or nothing.
IsPart(w, s, i, j) ==
  /\ w \in Seq(Symbols)
  /\ \A x : w = <<x>> <=> j = i /\ s[i] = x
  /\ w = <<>> <=> j < i

\* SubSeq() is such a part.
LEMMA OneWord ==
  ASSUME NEW s \in Seq(Symbols), NEW i \in Nat \ {0}, NEW j \in Nat, j <= Len(s)
  PROVE  IsPart(SubSeq(s, i, j), s, i, j)
<1>1. Len(s) \in Nat /\ \A k \in i..j : s[k] \in Symbols
  BY LenProperties, ElementOfSeq
<1>2. /\ SubSeq(s, i, j) \in Seq(Symbols)
      /\ Len(SubSeq(s, i, j)) = IF i <= j THEN j - i + 1 ELSE 0
      /\ \A k \in 1..j - i + 1 : SubSeq(s, i, j)[k] = s[i + k - 1]
  BY <1>1, SubSeqProperties
<1> DEFINE w == SubSeq(s, i, j)
<1>3. w \in Seq(Symbols) /\ Len(w) = (IF i <= j THEN j - i + 1 ELSE 0) /\ (i = j => w[1] = s[i])
  BY <1>2
<1> HIDE DEF w
<1>4. ASSUME NEW x PROVE w = <<x>> <=> j = i /\ s[i] = x
  <2>1. Len(w) = 1 /\ w[1] = x => w = <<x>>
    BY <1>3
  <2>2. w = <<x>> => Len(w) = 1 /\ w[1] = x
    OBVIOUS
  <2>3. Len(w) = 1 <=> j = i
    BY <1>3
  <2>4. j = i => w[1] = s[i]
    BY <1>3
  <2> QED BY <2>1, <2>2, <2>3, <2>4, Zenon
<1>5. Len(w) = 0 <=> w = <<>>
  BY <1>3, EmptySeq
<1>6. w = <<>> <=> j < i
  BY <1>3, <1>5
<1> QED BY <1>3, <1>4, <1>6 DEF IsPart, w

\* "GET LAST", with or without arguments.
SaysGetLast(line) ==
  /\ Len(line) >= 3 /\ line[1] = "GET" /\ line[2] = "SP" /\ line[3] = "LAST"
  /\ Len(line) = 3 \/ line[4] = "SP"

\* "CAPTURE DATA <arg>".
SaysCapture(line, arg) ==
  /\ Len(line) = 5 /\ line[1] = "CAPTURE" /\ line[2] = "SP" /\ line[3] = "DATA"
  /\ line[4] = "SP" /\ line[5] = arg

\* The meaning of a line, by its places.
Says(line) ==
  IF SaysGetLast(line) THEN "GETLAST"
  ELSE IF SaysCapture(line, "START") THEN "CAPTURE_START"
  ELSE IF SaysCapture(line, "STOP") THEN "CAPTURE_STOP"
  ELSE "unknown"

\* A short text, symbol by symbol.
LEMMA ShortTexts ==
  ASSUME NEW q \in Seq(Symbols), NEW a, NEW b, NEW c, NEW d, NEW e
  PROVE  /\ q = <<a, b, c>> <=> Len(q) = 3 /\ q[1] = a /\ q[2] = b /\ q[3] = c
         /\ q = <<a, b, c, d>> <=> Len(q) = 4 /\ q[1] = a /\ q[2] = b /\ q[3] = c /\ q[4] = d
         /\ q = <<a, b, c, d, e>> <=>
              Len(q) = 5 /\ q[1] = a /\ q[2] = b /\ q[3] = c /\ q[4] = d /\ q[5] = e
<1>1. q = <<a, b, c>> <=> Len(q) = 3 /\ q[1] = a /\ q[2] = b /\ q[3] = c
  OBVIOUS
<1>2. q = <<a, b, c, d>> <=> Len(q) = 4 /\ q[1] = a /\ q[2] = b /\ q[3] = c /\ q[4] = d
  OBVIOUS
<1>3. q = <<a, b, c, d, e>> <=>
        Len(q) = 5 /\ q[1] = a /\ q[2] = b /\ q[3] = c /\ q[4] = d /\ q[5] = e
  OBVIOUS
<1> QED BY <1>1, <1>2, <1>3

\* The grammar, position by position.
LEMMA MeaningSays ==
  ASSUME NEW line \in Seq(Symbols)
  PROVE  Meaning(line) = Says(line)
<1>1. Len(line) \in Nat /\ \A k \in 1..Len(line) : line[k] \in Symbols
  BY LenProperties, ElementOfSeq
<1>2. IsPrefix(<<"GET", "SP", "LAST", "SP">>, line) <=>
        Len(line) >= 4 /\ line[1] = "GET" /\ line[2] = "SP" /\ line[3] = "LAST" /\ line[4] = "SP"
  <2> DEFINE g == <<"GET", "SP", "LAST", "SP">>
  <2>1. Len(g) = 4 /\ g[1] = "GET" /\ g[2] = "SP" /\ g[3] = "LAST" /\ g[4] = "SP"
        /\ g \in Seq(Symbols)
    BY DEF Symbols, Words
  <2>2. SubSeq(g, 1, 4) = g
    <3>1. SubSeq(g, 1, 4) \in Seq(Symbols) /\ Len(SubSeq(g, 1, 4)) = 4
          /\ \A k \in 1..4 : SubSeq(g, 1, 4)[k] = g[k]
      <4> HIDE DEF g
      <4>1. \A k \in 1..4 : g[k] \in Symbols
        BY <2>1, ElementOfSeq
      <4>2. /\ SubSeq(g, 1, 4) \in Seq(Symbols)
            /\ Len(SubSeq(g, 1, 4)) = IF 1 <= 4 THEN 4 - 1 + 1 ELSE 0
            /\ \A k \in 1..4 - 1 + 1 : SubSeq(g, 1, 4)[k] = g[1 + k - 1]
        BY <4>1, SubSeqProperties
      <4> QED BY <4>2
    <3> HIDE DEF g
    <3> QED BY <3>1, <2>1, SeqEqual
  <2>3. CASE Len(line) >= 4
    <3> DEFINE front == SubSeq(line, 1, 4)
    <3>1. /\ front \in Seq(Symbols) /\ Len(front) = 4 /\ \A k \in 1..4 : front[k] = line[k]
      <4>1. \A k \in 1..4 : line[k] \in Symbols
        BY <1>1, <2>3
      <4>2. /\ SubSeq(line, 1, 4) \in Seq(Symbols)
            /\ Len(SubSeq(line, 1, 4)) = IF 1 <= 4 THEN 4 - 1 + 1 ELSE 0
            /\ \A k \in 1..4 - 1 + 1 : SubSeq(line, 1, 4)[k] = line[1 + k - 1]
        BY <4>1, SubSeqProperties
      <4> QED BY <4>2
    <3> HIDE DEF front
    <3>2. front = <<"GET", "SP", "LAST", "SP">> <=>
            line[1] = "GET" /\ line[2] = "SP" /\ line[3] = "LAST" /\ line[4] = "SP"
      BY <3>1, ShortTexts
    <3>3. IsPrefix(g, line) <=> g = front
      <4> HIDE DEF g
      <4> QED BY <2>1, <2>2, <2>3, <1>1 DEF IsPrefix, front
    <3> QED BY <3>2, <3>3, <2>3
  <2>4. CASE ~(Len(line) >= 4)
    <3>1. ~IsPrefix(g, line)
      <4> HIDE DEF g
      <4> QED BY <2>1, <2>4, <1>1 DEF IsPrefix
    <3> QED BY <3>1, <2>4
  <2> QED BY <2>3, <2>4
<1>3. line = <<"GET", "SP", "LAST">> <=>
        Len(line) = 3 /\ line[1] = "GET" /\ line[2] = "SP" /\ line[3] = "LAST"
  BY ShortTexts
<1>4. /\ line = <<"CAPTURE", "SP", "DATA", "SP", "START">> <=> SaysCapture(line, "START")
      /\ line = <<"CAPTURE", "SP", "DATA", "SP", "STOP">> <=> SaysCapture(line, "STOP")
  BY ShortTexts DEF SaysCapture
<1>5. line = <<"GET", "SP", "LAST">> \/ IsPrefix(<<"GET", "SP", "LAST", "SP">>, line)
        <=> SaysGetLast(line)
  <2> DEFINE bare == line = <<"GET", "SP", "LAST">>
             more == IsPrefix(<<"GET", "SP", "LAST", "SP">>, line)
  <2>1. /\ bare <=> Len(line) = 3 /\ line[1] = "GET" /\ line[2] = "SP" /\ line[3] = "LAST"
        /\ more <=> Len(line) >= 4 /\ line[1] = "GET" /\ line[2] = "SP" /\ line[3] = "LAST"
                      /\ line[4] = "SP"
    BY <1>2, <1>3
  <2> HIDE DEF bare, more
  <2>2. \A x \in Nat : (x >= 3) <=> (x = 3 \/ x >= 4)
    OBVIOUS
  <2>3. (Len(line) >= 3) <=> (Len(line) = 3 \/ Len(line) >= 4)
    BY <1>1, <2>2
  <2>4. bare \/ more <=> SaysGetLast(line)
    BY <2>1, <2>3 DEF SaysGetLast
  <2> QED BY <2>4 DEF bare, more
<1> QED BY <1>4, <1>5 DEF Meaning, Says

\* The parser, position by position.  It takes the words between the spaces.
LEMMA ParseSays ==
  ASSUME NEW line \in Seq(Symbols)
  PROVE  /\ Parse(line).lastcmd = Says(line)
         /\ Says(line) = "GETLAST" => (Parse(line).args = <<>> <=> line \in Bare)
         /\ Parse(line).args = <<>> \/
              \E i \in 1..Len(line) : Parse(line).args = SubSeq(line, i, Len(line))
<1> DEFINE spc  == Find(line, "SP", 1)
           spc2 == Find(line, "SP", spc + 1)
           end  == IF spc2 = 0 THEN Len(line) ELSE spc2 - 1
           cmd  == SubSeq(line, 1, spc - 1)
           obj  == SubSeq(line, spc + 1, end)
           args == IF spc2 = 0 THEN <<>> ELSE SubSeq(line, spc2 + 1, Len(line))
<1>1. Len(line) \in Nat /\ spc \in Nat /\ IsFirst(spc, line, "SP", 1)
  BY FindProperties, LenProperties
<1>2. Parse(line) = IF spc = 0 THEN Nothing
                    ELSE [lastcmd |-> Lastcmd(cmd, obj, args), args |-> args]
  BY DEF Parse
<1> HIDE DEF spc
<1>3. spc2 \in Nat /\ IsFirst(spc2, line, "SP", spc + 1)
  BY <1>1, FindProperties
<1> HIDE DEF spc2
<1>4. CASE spc = 0
  <2>1. \A k \in 1..Len(line) : line[k] # "SP"
    BY <1>1, <1>4 DEF IsFirst
  <2>2. \A x : ~SaysCapture(line, x)
    BY <2>1 DEF SaysCapture
  <2>3. ~SaysGetLast(line)
    BY <2>1, <1>1 DEF SaysGetLast
  <2>4. Says(line) = "unknown"
    BY <2>2, <2>3 DEF Says
  <2>5. Parse(line) = Nothing
    BY <1>2, <1>4
  <2> QED BY <2>4, <2>5 DEF Nothing
<1>5. CASE spc # 0
  <2>1. spc \in 1..Len(line) /\ line[spc] = "SP" /\ \A k \in 1..spc - 1 : line[k] # "SP"
    BY <1>1, <1>5 DEF IsFirst
  <2>2. IF spc2 = 0 THEN \A k \in spc + 1..Len(line) : line[k] # "SP"
        ELSE spc2 \in spc + 1..Len(line) /\ line[spc2] = "SP"
             /\ \A k \in spc + 1..spc2 - 1 : line[k] # "SP"
    BY <1>3 DEF IsFirst
  <2>3. \A x : cmd = <<x>> <=> spc = 2 /\ line[1] = x
    <3>1. spc - 1 \in Nat /\ spc - 1 <= Len(line) /\ 1 \in Nat \ {0}
      BY <1>1, <2>1
    <3>2. IsPart(cmd, line, 1, spc - 1)
      BY <3>1, OneWord
    <3> HIDE DEF cmd
    <3>3. spc - 1 = 1 <=> spc = 2
      BY <1>1
    <3> QED BY <3>2, <3>3 DEF IsPart
  <2>4. \A x : obj = <<x>> <=> end = spc + 1 /\ line[spc + 1] = x
    <3>1. end \in Nat /\ end <= Len(line) /\ spc + 1 \in Nat \ {0}
      BY <1>1, <1>3, <2>1, <2>2
    <3> HIDE DEF end
    <3>2. IsPart(obj, line, spc + 1, end)
      BY <3>1, OneWord
    <3> HIDE DEF obj
    <3> QED BY <3>2 DEF IsPart
  <2>5. ASSUME spc2 # 0
        PROVE  /\ \A x : args = <<x>> <=> Len(line) = spc2 + 1 /\ line[spc2 + 1] = x
               /\ args = <<>> <=> Len(line) = spc2
    <3>1. spc2 + 1 \in Nat \ {0} /\ spc2 <= Len(line)
      BY <1>1, <1>3, <2>2, <2>5
    <3>2. args = SubSeq(line, spc2 + 1, Len(line))
      BY <2>5
    <3> HIDE DEF args
    <3>3. IsPart(args, line, spc2 + 1, Len(line))
      <4>1. IsPart(SubSeq(line, spc2 + 1, Len(line)), line, spc2 + 1, Len(line))
        BY <1>1, <3>1, OneWord
      <4> QED BY <4>1, <3>2
    <3>4. /\ \A x : args = <<x>> <=> Len(line) = spc2 + 1 /\ line[spc2 + 1] = x
          /\ args = <<>> <=> Len(line) < spc2 + 1
      BY <3>3 DEF IsPart
    <3>5. Len(line) < spc2 + 1 <=> Len(line) = spc2
      BY <1>1, <1>3, <3>1
    <3> QED BY <3>4, <3>5
  <2>6. spc2 = 0 => args = <<>>
    OBVIOUS
  <2>7. /\ Parse(line).lastcmd = Lastcmd(cmd, obj, args) /\ Parse(line).args = args
    BY <1>2, <1>5
  <2>8. args = <<>> \/ \E i \in 1..Len(line) : args = SubSeq(line, i, Len(line))
    <3>1. CASE spc2 = 0
      BY <3>1
    <3>2. CASE spc2 # 0 /\ spc2 < Len(line)
      <4>1. spc2 + 1 \in 1..Len(line)
        BY <3>2, <1>1, <1>3
      <4> QED BY <3>2, <4>1
    <3>3. CASE spc2 # 0 /\ ~(spc2 < Len(line))
      <4>1. Len(line) = spc2
        BY <3>3, <1>1, <1>3, <2>2
      <4> QED BY <3>3, <4>1, <2>5
    <3> QED BY <3>1, <3>2, <3>3
  <2> HIDE DEF cmd, obj, args
  <2>9. cmd = <<"GET">> /\ obj = <<"LAST">> <=> SaysGetLast(line)
    <3>1. ASSUME cmd = <<"GET">>, obj = <<"LAST">> PROVE SaysGetLast(line)
      <4>1. spc = 2 /\ line[1] = "GET" /\ end = 3 /\ line[3] = "LAST"
        <5>1. (spc = 2 /\ line[1] = "GET") /\ (end = spc + 1 /\ line[spc + 1] = "LAST")
          <6> HIDE DEF end
          <6> QED BY <3>1, <2>3, <2>4
        <5> QED BY <5>1
      <4> QED BY <4>1, <2>1, <2>2, <1>1, <1>3 DEF SaysGetLast
    <3>2. ASSUME SaysGetLast(line) PROVE cmd = <<"GET">> /\ obj = <<"LAST">>
      <4>1. /\ Len(line) >= 3 /\ line[1] = "GET" /\ line[2] = "SP" /\ line[3] = "LAST"
            /\ Len(line) = 3 \/ line[4] = "SP"
        BY <3>2 DEF SaysGetLast
      <4>2. spc = 2
        BY <4>1, <2>1, <1>1
      <4>3. end = 3
        <5>1. "LAST" # "SP"
          OBVIOUS
        <5>2. CASE spc2 = 0
          <6>1. \A k \in 3..Len(line) : line[k] # "SP"
            BY <5>2, <4>2, <2>2
          <6>2. \A x \in Nat : x >= 3 /\ x # 3 => 4 \in 3..x
            OBVIOUS
          <6>3. Len(line) >= 3
            BY <4>1
          <6>4. Len(line) # 3 => 4 \in 3..Len(line)
            BY <6>2, <6>3, <1>1
          <6> QED BY <5>2, <6>1, <6>4, <4>1
        <5>3. CASE spc2 # 0
          <6>1. spc2 \in 3..Len(line) /\ line[spc2] = "SP" /\ spc2 # 3
            BY <5>1, <5>3, <4>1, <4>2, <2>2
          <6>2. spc2 = 4
            BY <6>1, <5>3, <4>1, <4>2, <2>2, <1>1
          <6> QED BY <6>2
        <5> QED BY <5>2, <5>3
      <4> QED BY <4>1, <4>2, <4>3, <2>3, <2>4
    <3> QED BY <3>1, <3>2
  <2>10. ASSUME NEW x, x # "SP"
         PROVE  cmd = <<"CAPTURE">> /\ obj = <<"DATA">> /\ args = <<x>> <=> SaysCapture(line, x)
    <3>1. ASSUME cmd = <<"CAPTURE">>, obj = <<"DATA">>, args = <<x>>
          PROVE  SaysCapture(line, x)
      <4>1. spc = 2 /\ line[1] = "CAPTURE" /\ end = 3 /\ line[3] = "DATA"
        <5>1. (spc = 2 /\ line[1] = "CAPTURE") /\ (end = spc + 1 /\ line[spc + 1] = "DATA")
          <6> HIDE DEF end
          <6> QED BY <3>1, <2>3, <2>4
        <5> QED BY <5>1
      <4>2. spc2 # 0
        <5>1. <<x>> # <<>>
          OBVIOUS
        <5> QED BY <5>1, <2>6, <3>1
      <4>3. Len(line) = spc2 + 1 /\ line[spc2 + 1] = x
        BY <4>2, <2>5, <3>1
      <4> QED BY <4>1, <4>2, <4>3, <2>1, <2>2, <1>1, <1>3 DEF SaysCapture
    <3>2. ASSUME SaysCapture(line, x)
          PROVE  cmd = <<"CAPTURE">> /\ obj = <<"DATA">> /\ args = <<x>>
      <4>1. /\ Len(line) = 5 /\ line[1] = "CAPTURE" /\ line[2] = "SP" /\ line[3] = "DATA"
            /\ line[4] = "SP" /\ line[5] = x
        BY <3>2 DEF SaysCapture
      <4>2. "CAPTURE" # "SP" /\ "DATA" # "SP"
        OBVIOUS
      <4>3. spc = 2
        BY <4>1, <4>2, <2>1, <1>1
      <4>4. spc2 = 4 /\ end = 3
        BY <4>1, <4>2, <4>3, <2>2, <1>1, <1>3
      <4> QED BY <4>1, <4>3, <4>4, <2>3, <2>4, <2>5
    <3> QED BY <3>1, <3>2
  <2>11. Lastcmd(cmd, obj, args) = Says(line)
    <3>1. "START" # "SP" /\ "STOP" # "SP"
      OBVIOUS
    <3> QED BY <3>1, <2>9, <2>10 DEF Lastcmd, Says
  <2>12. ASSUME Says(line) = "GETLAST" PROVE args = <<>> <=> line \in Bare
    <3>1. SaysGetLast(line)
      BY <2>12 DEF Says
    <3>2. /\ Len(line) >= 3 /\ line[1] = "GET" /\ line[2] = "SP" /\ line[3] = "LAST"
          /\ Len(line) = 3 \/ line[4] = "SP"
      BY <3>1 DEF SaysGetLast
    <3>3. spc = 2 /\ end = 3
      <4>1. (spc = 2 /\ line[1] = "GET") /\ (end = spc + 1 /\ line[spc + 1] = "LAST")
        <5> HIDE DEF end
        <5> QED BY <3>1, <2>3, <2>4, <2>9
      <4> QED BY <4>1
    <3>4. ASSUME args = <<>> PROVE line \in Bare
      <4>1. Len(line) = 3 \/ (Len(line) = 4 /\ line[4] = "SP")
        <5>1. CASE spc2 = 0
          BY <5>1, <3>3
        <5>2. CASE spc2 # 0
          BY <5>2, <3>2, <3>3, <3>4, <2>2, <2>5, <1>1, <1>3
        <5> QED BY <5>1, <5>2
      <4>2. line = <<"GET", "SP", "LAST">> \/ line = <<"GET", "SP", "LAST", "SP">>
        BY <4>1, <3>2, ShortTexts
      <4> QED BY <4>2 DEF Bare
    <3>5. ASSUME line \in Bare PROVE args = <<>>
      <4>1. Len(line) = 3 \/ Len(line) = 4
        BY <3>5 DEF Bare
      <4>2. CASE spc2 = 0
        BY <4>2, <2>6
      <4>3. CASE spc2 # 0
        <5>1. spc2 \in 3..Len(line) /\ spc2 - 1 = 3
          BY <4>3, <3>3, <2>2
        <5>2. Len(line) = spc2
          <6>1. spc2 = 4
            BY <5>1, <1>3
          <6>2. ~(4 \in 3..3)
            OBVIOUS
          <6> QED BY <4>1, <5>1, <6>1, <6>2
        <5> QED BY <4>3, <5>2, <2>5
      <4> QED BY <4>2, <4>3
    <3> QED BY <3>4, <3>5
  <2> QED BY <2>7, <2>8, <2>11, <2>12
<1> QED BY <1>4, <1>5

\* The parser reads the grammar.
LEMMA ParseMeaning ==
  ASSUME NEW line \in Seq(Symbols)
  PROVE  Parse(line).lastcmd = Meaning(line)
  BY ParseSays, MeaningSays

-----------------------------------------------------------------------------
(* A client's line: what the first line means is what CMessage makes of it.    *)

\* What a line may mean.
Commands == {"unknown", "GETLAST", "CAPTURE_START", "CAPTURE_STOP"}

\* Up to a place before the first EOL.
LEMMA UpTo ==
  ASSUME NEW s \in Seq(Symbols), NEW e \in 1..Len(s), \A k \in 1..e - 1 : s[k] # "EOL"
  PROVE  SubSeq(s, 1, e - 1) \in Seq(Symbols) /\ SubSeq(s, 1, e - 1) \in Seq(Symbols \ {"EOL"})
<1>1. Len(s) \in Nat /\ e - 1 \in Int /\ 1 \in Int
  BY LenProperties
<1>2. \A k \in 1..e - 1 : s[k] \in Symbols /\ s[k] \in Symbols \ {"EOL"}
  BY <1>1, ElementOfSeq
<1> DEFINE n == e - 1
           T == Symbols \ {"EOL"}
<1>3. n \in Int /\ (\A k \in 1..n : s[k] \in Symbols) /\ \A k \in 1..n : s[k] \in T
  BY <1>1, <1>2
<1> HIDE DEF n, T
<1>4. SubSeq(s, 1, n) \in Seq(Symbols) /\ SubSeq(s, 1, n) \in Seq(T)
  BY <1>1, <1>3, SubSeqProperties
<1> QED BY <1>4 DEF n, T

\* A text is complete if and only if it has an EOL.
LEMMA CompleteFinds ==
  ASSUME NEW s \in Seq(Symbols)
  PROVE  /\ Complete(s) <=> Find(s, "EOL", 1) # 0
         /\ Complete(s) => /\ Find(s, "EOL", 1) \in 1..Len(s)
                           /\ s[Find(s, "EOL", 1)] = "EOL"
                           /\ \A k \in 1..Find(s, "EOL", 1) - 1 : s[k] # "EOL"
                           /\ FirstLine(s) \in Seq(Symbols)
                           /\ FirstLine(s) \in Seq(Symbols \ {"EOL"})
<1> DEFINE e == Find(s, "EOL", 1)
<1>1. e \in Nat /\ IsFirst(e, s, "EOL", 1)
  BY FindProperties
<1>2. Complete(s) <=> \E k \in 1..Len(s) : s[k] = "EOL"
  BY LenProperties DEF Complete, ToSet
<1>3. FirstLine(s) = SubSeq(s, 1, e - 1)
  BY DEF FirstLine
<1> HIDE DEF e
<1>4. Complete(s) <=> e # 0
  BY <1>1, <1>2 DEF IsFirst
<1>5. e # 0 => e \in 1..Len(s) /\ s[e] = "EOL" /\ \A k \in 1..e - 1 : s[k] # "EOL"
  BY <1>1 DEF IsFirst
<1>6. e # 0 => FirstLine(s) \in Seq(Symbols) /\ FirstLine(s) \in Seq(Symbols \ {"EOL"})
  BY <1>3, <1>5, UpTo
<1> QED BY <1>4, <1>5, <1>6 DEF e

\* CMessage() of a text is what the text means; its arguments have no EOL; the lines that ask
\* for a reading without arguments are two.
LEMMA CMessageMeant ==
  ASSUME NEW s \in Seq(Symbols)
  PROVE  /\ CMessage(s).lastcmd = Meant(s) /\ Meant(s) \in Commands
         /\ CMessage(s).args \in Seq(Symbols \ {"EOL"})
         /\ Meant(s) = "GETLAST" => (CMessage(s).args = <<>> <=> FirstLine(s) \in Bare)
<1>1. CASE ~Complete(s)
  <2>1. CMessage(s) = Nothing /\ Meant(s) = "unknown"
    BY <1>1, CompleteFinds DEF CMessage, Meant
  <2>2. <<>> \in Seq(Symbols \ {"EOL"})
    OBVIOUS
  <2> QED BY <2>1, <2>2 DEF Nothing, Commands
<1>2. CASE Complete(s)
  <2> DEFINE line == FirstLine(s)
  <2>1. line \in Seq(Symbols) /\ line \in Seq(Symbols \ {"EOL"})
    BY <1>2, CompleteFinds
  <2>2. CMessage(s) = Parse(line) /\ Meant(s) = Meaning(line)
    BY <1>2, CompleteFinds DEF CMessage, Meant, FirstLine
  <2> HIDE DEF line
  <2>3. /\ Parse(line).lastcmd = Meaning(line) /\ Meaning(line) = Says(line)
        /\ Says(line) = "GETLAST" => (Parse(line).args = <<>> <=> line \in Bare)
        /\ Parse(line).args = <<>> \/
             \E i \in 1..Len(line) : Parse(line).args = SubSeq(line, i, Len(line))
    BY <2>1, ParseSays, MeaningSays
  <2>4. Says(line) \in Commands
    BY DEF Says, Commands
  <2>5. Parse(line).args \in Seq(Symbols \ {"EOL"})
    <3> DEFINE T == Symbols \ {"EOL"}
    <3>1. line \in Seq(T)
      BY <2>1
    <3> HIDE DEF T
    <3>2. Len(line) \in Nat /\ \A k \in 1..Len(line) : line[k] \in T
      BY <3>1, LenProperties, ElementOfSeq
    <3>3. ASSUME NEW i \in 1..Len(line) PROVE SubSeq(line, i, Len(line)) \in Seq(T)
      BY <3>2, SubSeqProperties
    <3>4. <<>> \in Seq(T)
      OBVIOUS
    <3> QED BY <2>3, <3>3, <3>4 DEF T
  <2> QED BY <2>2, <2>3, <2>4, <2>5 DEF line
<1> QED BY <1>1, <1>2

\* What follows a complete text does not change its first line.
LEMMA WholeLine ==
  ASSUME NEW s \in Seq(Symbols), NEW rest \in Seq(Symbols), Complete(s)
  PROVE  /\ s \o rest \in Seq(Symbols)
         /\ Complete(s \o rest) /\ FirstLine(s \o rest) = FirstLine(s)
         /\ Meant(s \o rest) = Meant(s)
<1> DEFINE all == s \o rest
           e == Find(s, "EOL", 1)
<1>1. /\ all \in Seq(Symbols) /\ Len(all) = Len(s) + Len(rest)
      /\ Len(s) \in Nat /\ Len(rest) \in Nat
      /\ \A k \in 1..Len(s) + Len(rest) : all[k] = IF k <= Len(s) THEN s[k] ELSE rest[k - Len(s)]
  BY ConcatProperties, LenProperties
<1>2. e \in 1..Len(s) /\ s[e] = "EOL" /\ \A k \in 1..e - 1 : s[k] # "EOL"
  BY CompleteFinds
<1> HIDE DEF all, e
<1>3. \A k \in 1..Len(s) : all[k] = s[k]
  BY <1>1
<1>4. /\ e \in 1..Len(all) /\ e \in Nat /\ e # 0
      /\ all[e] = "EOL" /\ \A k \in 1..e - 1 : all[k] # "EOL"
  <2>1. \A k \in 1..e - 1 : k \in 1..Len(s)
    BY <1>1, <1>2
  <2>2. \A k \in 1..e - 1 : all[k] # "EOL"
    BY <2>1, <1>2, <1>3
  <2>3. e \in 1..Len(all) /\ e \in Nat /\ e # 0
    BY <1>1, <1>2
  <2>4. all[e] = "EOL"
    BY <1>2, <1>3
  <2> QED BY <2>2, <2>3, <2>4
<1>5. Find(all, "EOL", 1) = e
  <2>1. IsFirst(e, all, "EOL", 1)
    BY <1>4 DEF IsFirst
  <2> QED BY <2>1, <1>1, <1>4, FirstUnique
<1>6. Complete(all)
  BY <1>1, <1>4, <1>5, CompleteFinds
<1>7. SubSeq(all, 1, e - 1) = SubSeq(s, 1, e - 1)
  <2> DEFINE n == e - 1
  <2>1. n \in Int /\ 1 \in Int /\ \A k \in 1..n : k \in 1..Len(s) /\ k \in 1..Len(all)
    BY <1>1, <1>2
  <2>2. \A k \in 1..n : all[k] \in Symbols /\ s[k] \in Symbols /\ all[k] = s[k]
    BY <2>1, <1>1, <1>3, ElementOfSeq
  <2> HIDE DEF n
  <2>3. /\ SubSeq(all, 1, n) \in Seq(Symbols)
        /\ Len(SubSeq(all, 1, n)) = IF 1 <= n THEN n - 1 + 1 ELSE 0
        /\ \A i \in 1..n - 1 + 1 : SubSeq(all, 1, n)[i] = all[1 + i - 1]
    BY <2>1, <2>2, SubSeqProperties
  <2>4. /\ SubSeq(s, 1, n) \in Seq(Symbols)
        /\ Len(SubSeq(s, 1, n)) = IF 1 <= n THEN n - 1 + 1 ELSE 0
        /\ \A i \in 1..n - 1 + 1 : SubSeq(s, 1, n)[i] = s[1 + i - 1]
    BY <2>1, <2>2, SubSeqProperties
  <2>5. \A i \in 1..n : SubSeq(all, 1, n)[i] = SubSeq(s, 1, n)[i]
    BY <2>1, <2>2, <2>3, <2>4
  <2>6. Len(SubSeq(all, 1, n)) = Len(SubSeq(s, 1, n)) /\ 1..Len(SubSeq(s, 1, n)) = 1..n
    BY <2>1, <2>3, <2>4
  <2>7. SubSeq(all, 1, n) = SubSeq(s, 1, n)
    BY <2>3, <2>4, <2>5, <2>6, SeqEqual
  <2> QED BY <2>7 DEF n
<1>8. FirstLine(all) = FirstLine(s)
  BY <1>5, <1>7 DEF FirstLine, e
<1>9. Meant(all) = Meant(s)
  BY <1>6, <1>8 DEF Meant
<1> QED BY <1>1, <1>6, <1>8, <1>9 DEF all

-----------------------------------------------------------------------------
(* The whole handler.  Every read recomputes message, type and answer, so the  *)
(* properties of the commands are inductive with the types.                   *)

CommandInv == TypeOK /\ FirstLineDecides

\* Nothing received means nothing.
LEMMA NothingMeant ==
  /\ <<>> \in Seq(Symbols) /\ ~Complete(<<>>) /\ Meant(<<>> \o <<>>) = "unknown"
<1>1. <<>> \in Seq(Symbols) /\ <<>> \o <<>> = <<>>
  BY ConcatEmptySeq
<1>2. ~Complete(<<>>)
  BY DEF Complete, ToSet
<1> QED BY <1>1, <1>2 DEF Meant

\* No client has sent anything.
LEMMA CommandInitial == Init => CommandInv
<1> SUFFICES ASSUME Init PROVE CommandInv
  OBVIOUS
<1>1. <<>> \in Seq(Symbols \ {"EOL"})
  OBVIOUS
<1>2. TypeOK
  BY <1>1, NothingMeant DEF Init, TypeOK, Nothing
<1>3. FirstLineDecides
  BY NothingMeant DEF Init, FirstLineDecides, Said, Nothing
<1> QED BY <1>2, <1>3 DEF CommandInv

\* A new text of the client: the latest read is forgotten.
LEMMA SendKeeps ==
  ASSUME CommandInv, NEW text \in Texts, Send(text)
  PROVE  CommandInv'
<1>1. <<>> \in Seq(Symbols \ {"EOL"}) /\ text \in Seq(Symbols)
  BY TextsAssumption
<1>2. TypeOK'
  BY <1>1, NothingMeant DEF Send, TypeOK, CommandInv, Nothing
<1>3. FirstLineDecides'
  BY NothingMeant DEF Send, FirstLineDecides, Said, Nothing
<1> QED BY <1>2, <1>3 DEF CommandInv

\* A read: what becomes of the received bytes and those behind them.
LEMMA ReadDataKeeps ==
  ASSUME CommandInv, NEW n \in 1..BufLen, NEW rest \in Leftover, ReadData(n, rest)
  PROVE  CommandInv' /\ answer' \in AnswersTo(Said') /\ liveData' \in FeedsAfter(Said')
<1> DEFINE data == got' \o rest
           msg == CMessage(data)
<1>1. /\ wire \in Seq(Symbols) /\ n \in Nat /\ n # 0 /\ n <= Len(wire) /\ Len(wire) \in Nat
      /\ got' = SubSeq(wire, 1, n) /\ wire' = SubSeq(wire, n + 1, Len(wire))
      /\ behind' = rest /\ rest \in Seq(Symbols) /\ m' = m /\ m \in BOOLEAN
      /\ liveData \in BOOLEAN /\ (liveData => m)
  BY LenProperties, BufLenAssumption, TextsAssumption DEF ReadData, CommandInv, TypeOK
<1>2. got' \in Seq(Symbols) /\ wire' \in Seq(Symbols)
  <2>1. \A k \in 1..Len(wire) : wire[k] \in Symbols
    BY <1>1, ElementOfSeq
  <2>2. /\ 1 \in Int /\ n \in Int /\ n + 1 \in Int /\ Len(wire) \in Int
        /\ (\A k \in 1..n : wire[k] \in Symbols)
        /\ \A k \in n + 1..Len(wire) : wire[k] \in Symbols
    BY <1>1, <2>1
  <2>3. SubSeq(wire, 1, n) \in Seq(Symbols)
    BY <2>2, SubSeqProperties
  <2>4. SubSeq(wire, n + 1, Len(wire)) \in Seq(Symbols)
    BY <2>2, SubSeqProperties
  <2> QED BY <1>1, <2>3, <2>4
<1>3. data \in Seq(Symbols)
  BY <1>1, <1>2, ConcatProperties
<1>4. message' = msg /\ type' \in GetType(msg.lastcmd) /\ Apply(msg, type')
  BY DEF ReadData, OnMessageReceived
<1> HIDE DEF data
<1>5. /\ msg.lastcmd = Meant(data) /\ Meant(data) \in Commands
      /\ msg.args \in Seq(Symbols \ {"EOL"})
      /\ Meant(data) = "GETLAST" => (msg.args = <<>> <=> FirstLine(data) \in Bare)
  BY <1>3, CMessageMeant
<1> HIDE DEF msg
<1>6. Complete(got') =>
        Complete(data) /\ FirstLine(data) = FirstLine(got') /\ Meant(data) = Meant(got')
  BY <1>1, <1>2, WholeLine DEF data
<1>7. type' \in {"REQ", "CMD_LIVEDATA", "CMD_ENDLIVEDATA", "none"}
  BY <1>4, <1>5 DEF GetType, Commands
<1>8. /\ type' = "REQ" => answer' = GetResponse(msg) /\ liveData' = liveData
      /\ type' = "CMD_LIVEDATA" => m /\ answer' = "none" /\ liveData' = TRUE
      /\ type' = "CMD_ENDLIVEDATA" => m /\ answer' = "none" /\ liveData' = FALSE
      /\ type' = "none" => answer' = "none" /\ liveData' = liveData
  <2>1. CASE type' = "REQ"
    BY <2>1, <1>4 DEF Apply
  <2>2. CASE type' = "CMD_LIVEDATA"
    BY <2>2, <1>4 DEF Apply
  <2>3. CASE type' = "CMD_ENDLIVEDATA"
    BY <2>3, <1>4 DEF Apply
  <2>4. CASE type' = "none"
    BY <2>4, <1>4 DEF Apply
  <2> QED BY <1>7, <2>1, <2>2, <2>3, <2>4
<1>9. /\ type' = "REQ" => msg.lastcmd \in {"GETLAST", "unknown"}
      /\ type' = "CMD_LIVEDATA" => msg.lastcmd \in {"CAPTURE_START", "unknown"}
      /\ type' = "CMD_ENDLIVEDATA" => msg.lastcmd \in {"CAPTURE_STOP", "unknown"}
  <2>1. CASE msg.lastcmd = "GETLAST"
    BY <2>1, <1>4 DEF GetType
  <2>2. CASE msg.lastcmd = "CAPTURE_START"
    BY <2>2, <1>4 DEF GetType
  <2>3. CASE msg.lastcmd = "CAPTURE_STOP"
    BY <2>3, <1>4 DEF GetType
  <2>4. CASE msg.lastcmd = "unknown"
    BY <2>4
  <2> QED BY <1>5, <2>1, <2>2, <2>3, <2>4 DEF Commands
<1>10. /\ GetResponse(msg) \in {"none", "reading", "NOK"}
       /\ ~m => GetResponse(msg) = "none"
       /\ msg.lastcmd = "GETLAST" /\ m =>
            GetResponse(msg) = IF msg.args = <<>> THEN "reading" ELSE "none"
       /\ msg.lastcmd = "unknown" /\ m => GetResponse(msg) = "NOK"
  BY DEF GetResponse
<1>11. TypeOK'
  <2>1. answer' \in {"none", "reading", "NOK"}
    BY <1>7, <1>8, <1>10
  <2>2. liveData' \in BOOLEAN /\ (liveData' => m')
    <3>1. m' = m /\ liveData \in BOOLEAN /\ (liveData => m)
      BY <1>1
    <3>2. CASE liveData' = liveData
      BY <3>1, <3>2, Zenon
    <3>3. CASE liveData' = TRUE /\ m
      BY <3>1, <3>3, Zenon
    <3>4. CASE liveData' = FALSE
      BY <3>4, Zenon
    <3>5. liveData' = liveData \/ (liveData' = TRUE /\ m) \/ liveData' = FALSE
      BY <1>7, <1>8, Zenon
    <3> QED BY <3>2, <3>3, <3>4, <3>5
  <2>3. /\ message'.lastcmd \in {"unknown", "GETLAST", "CAPTURE_START", "CAPTURE_STOP"}
        /\ message'.args \in Seq(Symbols \ {"EOL"})
    BY <1>4, <1>5 DEF Commands
  <2> QED BY <2>1, <2>2, <2>3, <1>1, <1>2, <1>7 DEF TypeOK
<1>12. Meant(Said') = msg.lastcmd /\ (msg.lastcmd = "GETLAST" => FirstLine(Said') = FirstLine(data))
  <2>1. CASE Complete(got')
    <3>1. Said' = got'
      BY <2>1 DEF Said
    <3> QED BY <2>1, <3>1, <1>5, <1>6
  <2>2. CASE ~Complete(got')
    <3>1. Said' = data
      BY <2>2, <1>1 DEF Said, data
    <3> QED BY <3>1, <1>5
  <2> QED BY <2>1, <2>2
<1>13. FirstLineDecides'
  BY <1>4, <1>12 DEF FirstLineDecides
<1>14. answer' \in AnswersTo(Said')
  <2>1. CASE ~m
    <3>1. answer' = "none"
      BY <2>1, <1>7, <1>8, <1>10
    <3> QED BY <2>1, <3>1 DEF AnswersTo
  <2>2. CASE m /\ msg.lastcmd = "GETLAST"
    <3>1. type' = "REQ"
      BY <2>2, <1>4 DEF GetType
    <3>2. answer' = IF msg.args = <<>> THEN "reading" ELSE "none"
      BY <3>1, <2>2, <1>8, <1>10
    <3>3. msg.args = <<>> <=> FirstLine(Said') \in Bare
      BY <2>2, <1>5, <1>12
    <3> QED BY <3>2, <3>3, <2>2, <1>12 DEF AnswersTo
  <2>3. CASE m /\ msg.lastcmd = "unknown"
    <3>1. answer' \in {"none", "NOK"}
      BY <2>3, <1>7, <1>8, <1>10
    <3> QED BY <3>1, <2>3, <1>12 DEF AnswersTo
  <2>4. CASE m /\ msg.lastcmd \in {"CAPTURE_START", "CAPTURE_STOP"}
    <3>1. answer' = "none"
      BY <2>4, <1>7, <1>8, <1>9
    <3> QED BY <3>1, <2>4, <1>12 DEF AnswersTo
  <2> QED BY <2>1, <2>2, <2>3, <2>4, <1>5 DEF Commands
<1>15. liveData' \in FeedsAfter(Said')
  <2>1. CASE msg.lastcmd = "GETLAST"
    <3>1. type' = "REQ"
      BY <2>1, <1>4 DEF GetType
    <3>2. liveData' = liveData
      BY <3>1, <1>8
    <3> QED BY <3>2, <2>1, <1>12 DEF FeedsAfter
  <2>2. CASE msg.lastcmd = "CAPTURE_START"
    <3>1. type' = "CMD_LIVEDATA"
      BY <2>2, <1>4 DEF GetType
    <3>2. liveData' = TRUE
      BY <3>1, <1>8, Zenon
    <3> QED BY <3>2, <2>2, <1>12 DEF FeedsAfter
  <2>3. CASE msg.lastcmd = "CAPTURE_STOP"
    <3>1. type' = "CMD_ENDLIVEDATA"
      BY <2>3, <1>4 DEF GetType
    <3>2. liveData' = FALSE
      BY <3>1, <1>8, Zenon
    <3> QED BY <3>2, <2>3, <1>12 DEF FeedsAfter
  <2>4. CASE msg.lastcmd = "unknown"
    <3>1. liveData' \in BOOLEAN
      BY <1>11 DEF TypeOK
    <3> QED BY <3>1, <2>4, <1>12 DEF FeedsAfter
  <2> QED BY <2>1, <2>2, <2>3, <2>4, <1>5 DEF Commands
<1> QED BY <1>11, <1>13, <1>14, <1>15 DEF CommandInv

\* The decoder appears: nothing else changes.
LEMMA DecoderKeeps == ASSUME CommandInv, DecoderAppears PROVE CommandInv'
<1>1. TypeOK'
  BY DEF DecoderAppears, CommandInv, TypeOK
<1>2. FirstLineDecides'
  BY DEF DecoderAppears, CommandInv, FirstLineDecides, Said
<1> QED BY <1>1, <1>2 DEF CommandInv

\* Every step keeps the invariant.
LEMMA CommandStep == CommandInv /\ [Next]_vars => CommandInv'
<1> SUFFICES ASSUME CommandInv, [Next]_vars PROVE CommandInv'
  OBVIOUS
<1>1. ASSUME NEW text \in Texts, Send(text) PROVE CommandInv'
  BY <1>1, SendKeeps
<1>2. ASSUME NEW n \in 1..BufLen, NEW rest \in Leftover, ReadData(n, rest) PROVE CommandInv'
  BY <1>2, ReadDataKeeps
<1>3. CASE DecoderAppears
  BY <1>3, DecoderKeeps
<1>4. CASE UNCHANGED vars
  BY <1>4 DEF vars, CommandInv, TypeOK, FirstLineDecides, Said
<1> QED BY <1>1, <1>2, <1>3, <1>4 DEF Next

\* The two invariants of the commands, together.
LEMMA CommandInvariant == Spec => []CommandInv
<1> QED BY CommandInitial, CommandStep, PTL DEF Spec

\* The types of a command and of its answer, and no feed without decoder.
THEOREM CommandTypes == Spec => []TypeOK
<1>1. CommandInv => TypeOK
  BY DEF CommandInv
<1> QED BY <1>1, CommandInvariant, PTL

\* A complete first line is understood alone, whatever follows it in the read and whatever
\* the stack holds behind it, for every set of texts and of leftovers and every length
\* of a read.
THEOREM FirstLineIsMeant == Spec => []FirstLineDecides
<1>1. CommandInv => FirstLineDecides
  BY DEF CommandInv
<1> QED BY <1>1, CommandInvariant, PTL

\* A read is the only step that takes from what a client sent.
LEMMA ReadsRead ==
  ASSUME CommandInv, [Next]_vars, Reads
  PROVE  \E n \in 1..BufLen, rest \in Leftover : ReadData(n, rest)
<1>1. CASE UNCHANGED vars
  BY <1>1 DEF vars, Reads
<1>2. CASE DecoderAppears \/ \E text \in Texts : Send(text)
  BY <1>2 DEF DecoderAppears, Send, Reads
<1> QED BY <1>1, <1>2 DEF Next

\* ... and every read takes some of it.
LEMMA ReadDataReads ==
  ASSUME CommandInv, NEW n \in 1..BufLen, NEW rest \in Leftover, ReadData(n, rest)
  PROVE  Reads
<1>1. /\ wire \in Seq(Symbols) /\ wire # <<>> /\ n \in Nat /\ n # 0 /\ n <= Len(wire)
      /\ Len(wire) \in Nat /\ wire' = SubSeq(wire, n + 1, Len(wire))
  BY LenProperties, BufLenAssumption DEF ReadData, CommandInv, TypeOK
<1>2. Len(wire') # Len(wire)
  <2>1. \A k \in n + 1..Len(wire) : wire[k] \in Symbols
    BY <1>1, ElementOfSeq
  <2>2. /\ n + 1 \in Int /\ Len(wire) \in Int
    BY <1>1
  <2>3. Len(SubSeq(wire, n + 1, Len(wire))) =
          IF n + 1 <= Len(wire) THEN Len(wire) - (n + 1) + 1 ELSE 0
    BY <2>1, <2>2, SubSeqProperties
  <2>4. PICK l \in Nat : l = Len(wire)
    BY <1>1
  <2>5. Len(wire') = IF n + 1 <= l THEN l - (n + 1) + 1 ELSE 0
    BY <1>1, <2>3, <2>4
  <2> QED BY <1>1, <2>4, <2>5
<1> QED BY <1>1, <1>2 DEF Reads

\* Every read is answered as what it says demands: a reading, NOK or nothing.
THEOREM AnswersFit == Spec => AnswerFits
<1>1. CommandInv /\ [Next]_vars => [Reads => answer' \in AnswersTo(Said')]_vars
  BY ReadsRead, ReadDataKeeps
<1> QED BY <1>1, CommandInvariant, PTL DEF Spec, AnswerFits

\* Every START and STOP that is read is obeyed, and nothing else that has a meaning changes
\* the feed.
THEOREM FeedIsObeyed == Spec => FeedObeys
<1>1. CommandInv /\ [Next]_vars =>
        [IF Reads THEN liveData' \in FeedsAfter(Said') ELSE liveData' = liveData]_vars
  <2> SUFFICES ASSUME CommandInv, [Next]_vars
               PROVE  IF Reads THEN liveData' \in FeedsAfter(Said') ELSE liveData' = liveData
    OBVIOUS
  <2>1. CASE Reads
    BY <2>1, ReadsRead, ReadDataKeeps
  <2>2. CASE ~Reads
    <3>1. ASSUME NEW n \in 1..BufLen, NEW rest \in Leftover, ReadData(n, rest) PROVE FALSE
      BY <2>2, <3>1, ReadDataReads
    <3>2. CASE UNCHANGED vars
      BY <2>2, <3>2 DEF vars
    <3>3. CASE DecoderAppears \/ \E text \in Texts : Send(text)
      BY <2>2, <3>3 DEF DecoderAppears, Send
    <3> QED BY <3>1, <3>2, <3>3 DEF Next
  <2> QED BY <2>1, <2>2
<1> QED BY <1>1, CommandInvariant, PTL DEF Spec, FeedObeys
===============================================================================
