---------------------------- MODULE TcpServersProofs ----------------------------
(***************************************************************************)
(* Proofs about TcpServers and the framing under it, for every number of   *)
(* connections, requests, typed lines and permits, and frames of any size. *)
(***************************************************************************)
EXTENDS TcpServers, SequenceTheorems, FiniteSetTheorems, TLAPS

-----------------------------------------------------------------------------
(***************************************************************************)
(* Streams of pieces.  A piece at i belongs to a copy of its frame that    *)
(* starts behind Start(s, i).                                              *)
(***************************************************************************)
Kind  == {"request", "reply", "line"}
Tag   == [kind : Kind, of : Nat \ {0}, size : Nat \ {0, 1}]
Piece == [frame : Tag, part : Nat \ {0}]

Start(s, i) == i - s[i].part
Size(s, i)  == s[i].frame.size
Of(s, i)    == s[i].frame.of

(* Every piece is at its place in a copy of its frame, of which only what  *)
(* lies beyond the end of the stream is missing.                           *)
Cut(s) ==
  \A i \in 1..Len(s) :
    /\ 0 <= Start(s, i) /\ s[i].part <= Size(s, i)
    /\ \A j \in 1..Len(s) :
         Start(s, i) < j /\ j <= Start(s, i) + Size(s, i) =>
           s[j].frame = s[i].frame /\ Start(s, j) = Start(s, i)

(* Nothing is missing.                                                     *)
Complete(s) == \A i \in 1..Len(s) : Start(s, i) + Size(s, i) <= Len(s)

(* The frames come in the order of their numbers, each once.               *)
Rising(s) ==
  \A i, j \in 1..Len(s) :
    i < j => \/ Of(s, i) < Of(s, j)
             \/ s[i].frame = s[j].frame /\ Start(s, i) = Start(s, j)

LEMMA PieceFields ==
  ASSUME NEW s \in Seq(Piece), NEW i \in 1..Len(s)
  PROVE  /\ s[i] \in Piece /\ s[i].frame \in Tag
         /\ s[i].part \in Nat /\ s[i].part >= 1
         /\ Start(s, i) \in Int /\ s[i].part = i - Start(s, i) /\ Start(s, i) < i
         /\ Size(s, i) \in Nat /\ Size(s, i) >= 2
         /\ Of(s, i) \in Nat /\ Of(s, i) >= 1
<1>1. s[i] \in Piece
  BY ElementOfSeq
<1>2. s[i].frame \in Tag /\ s[i].part \in Nat \ {0}
  BY <1>1 DEF Piece
<1>3. Size(s, i) \in Nat \ {0, 1} /\ Of(s, i) \in Nat \ {0}
  BY <1>2 DEF Tag, Size, Of
<1>4. i \in Int
  OBVIOUS
<1>5. Start(s, i) \in Int /\ s[i].part = i - Start(s, i) /\ Start(s, i) < i
  BY <1>2, <1>4 DEF Start
<1>6. QED BY <1>1, <1>2, <1>3, <1>5

LEMMA PiecesOfFrame ==
  ASSUME NEW frame \in Tag
  PROVE  /\ Pieces(frame) \in Seq(Piece)
         /\ Len(Pieces(frame)) = frame.size /\ frame.size \in Nat /\ frame.size >= 2
         /\ \A i \in 1..frame.size : /\ Pieces(frame)[i].frame = frame
                                     /\ Pieces(frame)[i].part = i
                                     /\ Start(Pieces(frame), i) = 0
<1> DEFINE n == frame.size
           piece(i) == [frame |-> frame, part |-> i]
<1>1. n \in Nat /\ n >= 2 /\ n \in Nat \ {0, 1}
  BY DEF Tag
<1>2. \A i \in 1..n : piece(i) \in Piece
  BY <1>1 DEF Piece
<1>3. Pieces(frame) = [i \in 1..n |-> piece(i)]
  BY DEF Pieces
<1> HIDE DEF n
<1>4. Pieces(frame) \in [1..n -> Piece]
  BY <1>2, <1>3
<1>5. Pieces(frame) \in Seq(Piece) /\ Len(Pieces(frame)) = n
  BY <1>1, <1>4
<1>6. \A i \in 1..n : Pieces(frame)[i] = piece(i)
  BY <1>3
<1>7. ASSUME NEW i \in 1..n
      PROVE  /\ Pieces(frame)[i].frame = frame /\ Pieces(frame)[i].part = i
             /\ Start(Pieces(frame), i) = 0
  <2>1. Pieces(frame)[i] = [frame |-> frame, part |-> i]
    BY <1>6
  <2>2. Pieces(frame)[i].frame = frame /\ Pieces(frame)[i].part = i
    BY <2>1
  <2>3. i \in Int
    BY <1>1
  <2>4. QED BY <2>2, <2>3 DEF Start
<1>8. QED BY <1>1, <1>5, <1>7 DEF n


(* The beginning of a stream.                                              *)
LEMMA Beginning ==
  ASSUME NEW s \in Seq(Piece), NEW n \in 0..Len(s)
  PROVE  /\ SubSeq(s, 1, n) \in Seq(Piece) /\ Len(SubSeq(s, 1, n)) = n
         /\ \A i \in 1..n : /\ SubSeq(s, 1, n)[i] = s[i]
                            /\ Start(SubSeq(s, 1, n), i) = Start(s, i)
                            /\ Size(SubSeq(s, 1, n), i) = Size(s, i)
                            /\ Of(SubSeq(s, 1, n), i) = Of(s, i)
<1>1. Len(s) \in Nat /\ n \in Nat /\ n <= Len(s)
  OBVIOUS
<1>2. \A i \in 1..n : s[i] \in Piece
  BY <1>1, ElementOfSeq
<1>3. /\ SubSeq(s, 1, n) \in Seq(Piece)
      /\ Len(SubSeq(s, 1, n)) = IF 1 <= n THEN n - 1 + 1 ELSE 0
      /\ \A i \in 1 .. n - 1 + 1 : SubSeq(s, 1, n)[i] = s[1 + i - 1]
  BY <1>1, <1>2, SubSeqProperties
<1>4. Len(SubSeq(s, 1, n)) = n
  BY <1>1, <1>3
<1>5. \A i \in 1..n : SubSeq(s, 1, n)[i] = s[i]
  <2>1. TAKE i \in 1..n
  <2>2. i \in 1 .. n - 1 + 1 /\ 1 + i - 1 = i
    BY <1>1
  <2>3. QED BY <1>3, <2>2
<1>6. QED BY <1>3, <1>4, <1>5 DEF Start, Size, Of

LEMMA BeginningKeepsOrder ==
  ASSUME NEW s \in Seq(Piece), NEW n \in 0..Len(s), Cut(s), Rising(s)
  PROVE  Cut(SubSeq(s, 1, n)) /\ Rising(SubSeq(s, 1, n))
<1> DEFINE t == SubSeq(s, 1, n)
<1>1. Len(s) \in Nat /\ n \in Nat /\ n <= Len(s)
  OBVIOUS
<1>2. /\ t \in Seq(Piece) /\ Len(t) = n
      /\ \A i \in 1..n : /\ t[i] = s[i] /\ Start(t, i) = Start(s, i)
                         /\ Size(t, i) = Size(s, i) /\ Of(t, i) = Of(s, i)
  BY Beginning
<1>3. \A i \in 1..n : i \in 1..Len(s)
  BY <1>1
<1> HIDE DEF t
<1>4. Cut(t)
  BY <1>2, <1>3 DEF Cut
<1>5. Rising(t)
  BY <1>2, <1>3 DEF Rising
<1>6. QED BY <1>4, <1>5 DEF t

(* What follows the first z pieces.                                        *)
LEMMA Remaining ==
  ASSUME NEW s \in Seq(Piece), NEW z \in 0..Len(s)
  PROVE  /\ SubSeq(s, z + 1, Len(s)) \in Seq(Piece)
         /\ Len(SubSeq(s, z + 1, Len(s))) = Len(s) - z
         /\ \A i \in 1 .. Len(s) - z :
              /\ z + i \in 1..Len(s)
              /\ SubSeq(s, z + 1, Len(s))[i] = s[z + i]
              /\ Start(SubSeq(s, z + 1, Len(s)), i) = Start(s, z + i) - z
              /\ Size(SubSeq(s, z + 1, Len(s)), i) = Size(s, z + i)
              /\ Of(SubSeq(s, z + 1, Len(s)), i) = Of(s, z + i)
<1> DEFINE n == Len(s)
           t == SubSeq(s, z + 1, n)
<1>1. n \in Nat /\ z \in Nat /\ z <= n /\ z + 1 \in Int /\ n \in Int
  OBVIOUS
<1>2. \A i \in z + 1 .. n : s[i] \in Piece
  BY <1>1, ElementOfSeq
<1>3. /\ t \in Seq(Piece)
      /\ Len(t) = IF z + 1 <= n THEN n - (z + 1) + 1 ELSE 0
      /\ \A i \in 1 .. n - (z + 1) + 1 : t[i] = s[(z + 1) + i - 1]
  BY <1>1, <1>2, SubSeqProperties
<1> HIDE DEF n, t
<1>4. Len(t) = n - z
  BY <1>1, <1>3
<1>5. ASSUME NEW i \in 1 .. n - z
      PROVE  /\ z + i \in 1..n /\ t[i] = s[z + i]
             /\ Start(t, i) = Start(s, z + i) - z
             /\ Size(t, i) = Size(s, z + i) /\ Of(t, i) = Of(s, z + i)
  <2>1. i \in 1 .. n - (z + 1) + 1 /\ (z + 1) + i - 1 = z + i /\ z + i \in 1..n /\ i \in Int
    BY <1>1
  <2>2. t[i] = s[z + i]
    BY <1>3, <2>1
  <2>3. s[z + i].part \in Nat
    BY <2>1, PieceFields DEF n
  <2>4. t[i].part = s[z + i].part
    BY <2>2
  <2>5. Start(t, i) = Start(s, z + i) - z
    BY SMTT(40), <1>1, <2>1, <2>3, <2>4 DEF Start
  <2>6. QED BY <2>1, <2>2, <2>5 DEF Size, Of
<1>6. QED BY <1>3, <1>4, <1>5 DEF n, t

(* The pieces from the front of a stream on are those of its first frame.  *)
LEMMA FrontFrame ==
  ASSUME NEW s \in Seq(Piece), Cut(s), s # <<>>
  PROVE  /\ 1 \in 1..Len(s) /\ Start(s, 1) = 0
         /\ Size(s, 1) \in Nat /\ Size(s, 1) >= 2 /\ s[1].frame \in Tag
         /\ \A j \in 1..Len(s) :
              j <= Size(s, 1) => s[j].frame = s[1].frame /\ Start(s, j) = 0
<1>1. Len(s) \in Nat /\ 1 \in 1..Len(s)
  BY EmptySeq
<1>2. /\ Start(s, 1) \in Int /\ Start(s, 1) < 1 /\ 0 <= Start(s, 1)
      /\ Size(s, 1) \in Nat /\ Size(s, 1) >= 2 /\ s[1].frame \in Tag
  BY <1>1, PieceFields DEF Cut
<1>3. Start(s, 1) = 0
  BY <1>2
<1>4. ASSUME NEW j \in 1..Len(s), j <= Size(s, 1)
      PROVE  s[j].frame = s[1].frame /\ Start(s, j) = 0
  <2>1. Start(s, 1) < j /\ j <= Start(s, 1) + Size(s, 1)
    BY <1>1, <1>2, <1>3, <1>4
  <2>2. QED BY <1>1, <1>3, <2>1 DEF Cut
<1>5. QED BY <1>1, <1>2, <1>3, <1>4

(* Behind the first frame every piece is of a later copy.                  *)
LEMMA BehindTheFront ==
  ASSUME NEW s \in Seq(Piece), Cut(s), s # <<>>, NEW j \in 1..Len(s), Size(s, 1) < j
  PROVE  Size(s, 1) <= Start(s, j)
<1> DEFINE z == Size(s, 1)
           b == Start(s, j)
<1>1. /\ 1 \in 1..Len(s) /\ Start(s, 1) = 0 /\ z \in Nat /\ z >= 2
      /\ \A i \in 1..Len(s) : i <= z => s[i].frame = s[1].frame /\ Start(s, i) = 0
  BY FrontFrame
<1>2. /\ b \in Int /\ b < j /\ 0 <= b /\ s[j].part = j - b /\ s[j].part <= Size(s, j)
      /\ Len(s) \in Nat /\ j \in Int /\ Size(s, j) \in Nat
  BY PieceFields DEF Cut
<1> HIDE DEF z, b
<1>3. SUFFICES ASSUME b < z PROVE FALSE
  BY <1>1, <1>2 DEF z, b
<1>4. b + 1 \in 1..Len(s) /\ b + 1 <= z /\ b < b + 1 /\ b + 1 <= b + Size(s, j)
  BY <1>1, <1>2, <1>3
<1>5. s[b + 1].frame = s[j].frame /\ Start(s, b + 1) = b
  BY <1>4 DEF Cut, b
<1>6. s[b + 1].frame = s[1].frame /\ Start(s, b + 1) = 0
  BY <1>1, <1>4
<1>7. b = 0 /\ Size(s, j) = z
  BY <1>5, <1>6 DEF Size, z
<1>8. j <= z
  BY <1>1, <1>2, <1>7
<1>9. QED BY <1>1, <1>2, <1>8 DEF z


LEMMA RestKeepsOrder ==
  ASSUME NEW s \in Seq(Piece), Cut(s), s # <<>>, Size(s, 1) <= Len(s)
  PROVE  /\ Cut(SubSeq(s, Size(s, 1) + 1, Len(s)))
         /\ Complete(s) => Complete(SubSeq(s, Size(s, 1) + 1, Len(s)))
         /\ Rising(s) => Rising(SubSeq(s, Size(s, 1) + 1, Len(s)))
<1> DEFINE z == Size(s, 1)
           n == Len(s)
           t == SubSeq(s, z + 1, n)
<1>1. /\ z \in Nat /\ n \in Nat /\ z <= n /\ z \in 0..n
  <2>1. Size(s, 1) \in Nat /\ Len(s) \in Nat
    BY FrontFrame
  <2>2. QED BY <2>1
<1>2. /\ t \in Seq(Piece) /\ Len(t) = n - z
      /\ \A i \in 1 .. n - z : /\ z + i \in 1..n /\ t[i] = s[z + i]
                               /\ Start(t, i) = Start(s, z + i) - z
                               /\ Size(t, i) = Size(s, z + i) /\ Of(t, i) = Of(s, z + i)
  BY <1>1, Remaining
<1>3. \A j \in 1..n : z < j => z <= Start(s, j)
  BY BehindTheFront
<1>4. \A j \in 1..n : /\ Start(s, j) \in Int /\ s[j].part = j - Start(s, j)
                      /\ s[j].part <= Size(s, j) /\ Size(s, j) \in Nat
  BY PieceFields DEF Cut
<1> HIDE DEF z, n, t
<1>5. ASSUME NEW i \in 1 .. n - z
      PROVE  /\ 0 <= Start(t, i) /\ t[i].part <= Size(t, i)
             /\ \A j \in 1 .. n - z :
                  Start(t, i) < j /\ j <= Start(t, i) + Size(t, i) =>
                    t[j].frame = t[i].frame /\ Start(t, j) = Start(t, i)
  <2>1. z + i \in 1..n /\ z < z + i /\ t[i] = s[z + i] /\ Start(t, i) = Start(s, z + i) - z
        /\ Size(t, i) = Size(s, z + i)
    BY <1>1, <1>2
  <2>2. 0 <= Start(t, i) /\ t[i].part <= Size(t, i)
    BY SMTT(40), <1>1, <1>3, <1>4, <2>1
  <2>3. ASSUME NEW j \in 1 .. n - z, Start(t, i) < j, j <= Start(t, i) + Size(t, i)
        PROVE  t[j].frame = t[i].frame /\ Start(t, j) = Start(t, i)
    <3>1. z + j \in 1..n /\ t[j] = s[z + j] /\ Start(t, j) = Start(s, z + j) - z
      BY <1>1, <1>2
    <3>2. Start(s, z + i) < z + j /\ z + j <= Start(s, z + i) + Size(s, z + i)
      BY SMTT(40), <1>1, <1>4, <2>1, <2>3
    <3>3. s[z + j].frame = s[z + i].frame /\ Start(s, z + j) = Start(s, z + i)
      BY <2>1, <3>1, <3>2 DEF Cut, n
    <3>4. QED BY <2>1, <3>1, <3>3
  <2>4. QED BY <2>2, <2>3
<1>6. Cut(t)
  BY <1>2, <1>5 DEF Cut
<1>7. Complete(s) => Complete(t)
  <2>1. SUFFICES ASSUME Complete(s), NEW i \in 1 .. n - z
                 PROVE  Start(t, i) + Size(t, i) <= n - z
    BY <1>2 DEF Complete
  <2>2. z + i \in 1..n /\ Start(t, i) = Start(s, z + i) - z /\ Size(t, i) = Size(s, z + i)
    BY <1>2
  <2>3. Start(s, z + i) + Size(s, z + i) <= n
    BY <2>1, <2>2 DEF Complete, n
  <2>4. Start(s, z + i) \in Int /\ Size(s, z + i) \in Nat
    BY <1>4, <2>2
  <2>5. Start(t, i) + Size(t, i) = Start(s, z + i) + Size(s, z + i) - z
    BY <1>1, <2>2, <2>4
  <2>6. QED BY <1>1, <2>3, <2>4, <2>5
<1>8. Rising(s) => Rising(t)
  <2>1. SUFFICES ASSUME Rising(s), NEW i \in 1 .. n - z, NEW j \in 1 .. n - z, i < j
                 PROVE  \/ Of(t, i) < Of(t, j)
                        \/ t[i].frame = t[j].frame /\ Start(t, i) = Start(t, j)
    BY <1>2 DEF Rising
  <2>2. /\ z + i \in 1..n /\ z + j \in 1..n /\ z + i < z + j
        /\ t[i] = s[z + i] /\ t[j] = s[z + j]
        /\ Start(t, i) = Start(s, z + i) - z /\ Start(t, j) = Start(s, z + j) - z
        /\ Of(t, i) = Of(s, z + i) /\ Of(t, j) = Of(s, z + j)
    BY <1>1, <1>2, <2>1
  <2>3. \/ Of(s, z + i) < Of(s, z + j)
        \/ s[z + i].frame = s[z + j].frame /\ Start(s, z + i) = Start(s, z + j)
    BY <2>1, <2>2 DEF Rising, n
  <2>4. QED BY <2>2, <2>3
<1>9. QED BY <1>6, <1>7, <1>8 DEF n, z, t

(* What is in a rising stream behind its first frame has a higher number.  *)
LEMMA FrontIsLowest ==
  ASSUME NEW s \in Seq(Piece), Cut(s), Rising(s), s # <<>>,
         NEW j \in 1..Len(s), Size(s, 1) < j
  PROVE  Of(s, 1) < Of(s, j)
<1>1. Size(s, 1) <= Start(s, j)
  BY BehindTheFront
<1>2. 1 \in 1..Len(s) /\ Start(s, 1) = 0 /\ Size(s, 1) \in Nat /\ Size(s, 1) >= 2
  BY FrontFrame
<1>3. 1 < j /\ Start(s, j) # 0
  BY <1>1, <1>2, PieceFields
<1>4. QED BY <1>2, <1>3 DEF Rising

(* The first frame, taken from a stream.                                   *)
LEMMA FrontIsAFrame ==
  ASSUME NEW s \in Seq(Piece), Cut(s), s # <<>>, Size(s, 1) <= Len(s)
  PROVE  /\ SubSeq(s, 1, Size(s, 1)) = Pieces(s[1].frame) /\ s[1].frame \in Tag
         /\ SubSeq(s, 1, Size(s, 1))[1] = s[1]
<1> DEFINE z == Size(s, 1)
           t == SubSeq(s, 1, z)
           p == Pieces(s[1].frame)
<1>1. /\ z \in Nat /\ z >= 2 /\ s[1].frame \in Tag /\ Len(s) \in Nat
      /\ \A j \in 1..Len(s) : j <= z => s[j].frame = s[1].frame /\ Start(s, j) = 0
  BY FrontFrame
<1>2. z \in 0..Len(s) /\ \A i \in 1..z : i \in 1..Len(s) /\ i <= z
  BY <1>1
<1>3. /\ t \in Seq(Piece) /\ Len(t) = z
      /\ \A i \in 1..z : t[i] = s[i]
  BY <1>2, Beginning
<1>4. s[1].frame.size = z
  BY DEF Size
<1>5. /\ p \in Seq(Piece) /\ Len(p) = z
      /\ \A i \in 1..z : p[i].frame = s[1].frame /\ p[i].part = i
  BY <1>1, <1>4, PiecesOfFrame
<1> HIDE DEF z, t, p
<1>6. ASSUME NEW i \in 1..z PROVE t[i] = p[i]
  <2>1. t[i].frame = s[1].frame /\ Start(s, i) = 0 /\ t[i] = s[i] /\ i \in 1..Len(s)
    BY <1>1, <1>2, <1>3
  <2>2. t[i].part = i
    <3>1. s[i].part = i - Start(s, i) /\ i \in Int
      BY <2>1, PieceFields
    <3>2. QED BY <2>1, <3>1
  <2>3. t[i] \in Piece /\ p[i] \in Piece
    BY <1>3, <1>5, ElementOfSeq
  <2>4. t[i].frame = p[i].frame /\ t[i].part = p[i].part
    BY <1>5, <2>1, <2>2
  <2>5. QED BY SMTT(40), <2>3, <2>4 DEF Piece
<1>7. t = p
  BY <1>3, <1>5, <1>6, SeqEqual
<1>8. t[1] = s[1]
  BY <1>1, <1>3
<1>9. QED BY <1>1, <1>7, <1>8 DEF z, t, p

(* A frame behind a stream that is complete.                               *)
LEMMA FrameIsAppended ==
  ASSUME NEW s \in Seq(Piece), NEW frame \in Tag, Cut(s), Complete(s)
  PROVE  /\ s \o Pieces(frame) \in Seq(Piece)
         /\ Len(s \o Pieces(frame)) = Len(s) + frame.size
         /\ Cut(s \o Pieces(frame)) /\ Complete(s \o Pieces(frame))
         /\ Rising(s) /\ (\A i \in 1..Len(s) : Of(s, i) < frame.of)
              => Rising(s \o Pieces(frame))
         /\ \A i \in 1 .. Len(s) + frame.size :
              /\ i \in 1..Len(s) => (s \o Pieces(frame))[i] = s[i]
              /\ i \notin 1..Len(s) => /\ (s \o Pieces(frame))[i].frame = frame
                                       /\ (s \o Pieces(frame))[i].part = i - Len(s)
<1> DEFINE n == Len(s)
           z == frame.size
           p == Pieces(frame)
           t == s \o p
<1>1. /\ p \in Seq(Piece) /\ Len(p) = z /\ z \in Nat /\ z >= 2 /\ n \in Nat
      /\ \A i \in 1..z : p[i].frame = frame /\ p[i].part = i
  BY PiecesOfFrame
<1>2. /\ t \in Seq(Piece) /\ Len(t) = n + z
      /\ \A i \in 1 .. n + z : t[i] = IF i <= n THEN s[i] ELSE p[i - n]
  BY <1>1, ConcatProperties
<1>3. \A i \in 1..n : /\ Start(s, i) \in Int /\ s[i].part = i - Start(s, i)
                      /\ Start(s, i) < i /\ Size(s, i) \in Nat
                      /\ 0 <= Start(s, i) /\ s[i].part <= Size(s, i)
                      /\ Start(s, i) + Size(s, i) <= n
  BY PieceFields DEF Cut, Complete
<1> HIDE DEF n, z, p, t
<1>4. ASSUME NEW i \in 1 .. n + z, i <= n
      PROVE  /\ i \in 1..n /\ t[i] = s[i] /\ Start(t, i) = Start(s, i)
             /\ Size(t, i) = Size(s, i) /\ Of(t, i) = Of(s, i)
  BY <1>1, <1>2, <1>4 DEF Start, Size, Of
<1>5. ASSUME NEW i \in 1 .. n + z, ~(i <= n)
      PROVE  /\ t[i].frame = frame /\ t[i].part = i - n /\ Start(t, i) = n
             /\ Size(t, i) = z /\ Of(t, i) = frame.of
  <2>1. i \in Int /\ i - n \in 1..z /\ t[i] = p[i - n]
    BY <1>1, <1>2, <1>5
  <2>2. t[i].frame = frame /\ t[i].part = i - n
    BY <1>1, <2>1
  <2>3. Start(t, i) = n
    BY <1>1, <2>1, <2>2 DEF Start
  <2>4. QED BY <2>2, <2>3 DEF Size, Of, z
<1>6. Cut(t)
  <2>1. SUFFICES ASSUME NEW i \in 1 .. n + z
                 PROVE  /\ 0 <= Start(t, i) /\ t[i].part <= Size(t, i)
                        /\ \A j \in 1 .. n + z :
                             Start(t, i) < j /\ j <= Start(t, i) + Size(t, i) =>
                               t[j].frame = t[i].frame /\ Start(t, j) = Start(t, i)
    BY <1>2 DEF Cut
  <2>2. CASE i <= n
    <3>1. i \in 1..n /\ t[i] = s[i] /\ Start(t, i) = Start(s, i) /\ Size(t, i) = Size(s, i)
      BY <1>4, <2>2
    <3>2. 0 <= Start(t, i) /\ t[i].part <= Size(t, i)
      BY <1>3, <3>1
    <3>3. ASSUME NEW j \in 1 .. n + z, Start(t, i) < j, j <= Start(t, i) + Size(t, i)
          PROVE  t[j].frame = t[i].frame /\ Start(t, j) = Start(t, i)
      <4>1. j <= n
        BY SMTT(40), <1>1, <1>3, <3>1, <3>3
      <4>2. j \in 1..n /\ t[j] = s[j] /\ Start(t, j) = Start(s, j)
        BY <1>4, <4>1
      <4>3. s[j].frame = s[i].frame /\ Start(s, j) = Start(s, i)
        BY <3>1, <3>3, <4>2 DEF Cut, n
      <4>4. QED BY <3>1, <4>2, <4>3
    <3>4. QED BY <3>2, <3>3
  <2>3. CASE ~(i <= n)
    <3>1. t[i].frame = frame /\ t[i].part = i - n /\ Start(t, i) = n /\ Size(t, i) = z
      BY <1>5, <2>3
    <3>2. 0 <= Start(t, i) /\ t[i].part <= Size(t, i)
      BY <1>1, <3>1
    <3>3. ASSUME NEW j \in 1 .. n + z, Start(t, i) < j
          PROVE  t[j].frame = t[i].frame /\ Start(t, j) = Start(t, i)
      <4>1. ~(j <= n)
        BY <1>1, <3>1, <3>3
      <4>2. QED BY <1>5, <3>1, <4>1
    <3>4. QED BY <3>2, <3>3
  <2>4. QED BY <2>2, <2>3
<1>7. Complete(t)
  <2>1. SUFFICES ASSUME NEW i \in 1 .. n + z PROVE Start(t, i) + Size(t, i) <= n + z
    BY <1>2 DEF Complete
  <2>2. CASE i <= n
    BY <1>1, <1>3, <1>4, <2>2
  <2>3. CASE ~(i <= n)
    BY <1>1, <1>5, <2>3
  <2>4. QED BY <2>2, <2>3
<1>8. ASSUME Rising(s), \A i \in 1..n : Of(s, i) < frame.of PROVE Rising(t)
  <2>1. SUFFICES ASSUME NEW i \in 1 .. n + z, NEW j \in 1 .. n + z, i < j
                 PROVE  \/ Of(t, i) < Of(t, j)
                        \/ t[i].frame = t[j].frame /\ Start(t, i) = Start(t, j)
    BY <1>2 DEF Rising
  <2>2. CASE j <= n
    <3>1. i <= n
      BY <1>1, <2>1, <2>2
    <3>2. /\ i \in 1..n /\ t[i] = s[i] /\ Start(t, i) = Start(s, i) /\ Of(t, i) = Of(s, i)
          /\ j \in 1..n /\ t[j] = s[j] /\ Start(t, j) = Start(s, j) /\ Of(t, j) = Of(s, j)
      BY <1>4, <2>2, <3>1
    <3>3. QED BY <1>8, <2>1, <3>2 DEF Rising, n
  <2>3. CASE ~(j <= n) /\ i <= n
    BY <1>4, <1>5, <1>8, <2>3
  <2>4. CASE ~(j <= n) /\ ~(i <= n)
    BY <1>5, <2>4
  <2>5. QED BY <2>2, <2>3, <2>4
<1>9. \A i \in 1 .. n + z : /\ i \in 1..n => t[i] = s[i]
                            /\ i \notin 1..n => t[i].frame = frame /\ t[i].part = i - n
  <2>1. TAKE i \in 1 .. n + z
  <2>2. i \in 1..n <=> i <= n
    BY <1>1
  <2>3. QED BY <1>4, <1>5, <2>2
<1>10. QED BY <1>2, <1>6, <1>7, <1>8, <1>9 DEF n, z, p, t


LEMMA PiecesJoin ==
  ASSUME NEW a \in Seq(Piece), NEW b \in Seq(Piece), NEW d \in Seq(Piece)
  PROVE  (a \o b) \o d = a \o (b \o d)
BY ConcatAssociative

(* Reading moves pieces from a stream to its reader.                       *)
LEMMA PiecesMove ==
  ASSUME NEW a \in Seq(Piece), NEW b \in Seq(Piece), NEW n \in 0..Len(b)
  PROVE  /\ a \o SubSeq(b, 1, n) \in Seq(Piece) /\ SubSeq(b, n + 1, Len(b)) \in Seq(Piece)
         /\ (a \o SubSeq(b, 1, n)) \o SubSeq(b, n + 1, Len(b)) = a \o b
<1>1. Len(b) \in Nat /\ n \in Nat /\ n <= Len(b)
  OBVIOUS
<1>2. SubSeq(b, 1, n) \in Seq(Piece) /\ SubSeq(b, n + 1, Len(b)) \in Seq(Piece)
  BY Beginning, Remaining
<1>3. SubSeq(b, 1, n) \o SubSeq(b, n + 1, Len(b)) = b
  <2>1. /\ 1 \in 1 .. Len(b) + 1 /\ n \in 1 - 1 .. Len(b) /\ Len(b) \in n .. Len(b)
    BY <1>1
  <2>2. SubSeq(b, 1, n) \o SubSeq(b, n + 1, Len(b)) = SubSeq(b, 1, Len(b))
    BY <2>1, ConcatAdjacentSubSeq
  <2>3. QED BY <2>2, SubSeqFull
<1>4. (a \o SubSeq(b, 1, n)) \o SubSeq(b, n + 1, Len(b))
        = a \o (SubSeq(b, 1, n) \o SubSeq(b, n + 1, Len(b)))
  <2> DEFINE p == SubSeq(b, 1, n)
             q == SubSeq(b, n + 1, Len(b))
  <2>1. p \in Seq(Piece) /\ q \in Seq(Piece)
    BY <1>2
  <2> HIDE DEF p, q
  <2>2. (a \o p) \o q = a \o (p \o q)
    BY SMTT(40), <2>1, ConcatAssociative
  <2>3. QED BY <2>2 DEF p, q
<1>5. a \o SubSeq(b, 1, n) \in Seq(Piece)
  BY <1>2, ConcatProperties
<1>6. QED BY <1>2, <1>3, <1>4, <1>5

(* What the reader has is the beginning of the whole.                      *)
LEMMA ReaderIsInFront ==
  ASSUME NEW a \in Seq(Piece), NEW b \in Seq(Piece), NEW z \in 1..Len(a)
  PROVE  /\ a # <<>> /\ a \o b # <<>> /\ (a \o b)[1] = a[1] /\ z \in 1..Len(a \o b)
         /\ SubSeq(a, 1, z) = SubSeq(a \o b, 1, z)
         /\ SubSeq(a, z + 1, Len(a)) \o b = SubSeq(a \o b, z + 1, Len(a \o b))
<1> DEFINE s == a \o b
           m == Len(a)
           n == Len(b)
           l == SubSeq(a, z + 1, m) \o b
           r == SubSeq(s, z + 1, m + n)
<1>1. m \in Nat /\ n \in Nat /\ z \in Nat /\ 1 <= z /\ z <= m /\ z \in 0..m
  OBVIOUS
<1>2. /\ s \in Seq(Piece) /\ Len(s) = m + n
      /\ \A i \in 1 .. m + n : s[i] = IF i <= m THEN a[i] ELSE b[i - m]
  BY ConcatProperties
<1>3. /\ SubSeq(a, z + 1, m) \in Seq(Piece) /\ Len(SubSeq(a, z + 1, m)) = m - z
      /\ \A i \in 1 .. m - z : SubSeq(a, z + 1, m)[i] = a[z + i]
  BY <1>1, Remaining
<1>4. /\ l \in Seq(Piece) /\ Len(l) = (m - z) + n
      /\ \A i \in 1 .. (m - z) + n :
           l[i] = IF i <= m - z THEN SubSeq(a, z + 1, m)[i] ELSE b[i - (m - z)]
  <2> DEFINE f == SubSeq(a, z + 1, m)
  <2>1. f \in Seq(Piece) /\ Len(f) = m - z
    BY <1>3
  <2> HIDE DEF f
  <2>2. /\ f \o b \in Seq(Piece) /\ Len(f \o b) = Len(f) + n
        /\ \A i \in 1 .. Len(f) + n : (f \o b)[i] = IF i <= Len(f) THEN f[i] ELSE b[i - Len(f)]
    BY <2>1, ConcatProperties
  <2>3. /\ f \o b \in Seq(Piece) /\ Len(f \o b) = (m - z) + n
        /\ \A i \in 1 .. (m - z) + n : (f \o b)[i] = IF i <= m - z THEN f[i] ELSE b[i - (m - z)]
    BY <2>1, <2>2, Zenon
  <2>4. QED BY <2>3 DEF f
<1>5. z \in 0..Len(s)
  BY <1>1, <1>2
<1>6. /\ r \in Seq(Piece) /\ Len(r) = m + n - z
      /\ \A i \in 1 .. m + n - z : r[i] = s[z + i]
  BY <1>2, <1>5, Remaining
<1>7. a # <<>> /\ s # <<>>
  BY <1>1, <1>2, EmptySeq
<1> HIDE DEF s, m, n, l, r
<1>8. ASSUME NEW i \in 1 .. m + n - z PROVE l[i] = r[i]
  <2>1. z + i \in 1 .. m + n /\ (z + i <= m <=> i <= m - z) /\ i - (m - z) = (z + i) - m
        /\ i \in 1 .. (m - z) + n /\ (i <= m - z => i \in 1 .. m - z)
    BY <1>1
  <2>2. r[i] = IF i <= m - z THEN a[z + i] ELSE b[(z + i) - m]
    BY <1>2, <1>6, <2>1
  <2>3. l[i] = IF i <= m - z THEN a[z + i] ELSE b[(z + i) - m]
    BY <1>3, <1>4, <2>1
  <2>4. QED BY <2>2, <2>3
<1>9. l = r
  <2>1. Len(l) = m + n - z
    BY <1>1, <1>4
  <2>2. QED BY <1>4, <1>6, <1>8, <2>1, SeqEqual
<1>10. SubSeq(a, 1, z) = SubSeq(s, 1, z)
  <2>1. 1 \in 1..Len(a) /\ z \in 1..Len(a)
    BY <1>1 DEF m
  <2>2. QED BY <2>1, SubSeqOfConcat1 DEF s
<1>11. s[1] = a[1] /\ z \in 1..Len(s)
  BY <1>1, <1>2
<1>12. QED BY <1>2, <1>7, <1>9, <1>10, <1>11 DEF s, m, n, l, r

(* A stream that breaks off is the beginning of what it was.               *)
LEMMA StreamBreaksOff ==
  ASSUME NEW a \in Seq(Piece), NEW b \in Seq(Piece), NEW n \in 0..Len(b)
  PROVE  /\ Len(a) + n \in 0..Len(a \o b)
         /\ a \o SubSeq(b, 1, n) = SubSeq(a \o b, 1, Len(a) + n)
<1> DEFINE s == a \o b
           m == Len(a)
           k == Len(b)
           l == a \o SubSeq(b, 1, n)
           r == SubSeq(s, 1, m + n)
<1>1. m \in Nat /\ k \in Nat /\ n \in Nat /\ n <= k
  OBVIOUS
<1>2. /\ s \in Seq(Piece) /\ Len(s) = m + k
      /\ \A i \in 1 .. m + k : s[i] = IF i <= m THEN a[i] ELSE b[i - m]
  BY ConcatProperties
<1>3. /\ SubSeq(b, 1, n) \in Seq(Piece) /\ Len(SubSeq(b, 1, n)) = n
      /\ \A i \in 1..n : SubSeq(b, 1, n)[i] = b[i]
  BY Beginning
<1>4. /\ l \in Seq(Piece) /\ Len(l) = m + n
      /\ \A i \in 1 .. m + n : l[i] = IF i <= m THEN a[i] ELSE SubSeq(b, 1, n)[i - m]
  BY <1>3, ConcatProperties
<1>5. m + n \in 0..Len(s)
  BY <1>1, <1>2
<1>6. /\ r \in Seq(Piece) /\ Len(r) = m + n
      /\ \A i \in 1 .. m + n : r[i] = s[i]
  BY <1>2, <1>5, Beginning
<1> HIDE DEF s, m, k, l, r
<1>7. ASSUME NEW i \in 1 .. m + n PROVE l[i] = r[i]
  <2>1. i \in 1 .. m + k /\ (~(i <= m) => i - m \in 1..n)
    BY <1>1
  <2>2. QED BY <1>2, <1>3, <1>4, <1>6, <2>1
<1>8. l = r
  BY <1>4, <1>6, <1>7, SeqEqual
<1>9. QED BY <1>5, <1>8 DEF s, m, k, l, r


-----------------------------------------------------------------------------
(***************************************************************************)
(* One connection: what its client asked, what of it the server took, and  *)
(* the stream of what is left.                                             *)
(***************************************************************************)
Genuine(asked, s) == \A i \in 1..Len(s) : s[i].frame \in asked

InOrder(asked, taking, s) ==
  /\ \A i \in 1..Len(taking) : \E f \in asked : taking[i] = Pieces(f)
  /\ \A i, j \in 1..Len(taking) : i < j => Number(taking[i]) < Number(taking[j])
  /\ \A i \in 1..Len(taking), j \in 1..Len(s) : Number(taking[i]) < Of(s, j)

(* A frame was taken, is under way, or broke off behind everything else.   *)
Found(f, taking, s, state) ==
  \/ \E i \in 1..Len(taking) : taking[i] = Pieces(f)
  \/ \E i \in 1..Len(s) : s[i].frame = f
  \/ /\ state # "open"
     /\ \A i \in 1..Len(s) : Of(s, i) < f.of
     /\ \A i \in 1..Len(taking) : Number(taking[i]) < f.of

Accounted(asked, taking, s, state) ==
  /\ Cut(s) /\ Rising(s) /\ (state = "open" => Complete(s))
  /\ Genuine(asked, s) /\ InOrder(asked, taking, s)
  /\ \A f \in asked : Found(f, taking, s, state)

LEMMA NumberOfPieces ==
  ASSUME NEW f \in Tag
  PROVE  /\ Number(Pieces(f)) = f.of /\ f.of \in Nat /\ f.of >= 1
         /\ Pieces(f)[1].frame = f /\ Pieces(f) # <<>> /\ Pieces(f) \in Seq(Piece)
<1>1. Pieces(f) \in Seq(Piece) /\ Len(Pieces(f)) = f.size /\ f.size \in Nat /\ f.size >= 2
  BY PiecesOfFrame
<1>2. 1 \in 1..f.size
  BY <1>1
<1>3. Pieces(f)[1].frame = f
  BY <1>2, PiecesOfFrame
<1>4. f.of \in Nat \ {0}
  BY DEF Tag
<1>5. QED BY <1>1, <1>3, <1>4, EmptySeq DEF Number

(* The client asks once more, with a higher number.                        *)
LEMMA AskingIsAccounted ==
  ASSUME NEW asked \in SUBSET Tag, NEW taking \in Seq(Seq(Piece)), NEW s \in Seq(Piece),
         NEW state, state = "open", Accounted(asked, taking, s, state),
         NEW f \in Tag, \A g \in asked : g.of < f.of
  PROVE  Accounted(asked \cup {f}, taking, s \o Pieces(f), state)
<1> DEFINE t == s \o Pieces(f)
           n == Len(s)
<1>1. /\ n \in Nat /\ f.size \in Nat /\ f.size >= 2 /\ f.of \in Nat
      /\ Len(taking) \in Nat
  BY PiecesOfFrame, NumberOfPieces
<1>2. \A i \in 1..n : Of(s, i) < f.of
  BY DEF Accounted, Genuine, Of
<1>3. /\ t \in Seq(Piece) /\ Len(t) = n + f.size /\ Cut(t) /\ Complete(t) /\ Rising(t)
      /\ \A i \in 1 .. n + f.size :
           /\ i \in 1..n => t[i] = s[i]
           /\ i \notin 1..n => t[i].frame = f
  BY <1>2, FrameIsAppended DEF Accounted
<1> HIDE DEF t, n
<1>4. \A i \in 1..n : i \in 1 .. n + f.size
  BY <1>1
<1>5. Genuine(asked \cup {f}, t)
  BY <1>3, <1>4 DEF Genuine, Accounted, n
<1>6. InOrder(asked \cup {f}, taking, t)
  <2>1. \A i \in 1..Len(taking) : \E g \in asked : taking[i] = Pieces(g)
    BY DEF Accounted, InOrder
  <2>2. ASSUME NEW i \in 1..Len(taking), NEW j \in 1..Len(t)
        PROVE  Number(taking[i]) < Of(t, j)
    <3>1. CASE j \in 1..n
      <4>1. Number(taking[i]) < Of(s, j)
        BY <3>1 DEF Accounted, InOrder, n
      <4>2. QED BY <1>3, <3>1, <4>1, <2>2 DEF Of
    <3>2. CASE j \notin 1..n
      <4>1. PICK g \in asked : taking[i] = Pieces(g)
        BY <2>1
      <4>2. Number(taking[i]) = g.of /\ g.of < f.of
        BY <4>1, NumberOfPieces
      <4>3. Of(t, j) = f.of
        BY <1>3, <3>2, <2>2 DEF Of
      <4>4. QED BY <4>2, <4>3
    <3>3. QED BY <3>1, <3>2
  <2>3. QED BY <2>1, <2>2 DEF Accounted, InOrder
<1>7. ASSUME NEW g \in asked \cup {f} PROVE Found(g, taking, t, state)
  <2>1. CASE g \in asked
    <3>1. Found(g, taking, s, state)
      BY <2>1 DEF Accounted
    <3>2. CASE \E i \in 1..Len(taking) : taking[i] = Pieces(g)
      BY <3>2 DEF Found
    <3>3. CASE \E i \in 1..Len(s) : s[i].frame = g
      BY <1>3, <1>4, <3>3 DEF Found, n
    <3>4. QED BY <3>1, <3>2, <3>3 DEF Found
  <2>2. CASE g = f
    <3>1. n + 1 \in 1 .. n + f.size /\ n + 1 \notin 1..n
      BY <1>1
    <3>2. QED BY <1>3, <2>2, <3>1 DEF Found
  <2>3. QED BY <2>1, <2>2
<1>8. QED BY <1>3, <1>5, <1>6, <1>7 DEF Accounted, t

(* The server takes the first frame.                                       *)
LEMMA TakingIsAccounted ==
  ASSUME NEW asked \in SUBSET Tag, NEW taking \in Seq(Seq(Piece)), NEW s \in Seq(Piece),
         NEW state, Accounted(asked, taking, s, state), s # <<>>, Size(s, 1) <= Len(s)
  PROVE  /\ Accounted(asked, Append(taking, SubSeq(s, 1, Size(s, 1))),
                      SubSeq(s, Size(s, 1) + 1, Len(s)), state)
         /\ SubSeq(s, 1, Size(s, 1)) \in Seq(Piece)
         /\ Number(SubSeq(s, 1, Size(s, 1))) = Of(s, 1)
         /\ \A i \in 1..Len(taking) : Number(taking[i]) < Of(s, 1)
<1> DEFINE z == Size(s, 1)
           n == Len(s)
           t == SubSeq(s, z + 1, n)
           p == SubSeq(s, 1, z)
           a == Append(taking, p)
           m == Len(taking)
<1>1. /\ Cut(s) /\ Rising(s) /\ z \in Nat /\ n \in Nat /\ z >= 2 /\ z <= n /\ z \in 0..n
      /\ m \in Nat /\ 1 \in 1..n
  <2>1. Size(s, 1) \in Nat /\ Size(s, 1) >= 2 /\ Len(s) \in Nat /\ 1 \in 1..Len(s)
    BY FrontFrame DEF Accounted
  <2>2. QED BY <2>1 DEF Accounted
<1>2. /\ Cut(t) /\ (Complete(s) => Complete(t)) /\ Rising(t)
  BY <1>1, RestKeepsOrder
<1>3. /\ t \in Seq(Piece) /\ Len(t) = n - z
      /\ \A i \in 1 .. n - z : z + i \in 1..n /\ t[i] = s[z + i] /\ Of(t, i) = Of(s, z + i)
  BY <1>1, Remaining
<1>4. p = Pieces(s[1].frame) /\ s[1].frame \in Tag
  BY <1>1, FrontIsAFrame
<1>5. /\ Number(p) = Of(s, 1) /\ p \in Seq(Piece) /\ Of(s, 1) \in Nat
  BY <1>4, NumberOfPieces DEF Of
<1>6. /\ a \in Seq(Seq(Piece)) /\ Len(a) = m + 1
      /\ \A i \in 1..m : a[i] = taking[i]
      /\ a[m + 1] = p
  BY <1>5, AppendProperties
<1>7. \A j \in 1..n : z < j => Of(s, 1) < Of(s, j)
  BY <1>1, FrontIsLowest
<1>8. \A j \in 1..n : j <= z => s[j].frame = s[1].frame
  BY <1>1, FrontFrame
<1> HIDE DEF z, n, t, p, a, m
<1>9. \A i \in 1..m : Number(taking[i]) < Of(s, 1)
  BY <1>1 DEF Accounted, InOrder, n, m
<1>10. Genuine(asked, t)
  <2>1. SUFFICES ASSUME NEW i \in 1 .. n - z PROVE t[i].frame \in asked
    BY <1>3 DEF Genuine
  <2>2. z + i \in 1..n /\ t[i] = s[z + i]
    BY <1>3
  <2>3. QED BY <2>2 DEF Accounted, Genuine, n
<1>11. \A i \in 1 .. m + 1 : i \in 1..m \/ i = m + 1
  BY <1>1
<1>12. InOrder(asked, a, t)
  <2>1. ASSUME NEW i \in 1 .. m + 1 PROVE \E f \in asked : a[i] = Pieces(f)
    <3>1. CASE i \in 1..m
      BY <1>6, <3>1 DEF Accounted, InOrder, m
    <3>2. CASE i = m + 1
      <4>1. s[1].frame \in asked
        BY <1>1 DEF Accounted, Genuine, n
      <4>2. QED BY <1>4, <1>6, <3>2, <4>1
    <3>3. QED BY <1>11, <3>1, <3>2
  <2>2. ASSUME NEW i \in 1 .. m + 1, NEW j \in 1 .. m + 1, i < j
        PROVE  Number(a[i]) < Number(a[j])
    <3>1. i \in 1..m
      BY <1>1, <2>2
    <3>2. CASE j \in 1..m
      BY <1>6, <2>2, <3>1, <3>2 DEF Accounted, InOrder, m
    <3>3. CASE j = m + 1
      BY <1>5, <1>6, <1>9, <3>1, <3>3
    <3>4. QED BY <1>11, <3>2, <3>3
  <2>3. ASSUME NEW i \in 1 .. m + 1, NEW j \in 1 .. n - z
        PROVE  Number(a[i]) < Of(t, j)
    <3>1. z + j \in 1..n /\ z < z + j /\ Of(t, j) = Of(s, z + j)
      BY <1>1, <1>3
    <3>2. CASE i \in 1..m
      <4>1. Number(taking[i]) < Of(s, z + j)
        BY <3>1, <3>2 DEF Accounted, InOrder, n, m
      <4>2. QED BY <1>6, <3>1, <3>2, <4>1
    <3>3. CASE i = m + 1
      <4>1. Of(s, 1) < Of(s, z + j)
        BY <1>7, <3>1
      <4>2. QED BY <1>5, <1>6, <3>1, <3>3, <4>1
    <3>4. QED BY <1>11, <3>2, <3>3
  <2>4. QED BY <1>3, <1>6, <2>1, <2>2, <2>3 DEF InOrder
<1>13. ASSUME NEW f \in asked PROVE Found(f, a, t, state)
  <2>1. Found(f, taking, s, state)
    BY DEF Accounted
  <2>2. \A i \in 1..m : i \in 1 .. m + 1
    BY <1>1
  <2>3. m + 1 \in 1 .. m + 1
    BY <1>1
  <2>4. CASE \E i \in 1..m : taking[i] = Pieces(f)
    BY <1>6, <2>2, <2>4 DEF Found
  <2>5. CASE \E i \in 1..n : s[i].frame = f
    <3>1. PICK i \in 1..n : s[i].frame = f
      BY <2>5
    <3>2. CASE i <= z
      <4>1. f = s[1].frame
        BY <1>8, <3>1, <3>2
      <4>2. QED BY <1>4, <1>6, <2>3, <4>1 DEF Found
    <3>3. CASE ~(i <= z)
      <4>1. i - z \in 1 .. n - z /\ z + (i - z) = i
        BY <1>1, <3>3
      <4>2. t[i - z].frame = f
        BY <1>3, <3>1, <4>1
      <4>3. QED BY <1>3, <4>1, <4>2 DEF Found
    <3>4. QED BY <3>2, <3>3
  <2>6. CASE /\ state # "open" /\ \A i \in 1..n : Of(s, i) < f.of
             /\ \A i \in 1..m : Number(taking[i]) < f.of
    <3>1. \A i \in 1 .. n - z : Of(t, i) < f.of
      BY <1>3, <2>6
    <3>2. \A i \in 1 .. m + 1 : Number(a[i]) < f.of
      BY <1>1, <1>5, <1>6, <1>11, <2>6
    <3>3. QED BY <1>3, <1>6, <2>6, <3>1, <3>2 DEF Found
  <2>7. QED BY <2>1, <2>4, <2>5, <2>6 DEF Found, n, m
<1>14. QED BY <1>2, <1>5, <1>9, <1>10, <1>12, <1>13 DEF Accounted, z, n, t, p, a, m

(* The client closes, and the end of the stream is lost.                   *)
LEMMA BreakingOffIsAccounted ==
  ASSUME NEW asked \in SUBSET Tag, NEW taking \in Seq(Seq(Piece)), NEW s \in Seq(Piece),
         NEW state, state = "open", Accounted(asked, taking, s, state), NEW n \in 0..Len(s)
  PROVE  Accounted(asked, taking, SubSeq(s, 1, n), "closed")
<1> DEFINE t == SubSeq(s, 1, n)
<1>1. /\ Cut(t) /\ Rising(t)
  BY BeginningKeepsOrder DEF Accounted
<1>2. /\ t \in Seq(Piece) /\ Len(t) = n
      /\ \A i \in 1..n : t[i] = s[i] /\ Of(t, i) = Of(s, i) /\ i \in 1..Len(s)
  BY Beginning
<1> HIDE DEF t
<1>3. Genuine(asked, t)
  BY <1>2 DEF Accounted, Genuine
<1>4. InOrder(asked, taking, t)
  BY <1>2 DEF Accounted, InOrder
<1>5. ASSUME NEW f \in asked PROVE Found(f, taking, t, "closed")
  <2>1. Found(f, taking, s, state)
    BY DEF Accounted
  <2>2. CASE \E i \in 1..Len(taking) : taking[i] = Pieces(f)
    BY <2>2 DEF Found
  <2>3. CASE \E i \in 1..Len(s) : s[i].frame = f
    <3>1. PICK i \in 1..Len(s) : s[i].frame = f
      BY <2>3
    <3>2. Of(s, i) = f.of /\ f \in Tag
      BY <3>1 DEF Of
    <3>3. \A j \in 1..Len(taking) : Number(taking[j]) < f.of
      BY <3>1, <3>2 DEF Accounted, InOrder
    <3>4. CASE \E j \in 1..n : s[j].frame = f
      BY <1>2, <3>4 DEF Found
    <3>5. CASE ~\E j \in 1..n : s[j].frame = f
      <4>1. ASSUME NEW j \in 1..n PROVE Of(t, j) < f.of
        <5>1. ~(i \in 1..n) /\ j \in 1..Len(s) /\ Of(t, j) = Of(s, j)
          BY <1>2, <3>1, <3>5
        <5>2. j < i
          BY <5>1
        <5>3. s[j].frame # s[i].frame
          BY <3>1, <3>5
        <5>4. QED BY <3>2, <5>1, <5>2, <5>3 DEF Accounted, Rising
      <4>2. QED BY <1>2, <3>3, <4>1 DEF Found
    <3>6. QED BY <3>4, <3>5
  <2>4. QED BY <2>1, <2>2, <2>3 DEF Found
<1>6. QED BY <1>1, <1>3, <1>4, <1>5 DEF Accounted, t

(* The server closes: nothing is lost but the promise to lose nothing.     *)
LEMMA ClosingIsAccounted ==
  ASSUME NEW asked \in SUBSET Tag, NEW taking \in Seq(Seq(Piece)), NEW s \in Seq(Piece),
         NEW state, state = "open", Accounted(asked, taking, s, state)
  PROVE  Accounted(asked, taking, s, "closed")
BY DEF Accounted, Found


-----------------------------------------------------------------------------
(***************************************************************************)
(* The inductive invariant.                                                *)
(***************************************************************************)
RequestRecord == [conn : Conns, size : Sizes, ascii : BOOLEAN]
Worker == [conn : Conns, request : Nat \ {0}, step : {"waiting", "calling"}]

Types ==
  /\ mode \in Modes /\ lines \in 0..MaxLines /\ permits \in Nat /\ active \in Conns \cup {0}
  /\ client \in [Conns -> {"new", "open", "closed"}]
  /\ handler \in [Conns -> {"none", "started", "reading", "replying", "done"}]
  /\ waiting \in [Conns -> Nat]
  /\ closed \subseteq Conns
  /\ requests \in Seq(RequestRecord) /\ Len(requests) <= MaxRequests
  /\ up \in [Conns -> Seq(Piece)] /\ down \in [Conns -> Seq(Piece)]
  /\ atServer \in [Conns -> Seq(Piece)] /\ atClient \in [Conns -> Seq(Piece)]
  /\ arrived \in [Conns -> Seq(Seq(Piece))]
  /\ workers \subseteq Worker /\ IsFiniteSet(workers)
  /\ registered \in Seq(Conns)
  /\ target \in Conns \cup {0} /\ (target # 0 => mode # "phone" /\ lines # 0)
  /\ typed \in Seq(Conns \cup {0}) /\ Len(typed) = lines

USE DEF terminalVars

RequestFrame(k) == Frame("request", k, requests[k].size)
Asked(c)      == {RequestFrame(k) : k \in SentOn(c)}
Upstream(c)   == atServer[c] \o up[c]
Downstream(c) == atClient[c] \o down[c]
Jobs(c)       == {w.request : w \in {v \in workers : v.conn = c}}

(* Where a connection can be.                                              *)
Places(c) ==
  /\ client[c] = "new" <=> handler[c] = "none"
  /\ client[c] = "new" =>
       /\ up[c] = <<>> /\ down[c] = <<>> /\ atServer[c] = <<>> /\ atClient[c] = <<>>
       /\ SentOn(c) = {}
  /\ waiting[c] # 0 => client[c] = "open"
  /\ c \in closed => handler[c] = "done"
  /\ HasLength(atClient[c]) => Len(atClient[c]) <= Length(atClient[c])
  /\ handler[c] = "replying" => arrived[c] # <<>>

(* What goes up is accounted for; what comes down is whole while somebody  *)
(* is there to read it.                                                    *)
Flow(c) ==
  /\ Accounted(Asked(c), arrived[c], Upstream(c), client[c])
  /\ client[c] = "open" => Cut(Downstream(c)) /\ Complete(Downstream(c))

(* Request k is in one place: on its way up, with the handler or a worker, *)
(* or its answer is on its way down.                                       *)
OnePlace(k, s, d, jobs, at) ==
  /\ \A i \in 1..Len(s) : Of(s, i) = k
  /\ \A i \in 1..Len(d) : Of(d, i) = k /\ Start(d, i) = 0
  /\ jobs \subseteq {k}
  /\ s # <<>> => d = <<>> /\ jobs = {} /\ at # "replying"
  /\ d # <<>> => jobs = {} /\ at # "replying"
  /\ at = "replying" => jobs = {}

(* As long as the client waited for every answer and nobody typed a line.  *)
Undisturbed(c) == client[c] = "open" /\ c \notin late /\ lines = 0

InTurn(c) ==
  Undisturbed(c) =>
    /\ OnePlace(waiting[c], Upstream(c), Downstream(c), Jobs(c), handler[c])
    /\ handler[c] = "replying" => Number(Last(arrived[c])) = waiting[c]

(* A worker has a request that arrived, and has it alone.                  *)
Employed ==
  /\ \A w \in workers :
       \E i \in 1..Len(arrived[w.conn]) : Number(arrived[w.conn][i]) = w.request
  /\ \A v, w \in workers : v.conn = w.conn /\ v.request = w.request => v = w

Registered ==
  /\ registered = <<>> => active = 0
  /\ \A i \in 1..Len(registered) : handler[registered[i]] \notin {"none", "started"}
  /\ LatestIsActive

TcpInvariant ==
  /\ Types /\ Employed /\ Registered /\ PermitsAreHeldByCalls /\ RepliesArriveWhole
  /\ \A c \in Conns : Places(c) /\ Flow(c) /\ InTurn(c)


-----------------------------------------------------------------------------
(***************************************************************************)
(* What the invariant says of one connection.                              *)
(***************************************************************************)
LEMMA ConstantsAreTyped ==
  /\ \A c \in Conns : c \in Nat /\ c # 0
  /\ \A z \in Sizes : z \in Nat \ {0, 1} /\ z \in Nat
  /\ MaxRequests \in Nat /\ MaxLines \in Nat /\ Permits \in Nat
BY FramedTcpAssumption, TcpServersAssumption

LEMMA RequestsAreTyped ==
  ASSUME Types, NEW k \in 1..Len(requests)
  PROVE  /\ requests[k].conn \in Conns /\ requests[k].size \in Sizes
         /\ RequestFrame(k) \in Tag /\ RequestFrame(k).of = k /\ k \in Nat /\ k >= 1
<1>1. requests[k] \in RequestRecord
  BY ElementOfSeq DEF Types
<1>2. requests[k].conn \in Conns /\ requests[k].size \in Sizes
  BY <1>1 DEF RequestRecord
<1>3. Len(requests) \in Nat
  BY LenProperties DEF Types
<1>4. k \in Nat /\ k >= 1 /\ k \in Nat \ {0}
  BY <1>3
<1>5. requests[k].size \in Nat \ {0, 1}
  BY <1>2, ConstantsAreTyped
<1>6. RequestFrame(k) = [kind |-> "request", of |-> k, size |-> requests[k].size]
  BY DEF RequestFrame, Frame
<1>7. RequestFrame(k) \in Tag /\ RequestFrame(k).of = k
  BY <1>4, <1>5, <1>6 DEF Tag, Kind
<1>8. QED BY <1>2, <1>4, <1>7

LEMMA AskedIsTyped ==
  ASSUME Types, NEW c
  PROVE  /\ Asked(c) \in SUBSET Tag
         /\ \A f \in Asked(c) : \E k \in SentOn(c) :
              /\ f = RequestFrame(k) /\ f.of = k /\ k \in 1..Len(requests)
<1>1. \A k \in SentOn(c) : k \in 1..Len(requests)
  BY DEF SentOn
<1>2. ASSUME NEW f \in Asked(c)
      PROVE  /\ f \in Tag
             /\ \E k \in SentOn(c) : f = RequestFrame(k) /\ f.of = k /\ k \in 1..Len(requests)
  <2>1. PICK k \in SentOn(c) : f = RequestFrame(k)
    BY DEF Asked
  <2>2. QED BY <1>1, <2>1, RequestsAreTyped
<1>3. QED BY <1>2

LEMMA StreamsAreTyped ==
  ASSUME Types, NEW c \in Conns
  PROVE  /\ up[c] \in Seq(Piece) /\ down[c] \in Seq(Piece)
         /\ atServer[c] \in Seq(Piece) /\ atClient[c] \in Seq(Piece)
         /\ Upstream(c) \in Seq(Piece) /\ Downstream(c) \in Seq(Piece)
         /\ Len(Upstream(c)) = Len(atServer[c]) + Len(up[c])
         /\ Len(Downstream(c)) = Len(atClient[c]) + Len(down[c])
         /\ arrived[c] \in Seq(Seq(Piece))
<1>1. /\ up[c] \in Seq(Piece) /\ down[c] \in Seq(Piece)
      /\ atServer[c] \in Seq(Piece) /\ atClient[c] \in Seq(Piece)
      /\ arrived[c] \in Seq(Seq(Piece))
  BY DEF Types
<1>2. QED BY <1>1, ConcatProperties DEF Upstream, Downstream

LEMMA ArrivedIsTyped ==
  ASSUME Types, NEW c \in Conns, Flow(c), NEW i \in 1..Len(arrived[c])
  PROVE  /\ Number(arrived[c][i]) \in 1..Len(requests) /\ Number(arrived[c][i]) \in Nat
         /\ Number(arrived[c][i]) >= 1
         /\ \E k \in SentOn(c) : arrived[c][i] = Bytes(k) /\ Number(arrived[c][i]) = k
<1>1. PICK f \in Asked(c) : arrived[c][i] = Pieces(f)
  BY DEF Flow, Accounted, InOrder
<1>2. f \in Tag
  BY AskedIsTyped
<1>3. PICK k \in SentOn(c) : f = RequestFrame(k) /\ f.of = k /\ k \in 1..Len(requests)
  BY AskedIsTyped
<1>4. arrived[c][i] = Bytes(k)
  BY <1>1, <1>3 DEF Bytes, RequestFrame
<1>5. Number(arrived[c][i]) = k
  BY <1>1, <1>2, <1>3, NumberOfPieces
<1>6. k \in Nat /\ k >= 1
  BY <1>3, RequestsAreTyped
<1>7. QED BY <1>3, <1>4, <1>5, <1>6

(* The frame a server takes is the first of what is under way, whole.      *)
LEMMA TheFirstIsTaken ==
  ASSUME Types, NEW c \in Conns, Flow(c), HasFrame(atServer[c])
  PROVE  /\ Upstream(c) # <<>> /\ Size(Upstream(c), 1) <= Len(Upstream(c))
         /\ First(atServer[c]) = SubSeq(Upstream(c), 1, Size(Upstream(c), 1))
         /\ First(atServer[c]) \in Seq(Piece)
         /\ Rest(atServer[c]) \in Seq(Piece)
         /\ Rest(atServer[c]) \o up[c]
              = SubSeq(Upstream(c), Size(Upstream(c), 1) + 1, Len(Upstream(c)))
         /\ First(atServer[c])[1].frame = Upstream(c)[1].frame
         /\ Request(c) = Of(Upstream(c), 1) /\ Request(c) \in Nat \ {0}
         /\ Number(First(atServer[c])) = Of(Upstream(c), 1)
         /\ Request(c) \in 1..Len(requests)
<1> DEFINE a == atServer[c]
           b == up[c]
           s == Upstream(c)
           z == Length(a)
<1>1. a \in Seq(Piece) /\ b \in Seq(Piece) /\ s \in Seq(Piece) /\ s = a \o b
  BY StreamsAreTyped DEF Upstream
<1>2. Len(a) \in Nat /\ Len(a) >= 2 /\ z <= Len(a)
  BY <1>1, LenProperties DEF HasFrame, HasLength
<1>3. 1 \in 1..Len(a)
  BY <1>2
<1>4. z = Size(a, 1) /\ z \in Nat /\ z >= 2
  BY <1>1, <1>3, PieceFields DEF Length, Size
<1>5. z \in 1..Len(a) /\ z \in 0..Len(a)
  BY <1>2, <1>4
<1>6. /\ First(a) = SubSeq(a, 1, z) /\ First(a) \in Seq(Piece)
      /\ Rest(a) = SubSeq(a, z + 1, Len(a)) /\ Rest(a) \in Seq(Piece)
  BY <1>1, <1>5, Beginning, Remaining DEF First, Rest
<1>7. Cut(s)
  BY DEF Flow, Accounted
<1> HIDE DEF a, b, s, z
<1>8. /\ s # <<>> /\ s[1] = a[1] /\ z \in 1..Len(s)
      /\ SubSeq(a, 1, z) = SubSeq(s, 1, z)
      /\ SubSeq(a, z + 1, Len(a)) \o b = SubSeq(s, z + 1, Len(s))
  <2>1. a \in Seq(Piece) /\ b \in Seq(Piece) /\ z \in 1..Len(a)
    BY <1>1, <1>5
  <2>2. /\ a \o b # <<>> /\ (a \o b)[1] = a[1] /\ z \in 1..Len(a \o b)
        /\ SubSeq(a, 1, z) = SubSeq(a \o b, 1, z)
        /\ SubSeq(a, z + 1, Len(a)) \o b = SubSeq(a \o b, z + 1, Len(a \o b))
    BY <2>1, ReaderIsInFront, Zenon
  <2>3. QED BY <1>1, <2>2, Zenon
<1>9. Size(s, 1) = z /\ z <= Len(s) /\ 1 \in 1..Len(s)
  BY <1>4, <1>8 DEF Size
<1>10. SubSeq(s, 1, z)[1] = s[1]
  BY <1>1, <1>7, <1>8, <1>9, FrontIsAFrame
<1>11. First(a)[1].frame = s[1].frame
  BY <1>6, <1>8, <1>10
<1>12. Request(c) = Of(s, 1) /\ Number(First(a)) = Of(s, 1)
  BY <1>11 DEF Request, Of, Number, a
<1>13. s[1].frame \in Asked(c)
  BY <1>9 DEF Flow, Accounted, Genuine, s
<1>14. PICK k \in SentOn(c) : /\ s[1].frame = RequestFrame(k)
                              /\ s[1].frame.of = k /\ k \in 1..Len(requests)
  BY <1>13, AskedIsTyped
<1>15. Request(c) \in 1..Len(requests) /\ Request(c) \in Nat \ {0}
  BY <1>12, <1>14, RequestsAreTyped DEF Of
<1>16. QED BY <1>6, <1>8, <1>9, <1>11, <1>12, <1>15 DEF a, b, s, z


-----------------------------------------------------------------------------
(***************************************************************************)
(* Types.                                                                  *)
(***************************************************************************)
LEMMA ToClientIsTyped ==
  ASSUME Types, NEW c, NEW frame \in Tag, ToClient(c, frame)
  PROVE  down' \in [Conns -> Seq(Piece)]
<1>1. CASE client[c] # "open"
  BY <1>1 DEF ToClient, Types
<1>2. CASE client[c] = "open"
  <2>1. down' = [down EXCEPT ![c] = down[c] \o Pieces(frame)]
    BY <1>2 DEF ToClient
  <2>2. CASE c \in Conns
    <3>1. down[c] \o Pieces(frame) \in Seq(Piece)
      BY <2>2, StreamsAreTyped, PiecesOfFrame, ConcatProperties
    <3>2. QED BY <2>1, <3>1 DEF Types
  <2>3. CASE c \notin Conns
    BY <2>1, <2>3 DEF Types
  <2>4. QED BY <2>2, <2>3
<1>3. QED BY <1>1, <1>2

LEMMA FramesAreTags ==
  ASSUME NEW kind \in Kind, NEW k \in Nat \ {0}
  PROVE  Frame(kind, k, 3) \in Tag /\ Frame(kind, k, 3).of = k
BY DEF Frame, Tag

LEMMA TakingKeepsTypes ==
  ASSUME Types, NEW c \in Conns, Flow(c), Takes(c)
  PROVE  /\ arrived' \in [Conns -> Seq(Seq(Piece))] /\ atServer' \in [Conns -> Seq(Piece)]
         /\ arrived' = [arrived EXCEPT ![c] = Append(arrived[c], First(atServer[c]))]
         /\ atServer' = [atServer EXCEPT ![c] = Rest(atServer[c])]
         /\ HasFrame(atServer[c]) /\ handler[c] = "reading"
<1>1. /\ HasFrame(atServer[c]) /\ handler[c] = "reading"
      /\ arrived' = [arrived EXCEPT ![c] = Append(arrived[c], First(atServer[c]))]
      /\ atServer' = [atServer EXCEPT ![c] = Rest(atServer[c])]
  BY DEF Takes, Remainder
<1>2. First(atServer[c]) \in Seq(Piece) /\ Rest(atServer[c]) \in Seq(Piece)
  BY <1>1, TheFirstIsTaken
<1>3. Append(arrived[c], First(atServer[c])) \in Seq(Seq(Piece))
  BY <1>2, StreamsAreTyped, AppendProperties
<1>4. QED BY <1>1, <1>2, <1>3 DEF Types

LEMMA ClientStepKeepsTypes ==
  ASSUME Types, NEW c \in Conns, Places(c), Flow(c), ClientStep(c)
  PROVE  Types'
<1>1. CASE Connect(c)
  BY <1>1 DEF Connect, Types, clientVars
<1>2. CASE SendFramed(c)
  <2>1. PICK size \in Sizes, ascii \in BOOLEAN :
          /\ requests' = Append(requests, [conn |-> c, size |-> size, ascii |-> ascii])
          /\ up' = [up EXCEPT ![c] = up[c] \o Pieces(Frame("request", Len(requests) + 1, size))]
          /\ waiting' = [waiting EXCEPT ![c] = Len(requests) + 1]
    BY <1>2 DEF SendFramed
  <2>2. /\ Len(requests) < MaxRequests
        /\ UNCHANGED <<down, atServer, atClient, client, closed, serverVars, arrived>>
    BY <1>2 DEF SendFramed
  <2>3. Len(requests) \in Nat /\ MaxRequests \in Nat /\ requests \in Seq(RequestRecord)
    BY ConstantsAreTyped, LenProperties DEF Types
  <2>4. [conn |-> c, size |-> size, ascii |-> ascii] \in RequestRecord
    BY DEF RequestRecord
  <2>5. requests' \in Seq(RequestRecord) /\ Len(requests') = Len(requests) + 1
    BY <2>1, <2>3, <2>4, AppendProperties
  <2>6. Len(requests') <= MaxRequests /\ Len(requests) + 1 \in Nat \ {0}
    BY <2>2, <2>3, <2>5
  <2>7. Frame("request", Len(requests) + 1, size) \in Tag
    BY <2>6, ConstantsAreTyped DEF Frame, Tag, Kind
  <2>8. up[c] \o Pieces(Frame("request", Len(requests) + 1, size)) \in Seq(Piece)
    BY <2>7, StreamsAreTyped, PiecesOfFrame, ConcatProperties
  <2>9. up' \in [Conns -> Seq(Piece)]
    BY <2>1, <2>8 DEF Types
  <2>10. waiting' \in [Conns -> Nat]
    BY <2>1, <2>6 DEF Types
  <2>11. QED BY <2>2, <2>5, <2>6, <2>9, <2>10 DEF Types, serverVars
<1>3. CASE PollBytes(c)
  <2>1. PICK n \in 1..Len(down[c]) :
          /\ atClient' = [atClient EXCEPT ![c] = atClient[c] \o SubSeq(down[c], 1, n)]
          /\ down' = [down EXCEPT ![c] = SubSeq(down[c], n + 1, Len(down[c]))]
    BY <1>3 DEF PollBytes, Poll
  <2>2. down[c] \in Seq(Piece) /\ atClient[c] \in Seq(Piece) /\ n \in 0..Len(down[c])
    <3>1. down[c] \in Seq(Piece) /\ atClient[c] \in Seq(Piece)
      BY StreamsAreTyped
    <3>2. n \in 0..Len(down[c])
      OBVIOUS
    <3>3. QED BY <3>1, <3>2
  <2>3. /\ atClient[c] \o SubSeq(down[c], 1, n) \in Seq(Piece)
        /\ SubSeq(down[c], n + 1, Len(down[c])) \in Seq(Piece)
    BY <2>2, PiecesMove
  <2>4. down' \in [Conns -> Seq(Piece)] /\ atClient' \in [Conns -> Seq(Piece)]
    BY <2>1, <2>3 DEF Types
  <2>5. QED BY <1>3, <2>4 DEF PollBytes, Poll, Types, serverVars, clientVars
<1>4. CASE TakeFrame(c)
  <2>1. <<>> \in Seq(Piece)
    BY EmptySeq
  <2>2. atClient' \in [Conns -> Seq(Piece)] /\ waiting' \in [Conns -> Nat]
    BY <1>4, <2>1 DEF TakeFrame, AfterFrame, Types
  <2>3. QED BY <1>4, <2>2 DEF TakeFrame, Types, serverVars
<1>5. CASE GiveUp(c)
  BY <1>5 DEF GiveUp, Types, tcpVars, serverVars
<1>6. CASE Leave(c)
  <2>1. PICK n \in 0..Len(up[c]) : up' = [up EXCEPT ![c] = SubSeq(up[c], 1, n)]
    BY <1>6 DEF Leave, ClientCloses
  <2>2. SubSeq(up[c], 1, n) \in Seq(Piece) /\ <<>> \in Seq(Piece)
    BY StreamsAreTyped, Beginning, EmptySeq
  <2>3. up' \in [Conns -> Seq(Piece)] /\ down' \in [Conns -> Seq(Piece)]
    BY <1>6, <2>1, <2>2 DEF Leave, ClientCloses, Types
  <2>4. client' \in [Conns -> {"new", "open", "closed"}] /\ waiting' \in [Conns -> Nat]
    BY <1>6 DEF Leave, ClientCloses, Types
  <2>5. QED BY <1>6, <2>3, <2>4 DEF Leave, ClientCloses, Types, serverVars
<1>7. CASE PeerClosed(c)
  BY <1>7 DEF PeerClosed, Types, serverVars
<1>8. QED BY <1>1, <1>2, <1>3, <1>4, <1>5, <1>6, <1>7 DEF ClientStep

LEMMA HandlerStepKeepsTypes ==
  ASSUME Types, NEW c \in Conns, Places(c), Flow(c), HandlerStep(c)
  PROVE  Types'
<1>1. CASE SetActive(c)
  <2>1. registered' \in Seq(Conns) /\ active' \in Conns \cup {0}
    <3>1. CASE mode = "phone"
      BY <1>1, <3>1 DEF SetActive, Types
    <3>2. CASE mode # "phone"
      <4>1. registered' = Append(registered, c) /\ active' = c
        BY <1>1, <3>2 DEF SetActive
      <4>2. QED BY <4>1, AppendProperties DEF Types
    <3>3. QED BY <3>1, <3>2
  <2>2. QED BY <1>1, <2>1 DEF SetActive, Types, tcpVars, clientVars
<1>2. CASE ReadSome(c)
  <2>1. PICK n \in 1..Len(up[c]) :
          /\ atServer' = [atServer EXCEPT ![c] = atServer[c] \o SubSeq(up[c], 1, n)]
          /\ up' = [up EXCEPT ![c] = SubSeq(up[c], n + 1, Len(up[c]))]
    BY <1>2 DEF ReadSome
  <2>2. up[c] \in Seq(Piece) /\ atServer[c] \in Seq(Piece) /\ n \in 0..Len(up[c])
    <3>1. up[c] \in Seq(Piece) /\ atServer[c] \in Seq(Piece)
      BY StreamsAreTyped
    <3>2. n \in 0..Len(up[c])
      OBVIOUS
    <3>3. QED BY <3>1, <3>2
  <2>3. /\ atServer[c] \o SubSeq(up[c], 1, n) \in Seq(Piece)
        /\ SubSeq(up[c], n + 1, Len(up[c])) \in Seq(Piece)
    BY <2>2, PiecesMove
  <2>4. up' \in [Conns -> Seq(Piece)] /\ atServer' \in [Conns -> Seq(Piece)]
    BY <2>1, <2>3 DEF Types
  <2>5. QED BY <1>2, <2>4 DEF ReadSome, Types, serverVars, clientVars
<1>3. CASE AwaitReply(c)
  <2>1. arrived' \in [Conns -> Seq(Seq(Piece))] /\ atServer' \in [Conns -> Seq(Piece)]
    BY <1>3, TakingKeepsTypes DEF AwaitReply
  <2>2. QED BY <1>3, <2>1 DEF AwaitReply, Types, clientVars
<1>4. CASE WriteFrame(c)
  <2>1. Len(arrived[c]) \in 1..Len(arrived[c])
    BY <1>4, StreamsAreTyped, EmptySeq DEF WriteFrame, Places
  <2>2. Number(Last(arrived[c])) \in Nat \ {0}
    BY <2>1, ArrivedIsTyped DEF Last
  <2>3. Frame("reply", Last(arrived[c])[1].frame.of, 3) \in Tag
    BY <2>2, FramesAreTags DEF Number, Kind
  <2>4. down' \in [Conns -> Seq(Piece)]
    BY <1>4, <2>3, ToClientIsTyped DEF WriteFrame
  <2>5. QED BY <1>4, <2>4 DEF WriteFrame, Types, clientVars
<1>5. CASE Echo(c)
  <2>1. /\ arrived' \in [Conns -> Seq(Seq(Piece))] /\ atServer' \in [Conns -> Seq(Piece)]
        /\ HasFrame(atServer[c])
    BY <1>5, TakingKeepsTypes DEF Echo
  <2>2. Request(c) \in Nat \ {0}
    BY <2>1, TheFirstIsTaken
  <2>3. Frame("reply", Request(c), 3) \in Tag
    BY <2>2, FramesAreTags DEF Kind
  <2>4. down' \in [Conns -> Seq(Piece)]
    BY <1>5, <2>3, ToClientIsTyped DEF Echo
  <2>5. QED BY <1>5, <2>1, <2>4 DEF Echo, Types, clientVars, serverVars
<1>6. CASE StartWorker(c)
  <2>1. /\ arrived' \in [Conns -> Seq(Seq(Piece))] /\ atServer' \in [Conns -> Seq(Piece)]
        /\ HasFrame(atServer[c])
    BY <1>6, TakingKeepsTypes DEF StartWorker
  <2>2. Request(c) \in Nat \ {0}
    BY <2>1, TheFirstIsTaken
  <2>3. [conn |-> c, request |-> Request(c), step |-> "waiting"] \in Worker
    BY <2>2 DEF Worker
  <2>4. workers' \subseteq Worker /\ IsFiniteSet(workers')
    BY <1>6, <2>3, FS_AddElement DEF StartWorker, Types
  <2>5. QED BY <1>6, <2>1, <2>4 DEF StartWorker, Types, clientVars
<1>7. CASE NoReply(c)
  <2>1. arrived' \in [Conns -> Seq(Seq(Piece))] /\ atServer' \in [Conns -> Seq(Piece)]
    BY <1>7, TakingKeepsTypes DEF NoReply
  <2>2. QED BY <1>7, <2>1 DEF NoReply, Types, clientVars, serverVars
<1>8. CASE HandlerEnds(c)
  BY <1>8 DEF HandlerEnds, ActiveWithout, Types, clientVars
<1>9. QED BY <1>1, <1>2, <1>3, <1>4, <1>5, <1>6, <1>7, <1>8 DEF HandlerStep

LEMMA WorkerStepKeepsTypes ==
  ASSUME Types, NEW w \in workers, WorkerStep(w)
  PROVE  Types'
<1>1. w \in Worker /\ IsFiniteSet(workers) /\ workers \subseteq Worker /\ permits \in Nat
  BY DEF Types
<1>2. w.conn \in Conns /\ w.request \in Nat \ {0}
  BY <1>1 DEF Worker
<1>3. workers \ {w} \subseteq Worker /\ IsFiniteSet(workers \ {w})
  BY <1>1, FS_RemoveElement
<1>4. CASE Acquire(w)
  <2>1. [w EXCEPT !.step = "calling"] \in Worker
    BY <1>1 DEF Worker
  <2>2. workers' \subseteq Worker /\ IsFiniteSet(workers')
    BY <1>3, <1>4, <2>1, FS_AddElement DEF Acquire
  <2>3. permits' \in Nat
    BY <1>1, <1>4 DEF Acquire
  <2>4. QED BY <1>4, <2>2, <2>3 DEF Acquire, Types, tcpVars, clientVars
<1>5. CASE WorkerDies(w)
  <2>1. workers' \subseteq Worker /\ IsFiniteSet(workers') /\ permits' \in Nat
    BY <1>1, <1>3, <1>5 DEF WorkerDies
  <2>2. QED BY <1>5, <2>1 DEF WorkerDies, Types, tcpVars, clientVars
<1>6. CASE WorkerReplies(w)
  <2>1. workers' \subseteq Worker /\ IsFiniteSet(workers') /\ permits' \in Nat
    BY <1>1, <1>3, <1>6 DEF WorkerReplies
  <2>2. Frame("reply", w.request, 3) \in Tag
    BY <1>2, FramesAreTags DEF Kind
  <2>3. down' \in [Conns -> Seq(Piece)]
    <3>1. CASE w.conn \in closed
      BY <1>6, <3>1 DEF WorkerReplies, Types
    <3>2. CASE w.conn \notin closed
      BY <1>6, <2>2, <3>2, ToClientIsTyped DEF WorkerReplies
    <3>3. QED BY <3>1, <3>2
  <2>4. QED BY <1>6, <2>1, <2>3 DEF WorkerReplies, Types, clientVars
<1>7. QED BY <1>4, <1>5, <1>6 DEF WorkerStep

LEMMA TypeLineKeepsTypes ==
  ASSUME Types, TypeLine
  PROVE  /\ Types' /\ lines \in Nat /\ lines' = lines + 1 /\ lines' # 0
         /\ typed' = Append(typed, Latest) /\ Latest \in Conns \cup {0}
<1>1. lines \in Nat /\ lines' = lines + 1 /\ lines < MaxLines /\ MaxLines \in Nat
  BY ConstantsAreTyped DEF TypeLine, Types
<1>2. lines' \in 0..MaxLines /\ lines' # 0
  BY <1>1
<1>3. Latest \in Conns \cup {0}
  <2>1. CASE registered = <<>>
    BY <2>1 DEF Latest
  <2>2. CASE registered # <<>>
    <3>1. registered \in Seq(Conns) /\ Len(registered) \in 1..Len(registered)
      BY <2>2, EmptySeq, LenProperties DEF Types
    <3>2. Last(registered) \in Conns
      BY <3>1, ElementOfSeq DEF Last
    <3>3. QED BY <3>2 DEF Latest
  <2>3. QED BY <2>1, <2>2
<1>4. typed' = Append(typed, Latest)
  BY DEF TypeLine
<1>5. typed' \in Seq(Conns \cup {0}) /\ Len(typed') = lines'
  BY <1>1, <1>3, <1>4, AppendProperties DEF Types
<1>6. target' \in Conns \cup {0} /\ mode # "phone"
  BY DEF TypeLine, Types
<1>7. QED BY <1>1, <1>2, <1>3, <1>4, <1>5, <1>6 DEF TypeLine, Types, tcpVars, clientVars

LEMMA SendLineKeepsTypes ==
  ASSUME Types, SendLine
  PROVE  /\ Types' /\ lines \in Nat \ {0} /\ target \in Conns
         /\ Frame("line", lines, 3) \in Tag
<1>1. lines \in Nat \ {0} /\ target \in Conns
  BY ConstantsAreTyped DEF SendLine, Types
<1>2. Frame("line", lines, 3) \in Tag
  BY <1>1, FramesAreTags DEF Kind
<1>3. down' \in [Conns -> Seq(Piece)]
  <2>1. CASE target \in closed
    BY <2>1 DEF SendLine, Types
  <2>2. CASE target \notin closed
    BY <1>2, <2>2, ToClientIsTyped DEF SendLine
  <2>3. QED BY <2>1, <2>2
<1>4. QED BY <1>1, <1>2, <1>3 DEF SendLine, Types, clientVars

LEMMA StepKeepsTypes ==
  ASSUME TcpInvariant, Next
  PROVE  Types'
<1>1. CASE \E c \in Conns : ClientStep(c) \/ HandlerStep(c)
  BY <1>1, ClientStepKeepsTypes, HandlerStepKeepsTypes DEF TcpInvariant
<1>2. CASE \E w \in workers : WorkerStep(w)
  BY <1>2, WorkerStepKeepsTypes DEF TcpInvariant
<1>3. CASE TypeLine \/ SendLine
  BY <1>3, TypeLineKeepsTypes, SendLineKeepsTypes DEF TcpInvariant
<1>4. QED BY <1>1, <1>2, <1>3 DEF Next


-----------------------------------------------------------------------------
(***************************************************************************)
(* A step leaves all connections but one alone.                            *)
(***************************************************************************)
SameStreams(d) ==
  /\ client'[d] = client[d] /\ up'[d] = up[d] /\ down'[d] = down[d]
  /\ atServer'[d] = atServer[d] /\ atClient'[d] = atClient[d] /\ arrived'[d] = arrived[d]

SameRequests(d) == SentOn(d)' = SentOn(d) /\ Asked(d)' = Asked(d)

Untouched(d) ==
  /\ SameStreams(d) /\ SameRequests(d) /\ Jobs(d)' = Jobs(d)
  /\ handler'[d] = handler[d] /\ waiting'[d] = waiting[d]
  /\ d \in closed' <=> d \in closed
  /\ d \notin late' => d \notin late
  /\ lines' = 0 => lines = 0

LEMMA UntouchedStays ==
  ASSUME NEW d, Untouched(d), Places(d), Flow(d), InTurn(d)
  PROVE  Places(d)' /\ Flow(d)' /\ InTurn(d)'
<1>1. /\ client'[d] = client[d] /\ up'[d] = up[d] /\ down'[d] = down[d]
      /\ atServer'[d] = atServer[d] /\ atClient'[d] = atClient[d] /\ arrived'[d] = arrived[d]
      /\ SentOn(d)' = SentOn(d) /\ Asked(d)' = Asked(d) /\ Jobs(d)' = Jobs(d)
      /\ handler'[d] = handler[d] /\ waiting'[d] = waiting[d]
      /\ (d \in closed' <=> d \in closed)
  BY DEF Untouched, SameStreams, SameRequests
<1>2. Upstream(d)' = Upstream(d) /\ Downstream(d)' = Downstream(d)
  BY <1>1 DEF Upstream, Downstream
<1>3. Places(d)'
  BY <1>1 DEF Places
<1>4. Flow(d)'
  BY <1>1, <1>2 DEF Flow
<1>5. InTurn(d)'
  <2>1. SUFFICES ASSUME Undisturbed(d)'
                 PROVE  /\ OnePlace(waiting'[d], Upstream(d)', Downstream(d)', Jobs(d)',
                                    handler'[d])
                        /\ handler'[d] = "replying" => Number(Last(arrived'[d])) = waiting'[d]
    BY DEF InTurn
  <2>2. Undisturbed(d)
    BY <1>1, <2>1 DEF Undisturbed, Untouched
  <2>3. QED BY <1>1, <1>2, <2>2 DEF InTurn
<1>6. QED BY <1>3, <1>4, <1>5

LEMMA RequestsStay ==
  ASSUME requests' = requests, NEW d
  PROVE  SameRequests(d)
<1>1. SentOn(d)' = SentOn(d)
  BY DEF SentOn
<1>2. \A k : RequestFrame(k)' = RequestFrame(k)
  BY DEF RequestFrame
<1>3. Asked(d)' = Asked(d)
  BY <1>1, <1>2 DEF Asked
<1>4. QED BY <1>1, <1>3 DEF SameRequests

LEMMA JobsStay ==
  ASSUME workers' = workers, NEW d
  PROVE  Jobs(d)' = Jobs(d)
BY DEF Jobs

(* One request more.                                                       *)
LEMMA RequestsGrow ==
  ASSUME Types, NEW c \in Conns, NEW size \in Sizes, NEW ascii \in BOOLEAN,
         requests' = Append(requests, [conn |-> c, size |-> size, ascii |-> ascii])
  PROVE  /\ \A d : d # c => SameRequests(d)
         /\ SentOn(c)' = SentOn(c) \cup {Len(requests) + 1}
         /\ Asked(c)' = Asked(c) \cup {Frame("request", Len(requests) + 1, size)}
         /\ \A g \in Asked(c) : g.of < Len(requests) + 1
         /\ Frame("request", Len(requests) + 1, size) \in Tag
         /\ Frame("request", Len(requests) + 1, size).of = Len(requests) + 1
         /\ Len(requests) + 1 \in Nat
<1> DEFINE n == Len(requests)
           r == [conn |-> c, size |-> size, ascii |-> ascii]
           f == Frame("request", n + 1, size)
<1>1. n \in Nat /\ requests \in Seq(RequestRecord)
  BY LenProperties DEF Types
<1>2. r \in RequestRecord
  BY DEF RequestRecord
<1>3. /\ requests' \in Seq(RequestRecord) /\ Len(requests') = n + 1
      /\ \A k \in 1..n : requests'[k] = requests[k]
      /\ requests'[n + 1] = r
  BY <1>1, <1>2, AppendProperties
<1>4. r.conn = c /\ r.size = size
  OBVIOUS
<1>5. f \in Tag /\ f.of = n + 1
  <2>1. n + 1 \in Nat \ {0} /\ size \in Nat \ {0, 1}
    BY <1>1, ConstantsAreTyped
  <2>2. QED BY <2>1 DEF Frame, Tag, Kind
<1> HIDE DEF n, r
<1>6. \A k \in 1 .. n + 1 : k \in 1..n \/ k = n + 1
  BY <1>1
<1>7. n + 1 \in 1 .. n + 1 /\ \A k \in 1..n : k \in 1 .. n + 1
  BY <1>1
<1>8. \A d : SentOn(d) = {k \in 1..n : requests[k].conn = d}
  BY DEF SentOn, n
<1>9. \A d : SentOn(d)' = {k \in 1 .. n + 1 : requests'[k].conn = d}
  BY <1>3 DEF SentOn
<1>10. \A k \in 1..n : RequestFrame(k)' = RequestFrame(k)
  BY <1>3 DEF RequestFrame
<1>11. \A k : k = n + 1 => RequestFrame(k)' = f
  BY <1>3, <1>4 DEF RequestFrame
<1>12. ASSUME NEW d, d # c PROVE SameRequests(d)
  <2>1. SentOn(d)' = SentOn(d)
    BY <1>3, <1>4, <1>6, <1>7, <1>8, <1>9, <1>12
  <2>2. \A k \in SentOn(d) : RequestFrame(k)' = RequestFrame(k)
    BY <1>8, <1>10
  <2>3. Asked(d)' = Asked(d)
    BY <2>1, <2>2 DEF Asked
  <2>4. QED BY <2>1, <2>3 DEF SameRequests
<1>13. SentOn(c)' = SentOn(c) \cup {n + 1}
  BY <1>3, <1>4, <1>6, <1>7, <1>8, <1>9
<1>14. Asked(c)' = Asked(c) \cup {f}
  <2>1. \A k \in SentOn(c) : RequestFrame(k)' = RequestFrame(k)
    BY <1>8, <1>10
  <2>2. Asked(c)' = {RequestFrame(k)' : k \in SentOn(c) \cup {n + 1}}
    BY <1>13 DEF Asked
  <2>3. Asked(c)' = {RequestFrame(k)' : k \in SentOn(c)} \cup {f}
    BY <1>11, <2>2
  <2>4. {RequestFrame(k)' : k \in SentOn(c)} = Asked(c)
    BY <2>1 DEF Asked
  <2>5. QED BY <2>3, <2>4
<1>15. ASSUME NEW g \in Asked(c) PROVE g.of < n + 1
  <2>1. PICK k \in SentOn(c) : g.of = k /\ k \in 1..Len(requests)
    BY AskedIsTyped
  <2>2. QED BY <1>1, <2>1 DEF n
<1>16. QED BY <1>1, <1>5, <1>12, <1>13, <1>14, <1>15 DEF n

(* The requests the workers have.                                          *)
LEMMA WorkersAreTyped ==
  ASSUME Types, NEW w \in workers
  PROVE  w \in Worker /\ w.conn \in Conns /\ w.request \in Nat \ {0} /\ w.request \in Nat
         /\ w.step \in {"waiting", "calling"} /\ w.request \in Jobs(w.conn)
<1>1. w \in Worker
  BY DEF Types
<1>2. w.conn \in Conns /\ w.request \in Nat \ {0} /\ w.step \in {"waiting", "calling"}
  BY <1>1 DEF Worker
<1>3. QED BY <1>1, <1>2 DEF Jobs

LEMMA JobsGrow ==
  ASSUME NEW c, NEW k,
         workers' = workers \cup {[conn |-> c, request |-> k, step |-> "waiting"]}
  PROVE  Jobs(c)' = Jobs(c) \cup {k} /\ \A d : d # c => Jobs(d)' = Jobs(d)
<1> DEFINE w == [conn |-> c, request |-> k, step |-> "waiting"]
<1>1. w.conn = c /\ w.request = k
  OBVIOUS
<1> HIDE DEF w
<1>2. workers' = workers \cup {w}
  BY DEF w
<1>3. \A d : Jobs(d)' = {v.request : v \in {u \in workers \cup {w} : u.conn = d}}
  BY <1>2 DEF Jobs
<1>4. Jobs(c)' = Jobs(c) \cup {k}
  BY <1>1, <1>3 DEF Jobs
<1>5. ASSUME NEW d, d # c PROVE Jobs(d)' = Jobs(d)
  BY <1>1, <1>3, <1>5 DEF Jobs
<1>6. QED BY <1>4, <1>5

LEMMA JobsShrink ==
  ASSUME Types, Employed, NEW w \in workers, workers' = workers \ {w}
  PROVE  /\ Jobs(w.conn)' = Jobs(w.conn) \ {w.request}
         /\ \A d : d # w.conn => Jobs(d)' = Jobs(d)
<1>1. \A d : Jobs(d)' = {v.request : v \in {u \in workers \ {w} : u.conn = d}}
  BY DEF Jobs
<1>2. \A v \in workers : v.conn = w.conn /\ v.request = w.request => v = w
  BY DEF Employed
<1>3. Jobs(w.conn)' = Jobs(w.conn) \ {w.request}
  BY <1>1, <1>2 DEF Jobs
<1>4. ASSUME NEW d, d # w.conn PROVE Jobs(d)' = Jobs(d)
  BY <1>1, <1>4 DEF Jobs
<1>5. QED BY <1>3, <1>4

LEMMA JobsGoOn ==
  ASSUME Types, NEW w \in workers,
         workers' = (workers \ {w}) \cup {[w EXCEPT !.step = "calling"]}
  PROVE  \A d : Jobs(d)' = Jobs(d)
<1> DEFINE v == [w EXCEPT !.step = "calling"]
<1>1. v.conn = w.conn /\ v.request = w.request
  BY WorkersAreTyped DEF Worker
<1> HIDE DEF v
<1>2. workers' = (workers \ {w}) \cup {v}
  BY DEF v
<1>3. TAKE d
<1>4. Jobs(d)' = {x.request : x \in {u \in (workers \ {w}) \cup {v} : u.conn = d}}
  BY <1>2 DEF Jobs
<1>5. QED BY <1>1, <1>4 DEF Jobs


LEMMA ToClientLeavesOthers ==
  ASSUME Types, NEW c, NEW frame, ToClient(c, frame), NEW d \in Conns, d # c
  PROVE  down'[d] = down[d]
BY DEF ToClient, Types

LEMMA ClientStepLeavesOthers ==
  ASSUME Types, NEW c \in Conns, ClientStep(c), NEW d \in Conns, d # c
  PROVE  Untouched(d)
<1>1. /\ SameStreams(d) /\ handler'[d] = handler[d] /\ waiting'[d] = waiting[d]
      /\ workers' = workers /\ closed' = closed /\ lines' = lines /\ late \subseteq late'
  <2>1. CASE Connect(c)
    BY <2>1 DEF Connect, SameStreams, Types, clientVars
  <2>2. CASE SendFramed(c)
    BY <2>2 DEF SendFramed, SameStreams, Types, serverVars
  <2>3. CASE PollBytes(c)
    BY <2>3 DEF PollBytes, Poll, SameStreams, Types, serverVars, clientVars
  <2>4. CASE TakeFrame(c)
    BY <2>4 DEF TakeFrame, SameStreams, Types, serverVars
  <2>5. CASE GiveUp(c)
    BY <2>5 DEF GiveUp, SameStreams, Types, tcpVars, serverVars
  <2>6. CASE Leave(c)
    BY <2>6 DEF Leave, ClientCloses, SameStreams, Types, serverVars
  <2>7. CASE PeerClosed(c)
    BY <2>7 DEF PeerClosed, SameStreams, Types, serverVars
  <2>8. QED BY <2>1, <2>2, <2>3, <2>4, <2>5, <2>6, <2>7 DEF ClientStep
<1>2. SameRequests(d)
  <2>1. CASE SendFramed(c)
    <3>1. PICK size \in Sizes, ascii \in BOOLEAN :
            requests' = Append(requests, [conn |-> c, size |-> size, ascii |-> ascii])
      BY <2>1 DEF SendFramed
    <3>2. QED BY <3>1, RequestsGrow
  <2>2. CASE ~SendFramed(c)
    <3>1. requests' = requests
      BY <2>2 DEF ClientStep, Connect, PollBytes, TakeFrame, GiveUp, Leave, PeerClosed,
                  clientVars
    <3>2. QED BY <3>1, RequestsStay
  <2>3. QED BY <2>1, <2>2
<1>3. Jobs(d)' = Jobs(d)
  BY <1>1, JobsStay
<1>4. QED BY <1>1, <1>2, <1>3 DEF Untouched

LEMMA HandlerStepLeavesOthers ==
  ASSUME Types, NEW c \in Conns, HandlerStep(c), NEW d \in Conns, d # c
  PROVE  Untouched(d)
<1>1. /\ SameStreams(d) /\ handler'[d] = handler[d] /\ waiting' = waiting
      /\ closed' \subseteq closed \cup {c} /\ closed \subseteq closed'
      /\ lines' = lines /\ late' = late /\ requests' = requests
  <2>1. CASE SetActive(c)
    BY <2>1 DEF SetActive, SameStreams, Types, tcpVars, clientVars
  <2>2. CASE ReadSome(c)
    BY <2>2 DEF ReadSome, SameStreams, Types, serverVars, clientVars
  <2>3. CASE AwaitReply(c)
    BY <2>3 DEF AwaitReply, Takes, SameStreams, Types, clientVars
  <2>4. CASE WriteFrame(c)
    <3>1. down'[d] = down[d]
      BY <2>4, ToClientLeavesOthers DEF WriteFrame
    <3>2. QED BY <2>4, <3>1 DEF WriteFrame, SameStreams, Types, clientVars
  <2>5. CASE Echo(c)
    <3>1. down'[d] = down[d]
      BY <2>5, ToClientLeavesOthers DEF Echo
    <3>2. QED BY <2>5, <3>1 DEF Echo, Takes, SameStreams, Types, clientVars, serverVars
  <2>6. CASE StartWorker(c)
    BY <2>6 DEF StartWorker, Takes, SameStreams, Types, clientVars
  <2>7. CASE NoReply(c)
    BY <2>7 DEF NoReply, Takes, SameStreams, Types, clientVars, serverVars
  <2>8. CASE HandlerEnds(c)
    BY <2>8 DEF HandlerEnds, SameStreams, Types, clientVars
  <2>9. QED BY <2>1, <2>2, <2>3, <2>4, <2>5, <2>6, <2>7, <2>8 DEF HandlerStep
<1>2. Jobs(d)' = Jobs(d)
  <2>1. CASE StartWorker(c)
    BY <2>1, JobsGrow DEF StartWorker
  <2>2. CASE ~StartWorker(c)
    <3>1. workers' = workers
      BY <2>2 DEF HandlerStep, SetActive, ReadSome, AwaitReply, WriteFrame, Echo, NoReply,
                  HandlerEnds, serverVars
    <3>2. QED BY <3>1, JobsStay
  <2>3. QED BY <2>1, <2>2
<1>3. SameRequests(d)
  BY <1>1, RequestsStay
<1>4. QED BY <1>1, <1>2, <1>3 DEF Untouched

LEMMA WorkerStepLeavesOthers ==
  ASSUME Types, Employed, NEW w \in workers, WorkerStep(w), NEW d \in Conns,
         d # w.conn \/ Acquire(w)
  PROVE  Untouched(d)
<1>1. /\ SameStreams(d) /\ handler' = handler /\ waiting' = waiting /\ closed' = closed
      /\ lines' = lines /\ late' = late /\ requests' = requests
  <2>1. CASE Acquire(w)
    BY <2>1 DEF Acquire, SameStreams, tcpVars, clientVars
  <2>2. CASE WorkerDies(w)
    BY <2>2 DEF WorkerDies, SameStreams, tcpVars, clientVars
  <2>3. CASE WorkerReplies(w) /\ d # w.conn
    <3>1. down'[d] = down[d]
      <4>1. CASE w.conn \in closed
        BY <2>3, <4>1 DEF WorkerReplies
      <4>2. CASE w.conn \notin closed
        BY <2>3, <4>2, ToClientLeavesOthers DEF WorkerReplies
      <4>3. QED BY <4>1, <4>2
    <3>2. QED BY <2>3, <3>1 DEF WorkerReplies, SameStreams, clientVars
  <2>4. CASE WorkerReplies(w) /\ Acquire(w)
    BY <2>4 DEF WorkerReplies, Acquire
  <2>5. QED BY <2>1, <2>2, <2>3, <2>4 DEF WorkerStep
<1>2. Jobs(d)' = Jobs(d)
  <2>1. CASE Acquire(w)
    BY <2>1, JobsGoOn DEF Acquire
  <2>2. CASE ~Acquire(w)
    <3>1. workers' = workers \ {w}
      BY <2>2 DEF WorkerStep, WorkerDies, WorkerReplies
    <3>2. QED BY <2>2, <3>1, JobsShrink
  <2>3. QED BY <2>1, <2>2
<1>3. SameRequests(d)
  BY <1>1, RequestsStay
<1>4. QED BY <1>1, <1>2, <1>3 DEF Untouched

LEMMA TypeLineLeavesAll ==
  ASSUME Types, TypeLine, NEW d \in Conns
  PROVE  Untouched(d)
<1>1. /\ SameStreams(d) /\ handler' = handler /\ waiting' = waiting /\ closed' = closed
      /\ late' = late /\ requests' = requests /\ workers' = workers
  BY DEF TypeLine, SameStreams, clientVars, tcpVars
<1>2. lines' # 0
  BY TypeLineKeepsTypes
<1>3. SameRequests(d) /\ Jobs(d)' = Jobs(d)
  BY <1>1, RequestsStay, JobsStay
<1>4. QED BY <1>1, <1>2, <1>3 DEF Untouched

LEMMA SendLineLeavesOthers ==
  ASSUME Types, SendLine, NEW d \in Conns, d # target
  PROVE  Untouched(d)
<1>1. down'[d] = down[d]
  <2>1. CASE target \in closed
    BY <2>1 DEF SendLine
  <2>2. CASE target \notin closed
    BY <2>2, ToClientLeavesOthers DEF SendLine
  <2>3. QED BY <2>1, <2>2
<1>2. lines' = lines
  BY DEF SendLine
<1>3. /\ SameStreams(d) /\ handler' = handler /\ waiting' = waiting /\ closed' = closed
      /\ late' = late /\ requests' = requests /\ workers' = workers
  BY <1>1 DEF SendLine, SameStreams, clientVars
<1>4. SameRequests(d) /\ Jobs(d)' = Jobs(d)
  BY <1>3, RequestsStay, JobsStay
<1>5. QED BY <1>2, <1>3, <1>4 DEF Untouched


-----------------------------------------------------------------------------
(***************************************************************************)
(* What a step does to the streams of its connection.                      *)
(***************************************************************************)
UpKept(c) ==
  /\ Upstream(c)' = Upstream(c) /\ arrived'[c] = arrived[c] /\ SameRequests(c)

UpTaken(c) ==
  /\ HasFrame(atServer[c]) /\ SameRequests(c)
  /\ Upstream(c)' = SubSeq(Upstream(c), Size(Upstream(c), 1) + 1, Len(Upstream(c)))
  /\ arrived'[c] = Append(arrived[c], SubSeq(Upstream(c), 1, Size(Upstream(c), 1)))

DownKept(c) == Downstream(c)' = Downstream(c)

DownAppended(c, frame) ==
  Downstream(c)' = IF client[c] = "open" THEN Downstream(c) \o Pieces(frame) ELSE Downstream(c)

LEMMA KeptStreams ==
  ASSUME NEW c, SameStreams(c), requests' = requests
  PROVE  UpKept(c) /\ DownKept(c)
<1>1. Upstream(c)' = Upstream(c) /\ Downstream(c)' = Downstream(c)
  BY DEF SameStreams, Upstream, Downstream
<1>2. SameRequests(c)
  BY RequestsStay
<1>3. QED BY <1>1, <1>2 DEF SameStreams, UpKept, DownKept

LEMMA TakesFromTheStream ==
  ASSUME Types, NEW c \in Conns, Flow(c), Takes(c), requests' = requests, up' = up
  PROVE  UpTaken(c)
<1>1. /\ arrived' = [arrived EXCEPT ![c] = Append(arrived[c], First(atServer[c]))]
      /\ atServer' = [atServer EXCEPT ![c] = Rest(atServer[c])]
      /\ HasFrame(atServer[c])
  BY TakingKeepsTypes
<1>2. /\ arrived'[c] = Append(arrived[c], First(atServer[c]))
      /\ atServer'[c] = Rest(atServer[c])
  BY <1>1 DEF Types
<1>3. Upstream(c)' = Rest(atServer[c]) \o up[c]
  BY <1>2 DEF Upstream
<1>4. /\ First(atServer[c]) = SubSeq(Upstream(c), 1, Size(Upstream(c), 1))
      /\ Rest(atServer[c]) \o up[c]
           = SubSeq(Upstream(c), Size(Upstream(c), 1) + 1, Len(Upstream(c)))
  BY <1>1, TheFirstIsTaken
<1>5. SameRequests(c)
  BY RequestsStay
<1>6. QED BY <1>1, <1>2, <1>3, <1>4, <1>5 DEF UpTaken

LEMMA ToClientAppends ==
  ASSUME Types, NEW c \in Conns, NEW frame \in Tag, ToClient(c, frame), atClient' = atClient
  PROVE  DownAppended(c, frame)
<1>1. CASE client[c] = "open"
  <2>1. down'[c] = down[c] \o Pieces(frame)
    BY <1>1 DEF ToClient, Types
  <2>2. Downstream(c)' = atClient[c] \o (down[c] \o Pieces(frame))
    BY <2>1 DEF Downstream
  <2>3. (atClient[c] \o down[c]) \o Pieces(frame) = atClient[c] \o (down[c] \o Pieces(frame))
    <3>1. /\ atClient[c] \in Seq(Piece) /\ down[c] \in Seq(Piece)
          /\ Pieces(frame) \in Seq(Piece)
      BY StreamsAreTyped, PiecesOfFrame
    <3>2. QED BY <3>1, PiecesJoin, Zenon
  <2>4. QED BY <1>1, <2>2, <2>3 DEF DownAppended, Downstream
<1>2. CASE client[c] # "open"
  BY <1>2 DEF ToClient, DownAppended, Downstream
<1>3. QED BY <1>1, <1>2

LEMMA KeptIsAccounted ==
  ASSUME NEW c, Flow(c), UpKept(c), client'[c] = client[c]
  PROVE  Accounted(Asked(c), arrived[c], Upstream(c), client[c])'
BY DEF Flow, UpKept, SameRequests

LEMMA TakenIsAccounted ==
  ASSUME Types, NEW c \in Conns, Flow(c), UpTaken(c), client'[c] = client[c]
  PROVE  Accounted(Asked(c), arrived[c], Upstream(c), client[c])'
<1> DEFINE s == Upstream(c)
           a == arrived[c]
           f == Asked(c)
           t == SubSeq(s, Size(s, 1) + 1, Len(s))
           b == Append(a, SubSeq(s, 1, Size(s, 1)))
<1>1. s \in Seq(Piece) /\ a \in Seq(Seq(Piece)) /\ f \in SUBSET Tag
  BY StreamsAreTyped, AskedIsTyped
<1>2. s # <<>> /\ Size(s, 1) <= Len(s)
  BY TheFirstIsTaken DEF UpTaken
<1>3. Accounted(f, a, s, client[c])
  BY DEF Flow
<1>4. Accounted(f, b, t, client[c])
  BY <1>1, <1>2, <1>3, TakingIsAccounted
<1>5. Upstream(c)' = t /\ arrived'[c] = b /\ Asked(c)' = f
  BY DEF UpTaken, SameRequests
<1> HIDE DEF s, a, f, t, b
<1>6. QED BY <1>4, <1>5

LEMMA AppendedIsWhole ==
  ASSUME Types, NEW c \in Conns, Flow(c), NEW frame \in Tag, DownAppended(c, frame),
         client'[c] = client[c], client'[c] = "open"
  PROVE  Cut(Downstream(c))' /\ Complete(Downstream(c))'
<1>1. Downstream(c)' = Downstream(c) \o Pieces(frame)
  BY DEF DownAppended
<1>2. Downstream(c) \in Seq(Piece) /\ Cut(Downstream(c)) /\ Complete(Downstream(c))
  BY StreamsAreTyped DEF Flow
<1>3. Cut(Downstream(c) \o Pieces(frame)) /\ Complete(Downstream(c) \o Pieces(frame))
  BY <1>2, FrameIsAppended
<1>4. QED BY <1>1, <1>3

LEMMA EmptyIsWhole == Cut(<<>>) /\ Complete(<<>>) /\ Rising(<<>>)
<1>1. Len(<<>>) = 0
  BY EmptySeq
<1>2. ~\E i : i \in 1..0
  OBVIOUS
<1>3. QED BY <1>1, <1>2 DEF Cut, Complete, Rising

LEMMA EmptyStream == <<>> \o <<>> = <<>>
<1>1. <<>> \in Seq(Piece)
  BY EmptySeq
<1>2. QED BY <1>1, ConcatEmptySeq

LEMMA UpMoves ==
  ASSUME Types, NEW c \in Conns, NEW n \in 0..Len(up[c]),
         atServer' = [atServer EXCEPT ![c] = atServer[c] \o SubSeq(up[c], 1, n)],
         up' = [up EXCEPT ![c] = SubSeq(up[c], n + 1, Len(up[c]))]
  PROVE  Upstream(c)' = Upstream(c)
<1>1. /\ atServer'[c] = atServer[c] \o SubSeq(up[c], 1, n)
      /\ up'[c] = SubSeq(up[c], n + 1, Len(up[c]))
  BY DEF Types
<1>2. (atServer[c] \o SubSeq(up[c], 1, n)) \o SubSeq(up[c], n + 1, Len(up[c]))
        = atServer[c] \o up[c]
  BY StreamsAreTyped, PiecesMove
<1>3. QED BY <1>1, <1>2 DEF Upstream

LEMMA DownMoves ==
  ASSUME Types, NEW c \in Conns, NEW n \in 0..Len(down[c]),
         atClient' = [atClient EXCEPT ![c] = atClient[c] \o SubSeq(down[c], 1, n)],
         down' = [down EXCEPT ![c] = SubSeq(down[c], n + 1, Len(down[c]))]
  PROVE  Downstream(c)' = Downstream(c)
<1>1. /\ atClient'[c] = atClient[c] \o SubSeq(down[c], 1, n)
      /\ down'[c] = SubSeq(down[c], n + 1, Len(down[c]))
  BY DEF Types
<1>2. (atClient[c] \o SubSeq(down[c], 1, n)) \o SubSeq(down[c], n + 1, Len(down[c]))
        = atClient[c] \o down[c]
  BY StreamsAreTyped, PiecesMove
<1>3. QED BY <1>1, <1>2 DEF Downstream


(* The client's steps.                                                     *)
LEMMA ConnectKeepsFlow ==
  ASSUME Types, Types', NEW c \in Conns, Places(c), Flow(c), Connect(c)
  PROVE  /\ Flow(c)' /\ Upstream(c)' = <<>> /\ Downstream(c)' = <<>> /\ SentOn(c)' = {}
<1>1. /\ client[c] = "new" /\ client'[c] = "open" /\ requests' = requests
      /\ up' = up /\ down' = down /\ atServer' = atServer /\ atClient' = atClient
      /\ arrived' = arrived
  BY DEF Connect, Types, clientVars
<1>2. Upstream(c) = <<>> /\ Downstream(c) = <<>> /\ SentOn(c) = {}
  BY <1>1, EmptyStream DEF Places, Upstream, Downstream
<1>3. Upstream(c)' = <<>> /\ Downstream(c)' = <<>>
  BY <1>1, <1>2 DEF Upstream, Downstream
<1>4. SentOn(c)' = {} /\ Asked(c)' = Asked(c) /\ Asked(c) = {}
  <2>1. SameRequests(c)
    BY <1>1, RequestsStay
  <2>2. QED BY <1>2, <2>1 DEF SameRequests, Asked
<1>5. Accounted({}, arrived[c], <<>>, "open")
  BY <1>2, <1>4, EmptyIsWhole DEF Flow, Accounted
<1>6. QED BY <1>1, <1>3, <1>4, <1>5, EmptyIsWhole DEF Flow

LEMMA SendKeepsFlow ==
  ASSUME Types, NEW c \in Conns, Flow(c), SendFramed(c)
  PROVE  /\ Flow(c)' /\ Downstream(c)' = Downstream(c)
         /\ \E f \in Tag : /\ f.of = Len(requests) + 1
                           /\ Upstream(c)' = Upstream(c) \o Pieces(f)
         /\ waiting'[c] = Len(requests) + 1
<1>1. PICK size \in Sizes, ascii \in BOOLEAN :
        /\ requests' = Append(requests, [conn |-> c, size |-> size, ascii |-> ascii])
        /\ up' = [up EXCEPT ![c] = up[c] \o Pieces(Frame("request", Len(requests) + 1, size))]
        /\ waiting' = [waiting EXCEPT ![c] = Len(requests) + 1]
  BY DEF SendFramed
<1> DEFINE f == Frame("request", Len(requests) + 1, size)
           k == Len(requests) + 1
<1>2. /\ f \in Tag /\ f.of = k /\ Asked(c)' = Asked(c) \cup {f}
      /\ \A g \in Asked(c) : g.of < f.of
  <2>1. requests' = Append(requests, [conn |-> c, size |-> size, ascii |-> ascii])
    BY <1>1
  <2>2. QED BY <2>1, RequestsGrow
<1>3. up'[c] = up[c] \o Pieces(f) /\ waiting'[c] = k
  BY <1>1 DEF Types
<1>4. /\ client[c] = "open" /\ client' = client /\ arrived' = arrived
      /\ atServer' = atServer /\ atClient' = atClient /\ down' = down
  BY DEF SendFramed
<1> HIDE DEF f, k
<1>5. Upstream(c)' = Upstream(c) \o Pieces(f)
  <2>1. /\ atServer[c] \in Seq(Piece) /\ up[c] \in Seq(Piece) /\ Pieces(f) \in Seq(Piece)
    BY <1>2, StreamsAreTyped, PiecesOfFrame
  <2>2. (atServer[c] \o up[c]) \o Pieces(f) = atServer[c] \o (up[c] \o Pieces(f))
    BY <2>1, PiecesJoin, Zenon
  <2>3. Upstream(c)' = atServer[c] \o (up[c] \o Pieces(f))
    BY <1>3, <1>4 DEF Upstream
  <2>4. QED BY <2>2, <2>3 DEF Upstream
<1>6. Downstream(c)' = Downstream(c)
  BY <1>4 DEF Downstream
<1>7. Accounted(Asked(c) \cup {f}, arrived[c], Upstream(c) \o Pieces(f), client[c])
  <2>1. /\ Asked(c) \in SUBSET Tag /\ arrived[c] \in Seq(Seq(Piece))
        /\ Upstream(c) \in Seq(Piece)
    BY AskedIsTyped, StreamsAreTyped
  <2>2. Accounted(Asked(c), arrived[c], Upstream(c), client[c])
    BY DEF Flow
  <2>3. QED BY <1>2, <1>4, <2>1, <2>2, AskingIsAccounted
<1>8. Flow(c)'
  BY <1>2, <1>4, <1>5, <1>6, <1>7 DEF Flow
<1>9. QED BY <1>2, <1>3, <1>5, <1>6, <1>8 DEF k

LEMMA PollKeepsFlow ==
  ASSUME Types, NEW c \in Conns, Flow(c), PollBytes(c)
  PROVE  UpKept(c) /\ DownKept(c) /\ Flow(c)'
<1>1. PICK n \in 1..Len(down[c]) :
        /\ atClient' = [atClient EXCEPT ![c] = atClient[c] \o SubSeq(down[c], 1, n)]
        /\ down' = [down EXCEPT ![c] = SubSeq(down[c], n + 1, Len(down[c]))]
  BY DEF PollBytes, Poll
<1>2. n \in 0..Len(down[c])
  OBVIOUS
<1>3. DownKept(c)
  BY <1>1, <1>2, DownMoves DEF DownKept
<1>4. /\ up' = up /\ atServer' = atServer /\ client' = client /\ requests' = requests
      /\ arrived' = arrived
  BY DEF PollBytes, Poll, clientVars
<1>5. UpKept(c)
  BY <1>4, RequestsStay DEF UpKept, Upstream
<1>6. QED BY <1>3, <1>4, <1>5, KeptIsAccounted DEF Flow, DownKept

(* A frame the client takes is the first of what comes down, whole.        *)
LEMMA TheReplyIsWhole ==
  ASSUME Types, NEW c \in Conns, Places(c), Flow(c), client[c] = "open", HasFrame(atClient[c])
  PROVE  /\ Downstream(c) # <<>> /\ 1 \in 1..Len(Downstream(c))
         /\ Size(Downstream(c), 1) <= Len(Downstream(c))
         /\ down[c] = SubSeq(Downstream(c), Size(Downstream(c), 1) + 1, Len(Downstream(c)))
         /\ First(atClient[c]) = Pieces(Downstream(c)[1].frame)
         /\ Downstream(c)[1].frame \in Tag
         /\ First(atClient[c])[1].frame = Downstream(c)[1].frame
<1> DEFINE a == atClient[c]
           b == down[c]
           s == Downstream(c)
           z == Length(a)
<1>1. a \in Seq(Piece) /\ b \in Seq(Piece) /\ s \in Seq(Piece) /\ s = a \o b
  BY StreamsAreTyped DEF Downstream
<1>2. Len(a) \in Nat /\ Len(a) >= 2 /\ z = Len(a)
  <2>1. Len(a) \in Nat /\ Len(a) >= 2 /\ z <= Len(a) /\ Len(a) <= z
    BY <1>1, LenProperties DEF HasFrame, HasLength, Places
  <2>2. 1 \in 1..Len(a)
    BY <2>1
  <2>3. z \in Nat
    BY <1>1, <2>2, PieceFields DEF Length, Size
  <2>4. QED BY <2>1, <2>3
<1>3. 1 \in 1..Len(a)
  BY <1>2
<1>4. z = Size(a, 1)
  BY DEF Length, Size
<1>5. z \in 1..Len(a) /\ z \in 0..Len(a)
  BY <1>2
<1>6. First(a) = SubSeq(a, 1, z) /\ SubSeq(a, z + 1, Len(a)) = <<>>
  <2>1. SubSeq(a, z + 1, Len(a)) \in Seq(Piece) /\ Len(SubSeq(a, z + 1, Len(a))) = Len(a) - z
    BY <1>1, <1>5, Remaining
  <2>2. Len(SubSeq(a, z + 1, Len(a))) = 0
    BY <1>2, <2>1
  <2>3. QED BY <2>1, <2>2, EmptySeq DEF First
<1>7. Cut(s)
  BY DEF Flow
<1> HIDE DEF a, b, s, z
<1>8. /\ s # <<>> /\ s[1] = a[1] /\ z \in 1..Len(s)
      /\ SubSeq(a, 1, z) = SubSeq(s, 1, z)
      /\ SubSeq(a, z + 1, Len(a)) \o b = SubSeq(s, z + 1, Len(s))
  <2>1. a \in Seq(Piece) /\ b \in Seq(Piece) /\ z \in 1..Len(a)
    BY <1>1, <1>5
  <2>2. /\ a \o b # <<>> /\ (a \o b)[1] = a[1] /\ z \in 1..Len(a \o b)
        /\ SubSeq(a, 1, z) = SubSeq(a \o b, 1, z)
        /\ SubSeq(a, z + 1, Len(a)) \o b = SubSeq(a \o b, z + 1, Len(a \o b))
    BY <2>1, ReaderIsInFront, Zenon
  <2>3. QED BY <1>1, <2>2, Zenon
<1>9. Size(s, 1) = z /\ z <= Len(s) /\ 1 \in 1..Len(s)
  BY <1>2, <1>4, <1>8 DEF Size
<1>10. /\ SubSeq(s, 1, z) = Pieces(s[1].frame) /\ s[1].frame \in Tag
       /\ SubSeq(s, 1, z)[1] = s[1]
  BY <1>1, <1>7, <1>8, <1>9, FrontIsAFrame
<1>11. b = SubSeq(s, z + 1, Len(s))
  <2>1. <<>> \o b = b
    BY <1>1, ConcatEmptySeq
  <2>2. QED BY <1>6, <1>8, <2>1
<1>12. First(a) = Pieces(s[1].frame) /\ First(a)[1].frame = s[1].frame
  BY <1>6, <1>8, <1>10
<1>13. QED BY <1>8, <1>9, <1>10, <1>11, <1>12 DEF a, b, s, z

LEMMA TakeKeepsFlow ==
  ASSUME Types, NEW c \in Conns, Places(c), Flow(c), TakeFrame(c)
  PROVE  /\ UpKept(c) /\ Flow(c)' /\ client[c] = "open" /\ HasFrame(atClient[c])
         /\ Downstream(c)' = SubSeq(Downstream(c), Size(Downstream(c), 1) + 1,
                                    Len(Downstream(c)))
<1>1. waiting[c] # 0 /\ HasFrame(atClient[c]) /\ client[c] = "open"
  BY DEF TakeFrame, Places
<1>2. /\ up' = up /\ atServer' = atServer /\ client' = client /\ requests' = requests
      /\ arrived' = arrived /\ down' = down /\ atClient'[c] = <<>>
  BY DEF TakeFrame, AfterFrame, Types
<1>3. UpKept(c)
  BY <1>2, RequestsStay DEF UpKept, Upstream
<1>4. Downstream(c)' = down[c]
  BY <1>2, StreamsAreTyped, ConcatEmptySeq DEF Downstream
<1>5. /\ Downstream(c) # <<>> /\ Size(Downstream(c), 1) <= Len(Downstream(c))
      /\ down[c] = SubSeq(Downstream(c), Size(Downstream(c), 1) + 1, Len(Downstream(c)))
  BY <1>1, TheReplyIsWhole
<1>6. Downstream(c) \in Seq(Piece) /\ Cut(Downstream(c)) /\ Complete(Downstream(c))
  BY <1>1, StreamsAreTyped DEF Flow
<1>7. Cut(down[c]) /\ Complete(down[c])
  BY <1>5, <1>6, RestKeepsOrder
<1>8. Flow(c)'
  BY <1>2, <1>3, <1>4, <1>7, KeptIsAccounted DEF Flow
<1>9. QED BY <1>1, <1>3, <1>4, <1>5, <1>8

LEMMA LeaveKeepsFlow ==
  ASSUME Types, NEW c \in Conns, Flow(c), Leave(c)
  PROVE  Flow(c)' /\ client'[c] = "closed"
<1>1. PICK n \in 0..Len(up[c]) : up' = [up EXCEPT ![c] = SubSeq(up[c], 1, n)]
  BY DEF Leave, ClientCloses
<1>2. /\ client[c] = "open" /\ client'[c] = "closed" /\ requests' = requests
      /\ arrived' = arrived /\ atServer' = atServer /\ up'[c] = SubSeq(up[c], 1, n)
  BY <1>1 DEF Leave, ClientCloses, Types
<1> DEFINE m == Len(atServer[c]) + n
<1>3. /\ m \in 0..Len(Upstream(c))
      /\ Upstream(c)' = SubSeq(Upstream(c), 1, m)
  <2>1. /\ atServer[c] \in Seq(Piece) /\ up[c] \in Seq(Piece)
    BY StreamsAreTyped
  <2>2. /\ Len(atServer[c]) + n \in 0..Len(atServer[c] \o up[c])
        /\ atServer[c] \o SubSeq(up[c], 1, n)
             = SubSeq(atServer[c] \o up[c], 1, Len(atServer[c]) + n)
    BY <2>1, StreamBreaksOff
  <2>3. Upstream(c) = atServer[c] \o up[c]
    BY DEF Upstream
  <2>4. Upstream(c)' = atServer[c] \o SubSeq(up[c], 1, n)
    BY <1>2 DEF Upstream
  <2>5. QED BY <2>2, <2>3, <2>4, Zenon
<1>4. /\ Asked(c) \in SUBSET Tag /\ arrived[c] \in Seq(Seq(Piece))
      /\ Upstream(c) \in Seq(Piece)
      /\ Accounted(Asked(c), arrived[c], Upstream(c), client[c])
  BY AskedIsTyped, StreamsAreTyped DEF Flow
<1> HIDE DEF m
<1>5. Accounted(Asked(c), arrived[c], SubSeq(Upstream(c), 1, m), "closed")
  BY <1>2, <1>3, <1>4, BreakingOffIsAccounted
<1>6. Asked(c)' = Asked(c)
  BY <1>2, RequestsStay DEF SameRequests
<1>7. QED BY <1>2, <1>3, <1>5, <1>6 DEF Flow

LEMMA PeerClosedKeepsFlow ==
  ASSUME Types, NEW c \in Conns, Flow(c), PeerClosed(c)
  PROVE  Flow(c)' /\ client'[c] = "closed"
<1>1. /\ client[c] = "open" /\ client'[c] = "closed" /\ requests' = requests
      /\ arrived' = arrived /\ atServer' = atServer /\ up' = up
  BY DEF PeerClosed, Types
<1>2. /\ Asked(c) \in SUBSET Tag /\ arrived[c] \in Seq(Seq(Piece))
      /\ Upstream(c) \in Seq(Piece)
      /\ Accounted(Asked(c), arrived[c], Upstream(c), client[c])
  BY AskedIsTyped, StreamsAreTyped DEF Flow
<1>3. Accounted(Asked(c), arrived[c], Upstream(c), "closed")
  BY <1>1, <1>2, ClosingIsAccounted
<1>4. Asked(c)' = Asked(c) /\ Upstream(c)' = Upstream(c)
  BY <1>1, RequestsStay DEF SameRequests, Upstream
<1>5. QED BY <1>1, <1>3, <1>4 DEF Flow


(* The server's steps.                                                     *)
Replied(c) == Frame("reply", Last(arrived[c])[1].frame.of, 3)
Echoed(c)  == Frame("reply", Request(c), 3)

LEMMA RepliedIsTyped ==
  ASSUME Types, NEW c \in Conns, Places(c), Flow(c), handler[c] = "replying"
  PROVE  /\ Replied(c) \in Tag /\ Replied(c).of = Number(Last(arrived[c]))
         /\ Number(Last(arrived[c])) \in Nat \ {0}
<1>1. Len(arrived[c]) \in 1..Len(arrived[c])
  BY StreamsAreTyped, EmptySeq DEF Places
<1>2. Number(Last(arrived[c])) \in Nat \ {0}
  BY <1>1, ArrivedIsTyped DEF Last
<1>3. QED BY <1>2, FramesAreTags DEF Number, Kind, Replied

LEMMA EchoedIsTyped ==
  ASSUME Types, NEW c \in Conns, Flow(c), HasFrame(atServer[c])
  PROVE  Echoed(c) \in Tag /\ Echoed(c).of = Request(c)
BY TheFirstIsTaken, FramesAreTags DEF Kind, Echoed

LEMMA HandlerMoves ==
  ASSUME Types, NEW c \in Conns, Places(c), Flow(c), HandlerStep(c)
  PROVE  /\ client' = client /\ requests' = requests /\ atClient' = atClient
         /\ SetActive(c) \/ ReadSome(c) \/ HandlerEnds(c) => UpKept(c) /\ DownKept(c)
         /\ WriteFrame(c) => UpKept(c) /\ DownAppended(c, Replied(c))
         /\ AwaitReply(c) \/ StartWorker(c) \/ NoReply(c) => UpTaken(c) /\ DownKept(c)
         /\ Echo(c) => UpTaken(c) /\ DownAppended(c, Echoed(c))
<1>1. client' = client /\ requests' = requests /\ atClient' = atClient
  BY DEF HandlerStep, SetActive, ReadSome, AwaitReply, WriteFrame, Echo, StartWorker,
         NoReply, HandlerEnds, tcpVars, clientVars
<1>2. SameRequests(c)
  BY <1>1, RequestsStay
<1>3. ASSUME down' = down PROVE DownKept(c)
  BY <1>1, <1>3 DEF DownKept, Downstream
<1>4. ASSUME SetActive(c) \/ HandlerEnds(c) PROVE UpKept(c) /\ DownKept(c)
  <2>1. SameStreams(c)
    BY <1>1, <1>4 DEF SetActive, HandlerEnds, SameStreams, tcpVars
  <2>2. QED BY <1>1, <2>1, KeptStreams
<1>5. ASSUME ReadSome(c) PROVE UpKept(c) /\ DownKept(c)
  <2>1. PICK n \in 1..Len(up[c]) :
          /\ atServer' = [atServer EXCEPT ![c] = atServer[c] \o SubSeq(up[c], 1, n)]
          /\ up' = [up EXCEPT ![c] = SubSeq(up[c], n + 1, Len(up[c]))]
    BY <1>5 DEF ReadSome
  <2>2. n \in 0..Len(up[c])
    OBVIOUS
  <2>3. Upstream(c)' = Upstream(c)
    BY <2>1, <2>2, UpMoves
  <2>4. down' = down /\ arrived' = arrived
    BY <1>5 DEF ReadSome
  <2>5. QED BY <1>2, <1>3, <2>3, <2>4 DEF UpKept
<1>6. ASSUME WriteFrame(c) PROVE UpKept(c) /\ DownAppended(c, Replied(c))
  <2>1. /\ up' = up /\ atServer' = atServer /\ arrived' = arrived
        /\ handler[c] = "replying" /\ ToClient(c, Replied(c))
    BY <1>6 DEF WriteFrame, Replied
  <2>2. DownAppended(c, Replied(c))
    BY <1>1, <2>1, RepliedIsTyped, ToClientAppends
  <2>3. QED BY <1>2, <2>1, <2>2 DEF UpKept, Upstream
<1>7. ASSUME AwaitReply(c) \/ StartWorker(c) \/ NoReply(c) PROVE UpTaken(c) /\ DownKept(c)
  <2>1. Takes(c) /\ up' = up /\ down' = down
    BY <1>7 DEF AwaitReply, StartWorker, NoReply
  <2>2. QED BY <1>1, <1>3, <2>1, TakesFromTheStream
<1>8. ASSUME Echo(c) PROVE UpTaken(c) /\ DownAppended(c, Echoed(c))
  <2>1. Takes(c) /\ up' = up /\ ToClient(c, Echoed(c))
    BY <1>8 DEF Echo, Echoed
  <2>2. UpTaken(c)
    BY <1>1, <2>1, TakesFromTheStream
  <2>3. DownAppended(c, Echoed(c))
    BY <1>1, <2>1, <2>2, EchoedIsTyped, ToClientAppends DEF UpTaken
  <2>4. QED BY <2>2, <2>3
<1>9. QED BY <1>1, <1>4, <1>5, <1>6, <1>7, <1>8

LEMMA HandlerStepKeepsFlow ==
  ASSUME Types, NEW c \in Conns, Places(c), Flow(c), HandlerStep(c)
  PROVE  Flow(c)'
<1>1. client'[c] = client[c]
  BY HandlerMoves
<1>2. ASSUME UpKept(c) \/ UpTaken(c)
      PROVE  Accounted(Asked(c), arrived[c], Upstream(c), client[c])'
  BY <1>1, <1>2, KeptIsAccounted, TakenIsAccounted
<1>3. ASSUME DownKept(c), client'[c] = "open"
      PROVE  Cut(Downstream(c))' /\ Complete(Downstream(c))'
  BY <1>1, <1>3 DEF Flow, DownKept
<1>4. CASE SetActive(c) \/ ReadSome(c) \/ HandlerEnds(c)
  BY <1>2, <1>3, <1>4, HandlerMoves DEF Flow
<1>5. CASE AwaitReply(c) \/ StartWorker(c) \/ NoReply(c)
  BY <1>2, <1>3, <1>5, HandlerMoves DEF Flow
<1>6. CASE WriteFrame(c)
  <2>1. UpKept(c) /\ DownAppended(c, Replied(c)) /\ Replied(c) \in Tag
    BY <1>6, HandlerMoves, RepliedIsTyped DEF WriteFrame
  <2>2. ASSUME client'[c] = "open" PROVE Cut(Downstream(c))' /\ Complete(Downstream(c))'
    BY <1>1, <2>1, <2>2, AppendedIsWhole
  <2>3. QED BY <1>2, <2>1, <2>2 DEF Flow
<1>7. CASE Echo(c)
  <2>1. UpTaken(c) /\ DownAppended(c, Echoed(c)) /\ Echoed(c) \in Tag
    BY <1>7, HandlerMoves, EchoedIsTyped DEF UpTaken
  <2>2. ASSUME client'[c] = "open" PROVE Cut(Downstream(c))' /\ Complete(Downstream(c))'
    BY <1>1, <2>1, <2>2, AppendedIsWhole
  <2>3. QED BY <1>2, <2>1, <2>2 DEF Flow
<1>8. QED BY <1>4, <1>5, <1>6, <1>7 DEF HandlerStep

(* A frame from elsewhere: a worker's reply, or a line.                    *)
LEMMA PushKeepsFlow ==
  ASSUME Types, NEW c \in Conns, Flow(c), NEW frame \in Tag,
         ToClient(c, frame) \/ down' = down,
         UNCHANGED <<up, atServer, atClient, client, requests, arrived>>
  PROVE  Flow(c)' /\ UpKept(c) /\ (DownKept(c) \/ DownAppended(c, frame))
<1>1. UpKept(c)
  BY RequestsStay DEF UpKept, Upstream
<1>2. Accounted(Asked(c), arrived[c], Upstream(c), client[c])'
  BY <1>1, KeptIsAccounted
<1>3. CASE down' = down
  <2>1. DownKept(c)
    BY <1>3 DEF DownKept, Downstream
  <2>2. QED BY <1>1, <1>2, <2>1 DEF Flow, DownKept
<1>4. CASE ToClient(c, frame)
  <2>1. DownAppended(c, frame)
    BY <1>4, ToClientAppends
  <2>2. ASSUME client'[c] = "open" PROVE Cut(Downstream(c))' /\ Complete(Downstream(c))'
    BY <2>1, <2>2, AppendedIsWhole
  <2>3. QED BY <1>1, <1>2, <2>1, <2>2 DEF Flow
<1>5. QED BY <1>3, <1>4


-----------------------------------------------------------------------------
(***************************************************************************)
(* Where a step leaves its connection.                                     *)
(***************************************************************************)

(* FrameReader does not read into the next frame.                          *)
LEMMA ReaderStaysInItsFrame ==
  ASSUME NEW a \in Seq(Piece), NEW b \in Seq(Piece), NEW n \in 0..Len(b), n <= Wanted(a),
         HasLength(a \o SubSeq(b, 1, n))
  PROVE  Len(a \o SubSeq(b, 1, n)) <= Length(a \o SubSeq(b, 1, n))
<1> DEFINE m == Len(a)
           t == a \o SubSeq(b, 1, n)
<1>1. m \in Nat /\ n \in Nat /\ Len(b) \in Nat
  OBVIOUS
<1>2. SubSeq(b, 1, n) \in Seq(Piece) /\ Len(SubSeq(b, 1, n)) = n
  BY Beginning
<1>3. /\ t \in Seq(Piece) /\ Len(t) = m + n
      /\ \A i \in 1 .. m + n : t[i] = IF i <= m THEN a[i] ELSE SubSeq(b, 1, n)[i - m]
  BY <1>2, ConcatProperties
<1>4. m + n >= 2 /\ 1 \in 1 .. m + n
  BY <1>1, <1>3 DEF HasLength
<1>5. Length(t) \in Nat /\ Length(t) >= 2
  <2>1. Size(t, 1) \in Nat /\ Size(t, 1) >= 2
    BY <1>3, <1>4, PieceFields
  <2>2. QED BY <2>1 DEF Size, Length
<1> HIDE DEF m, t
<1>6. CASE HasLength(a)
  <2>1. n <= Length(a) - m /\ m >= 2
    BY <1>6 DEF Wanted, HasLength, m
  <2>2. 1 <= m
    BY <1>1, <2>1
  <2>3. t[1] = a[1]
    BY <1>3, <1>4, <2>2
  <2>4. Length(t) = Length(a)
    BY <2>3 DEF Length
  <2>5. QED BY <1>1, <1>3, <1>5, <2>1, <2>4 DEF t
<1>7. CASE ~HasLength(a)
  <2>1. n <= 2 - m
    BY <1>7 DEF Wanted, m
  <2>2. QED BY <1>1, <1>3, <1>5, <2>1 DEF t
<1>8. QED BY <1>6, <1>7

LEMMA ClientStepKeepsPlaces ==
  ASSUME Types, Types', NEW c \in Conns, Places(c), Flow(c), ClientStep(c)
  PROVE  Places(c)'
<1>1. CASE Connect(c)
  <2>1. /\ client[c] = "new" /\ client'[c] = "open" /\ handler'[c] = "started"
        /\ waiting' = waiting /\ closed' = closed /\ atClient' = atClient
        /\ arrived' = arrived
    BY <1>1 DEF Connect, Types, clientVars
  <2>2. c \notin closed
    BY <2>1 DEF Places
  <2>3. QED BY <2>1, <2>2 DEF Places
<1>2. CASE SendFramed(c)
  <2>1. /\ client[c] = "open" /\ client' = client /\ handler' = handler /\ closed' = closed
        /\ atClient' = atClient /\ arrived' = arrived
    BY <1>2 DEF SendFramed, serverVars
  <2>2. QED BY <2>1 DEF Places
<1>3. CASE PollBytes(c)
  <2>1. PICK n \in 1..Len(down[c]) :
          /\ n <= Wanted(atClient[c])
          /\ atClient' = [atClient EXCEPT ![c] = atClient[c] \o SubSeq(down[c], 1, n)]
    BY <1>3 DEF PollBytes, Poll
  <2>2. atClient'[c] = atClient[c] \o SubSeq(down[c], 1, n) /\ n \in 0..Len(down[c])
    <3>1. atClient'[c] = atClient[c] \o SubSeq(down[c], 1, n)
      BY <2>1 DEF Types
    <3>2. n \in 0..Len(down[c])
      OBVIOUS
    <3>3. QED BY <3>1, <3>2
  <2>3. HasLength(atClient'[c]) => Len(atClient'[c]) <= Length(atClient'[c])
    BY <2>1, <2>2, StreamsAreTyped, ReaderStaysInItsFrame
  <2>4. /\ client[c] = "open" /\ client' = client /\ handler' = handler /\ closed' = closed
        /\ waiting' = waiting /\ arrived' = arrived
    BY <1>3 DEF PollBytes, Poll, serverVars, clientVars
  <2>5. QED BY <2>3, <2>4 DEF Places
<1>4. CASE TakeFrame(c)
  <2>1. /\ client' = client /\ handler' = handler /\ closed' = closed /\ arrived' = arrived
        /\ waiting'[c] = 0 /\ atClient'[c] = <<>> /\ waiting[c] # 0
    BY <1>4 DEF TakeFrame, AfterFrame, Types, serverVars
  <2>2. ~HasLength(atClient'[c])
    BY <2>1, EmptySeq DEF HasLength
  <2>3. QED BY <2>1, <2>2 DEF Places
<1>5. CASE GiveUp(c)
  <2>1. /\ client' = client /\ handler' = handler /\ closed' = closed /\ arrived' = arrived
        /\ waiting'[c] = 0 /\ atClient' = atClient /\ client[c] = "open"
    BY <1>5 DEF GiveUp, Types, tcpVars, serverVars
  <2>2. QED BY <2>1 DEF Places
<1>6. CASE Leave(c)
  <2>1. /\ client'[c] = "closed" /\ handler' = handler /\ closed' = closed
        /\ arrived' = arrived /\ waiting'[c] = 0 /\ atClient' = atClient
        /\ client[c] = "open"
    BY <1>6 DEF Leave, ClientCloses, Types, serverVars
  <2>2. QED BY <2>1 DEF Places
<1>7. CASE PeerClosed(c)
  <2>1. /\ client'[c] = "closed" /\ handler' = handler /\ closed' = closed
        /\ arrived' = arrived /\ waiting'[c] = 0 /\ atClient' = atClient
        /\ client[c] = "open"
    BY <1>7 DEF PeerClosed, Types, serverVars
  <2>2. QED BY <2>1 DEF Places
<1>8. QED BY <1>1, <1>2, <1>3, <1>4, <1>5, <1>6, <1>7 DEF ClientStep

LEMMA HandlerStepKeepsPlaces ==
  ASSUME Types, NEW c \in Conns, Places(c), Flow(c), HandlerStep(c)
  PROVE  Places(c)'
<1>1. handler[c] \in {"started", "reading", "replying"}
  BY DEF HandlerStep, SetActive, ReadSome, AwaitReply, WriteFrame, Echo, StartWorker,
         NoReply, HandlerEnds, Takes
<1>2. client[c] # "new" /\ c \notin closed
  BY <1>1 DEF Places
<1>3. client' = client /\ atClient' = atClient /\ waiting' = waiting
  BY DEF HandlerStep, SetActive, ReadSome, AwaitReply, WriteFrame, Echo, StartWorker,
         NoReply, HandlerEnds, tcpVars, clientVars
<1>4. handler'[c] # "none" /\ (c \in closed' => handler'[c] = "done")
  <2>1. CASE SetActive(c)
    BY <1>2, <2>1 DEF SetActive, Types, tcpVars
  <2>2. CASE ReadSome(c)
    BY <1>1, <1>2, <2>2 DEF ReadSome, serverVars
  <2>3. CASE AwaitReply(c)
    BY <1>2, <2>3 DEF AwaitReply, Types
  <2>4. CASE WriteFrame(c)
    BY <1>2, <2>4 DEF WriteFrame, Types
  <2>5. CASE Echo(c)
    BY <1>1, <1>2, <2>5 DEF Echo, serverVars
  <2>6. CASE StartWorker(c)
    BY <1>1, <1>2, <2>6 DEF StartWorker
  <2>7. CASE NoReply(c)
    BY <1>1, <1>2, <2>7 DEF NoReply, serverVars
  <2>8. CASE HandlerEnds(c)
    BY <2>8 DEF HandlerEnds, Types
  <2>9. QED BY <2>1, <2>2, <2>3, <2>4, <2>5, <2>6, <2>7, <2>8 DEF HandlerStep
<1>5. handler'[c] = "replying" => arrived'[c] # <<>>
  <2>1. CASE AwaitReply(c)
    <3>1. /\ arrived' = [arrived EXCEPT ![c] = Append(arrived[c], First(atServer[c]))]
          /\ HasFrame(atServer[c])
      BY <2>1, TakingKeepsTypes DEF AwaitReply
    <3>2. arrived'[c] = Append(arrived[c], First(atServer[c]))
      BY <3>1 DEF Types
    <3>3. First(atServer[c]) \in Seq(Piece) /\ arrived[c] \in Seq(Seq(Piece))
      BY <3>1, TheFirstIsTaken, StreamsAreTyped
    <3>4. QED BY <3>2, <3>3, AppendProperties
  <2>2. CASE ~AwaitReply(c)
    <3>1. handler'[c] # "replying"
      BY <2>2 DEF HandlerStep, SetActive, ReadSome, WriteFrame, Echo, StartWorker, NoReply,
                  HandlerEnds, Takes, serverVars, Types
    <3>2. QED BY <3>1
  <2>3. QED BY <2>1, <2>2
<1>6. QED BY <1>2, <1>3, <1>4, <1>5 DEF Places

LEMMA PushKeepsPlaces ==
  ASSUME Types, NEW c \in Conns, Places(c), NEW frame,
         ToClient(c, frame) \/ down' = down,
         UNCHANGED <<up, atServer, atClient, client, requests, arrived, handler, waiting,
                     closed>>
  PROVE  Places(c)'
<1>1. SentOn(c)' = SentOn(c)
  BY RequestsStay DEF SameRequests
<1>2. client[c] = "new" => down'[c] = down[c]
  BY DEF ToClient
<1>3. QED BY <1>1, <1>2 DEF Places


-----------------------------------------------------------------------------
(***************************************************************************)
(* One request at a time.                                                  *)
(***************************************************************************)
LEMMA RestIsNothing ==
  ASSUME NEW s \in Seq(Piece), Cut(s), s # <<>>, Size(s, 1) <= Len(s),
         \A i \in 1..Len(s) : Size(s, 1) < i => FALSE
  PROVE  SubSeq(s, Size(s, 1) + 1, Len(s)) = <<>>
<1> DEFINE z == Size(s, 1)
           n == Len(s)
           t == SubSeq(s, z + 1, n)
<1>1. z \in Nat /\ n \in Nat /\ z <= n /\ z \in 0..n
  <2>1. Size(s, 1) \in Nat /\ Len(s) \in Nat
    BY FrontFrame
  <2>2. QED BY <2>1
<1>2. t \in Seq(Piece) /\ Len(t) = n - z /\ \A i \in 1 .. n - z : z + i \in 1..n
  BY <1>1, Remaining
<1> HIDE DEF z, t
<1>3. ~\E i : i \in 1 .. n - z
  <2>1. SUFFICES ASSUME NEW i \in 1 .. n - z PROVE FALSE
    OBVIOUS
  <2>2. z + i \in 1..n /\ z < z + i
    BY <1>1, <1>2
  <2>3. QED BY <2>2 DEF z
<1>4. n - z = 0
  <2>1. n - z \in Nat
    BY <1>1
  <2>2. n - z >= 1 => 1 \in 1 .. n - z
    BY <2>1
  <2>3. QED BY <1>3, <2>1, <2>2
<1>5. QED BY <1>2, <1>4, EmptySeq DEF z, t

LEMMA OnlyOneIsAsked ==
  ASSUME NEW s \in Seq(Piece), Cut(s), Rising(s), s # <<>>, Size(s, 1) <= Len(s),
         NEW k, \A i \in 1..Len(s) : Of(s, i) = k
  PROVE  SubSeq(s, Size(s, 1) + 1, Len(s)) = <<>> /\ Of(s, 1) = k
<1>1. 1 \in 1..Len(s)
  BY FrontFrame
<1>2. Of(s, 1) = k /\ Of(s, 1) \in Nat
  BY <1>1, PieceFields
<1>3. ASSUME NEW i \in 1..Len(s), Size(s, 1) < i PROVE FALSE
  <2>1. Of(s, 1) < Of(s, i)
    BY <1>3, FrontIsLowest
  <2>2. QED BY <1>2, <2>1
<1>4. QED BY <1>2, <1>3, RestIsNothing

LEMMA OnlyOneIsAnswered ==
  ASSUME NEW s \in Seq(Piece), Cut(s), s # <<>>, Size(s, 1) <= Len(s),
         \A i \in 1..Len(s) : Start(s, i) = 0
  PROVE  SubSeq(s, Size(s, 1) + 1, Len(s)) = <<>>
<1>1. Size(s, 1) \in Nat /\ Size(s, 1) >= 2
  BY FrontFrame
<1>2. ASSUME NEW i \in 1..Len(s), Size(s, 1) < i PROVE FALSE
  <2>1. Size(s, 1) <= Start(s, i)
    BY <1>2, BehindTheFront
  <2>2. QED BY <1>1, <2>1
<1>3. QED BY <1>2, RestIsNothing

LEMMA AloneInTheStream ==
  ASSUME NEW f \in Tag
  PROVE  /\ <<>> \o Pieces(f) = Pieces(f)
         /\ \A i \in 1..Len(Pieces(f)) : Of(Pieces(f), i) = f.of /\ Start(Pieces(f), i) = 0
<1>1. /\ Pieces(f) \in Seq(Piece) /\ Len(Pieces(f)) = f.size
      /\ \A i \in 1..f.size : Pieces(f)[i].frame = f /\ Start(Pieces(f), i) = 0
  BY PiecesOfFrame
<1>2. <<>> \o Pieces(f) = Pieces(f)
  BY <1>1, ConcatEmptySeq
<1>3. QED BY <1>1, <1>2 DEF Of

LEMMA NothingIsEmpty == ~\E i : i \in 1..Len(<<>>)
<1>1. Len(<<>>) = 0
  BY EmptySeq
<1>2. ~\E i : i \in 1..0
  OBVIOUS
<1>3. QED BY <1>1, <1>2

LEMMA JobsAreTyped ==
  ASSUME Types, NEW c
  PROVE  \A k \in Jobs(c) : k \in Nat \ {0}
BY WorkersAreTyped DEF Jobs

(* A worker has a request that was sent.                                   *)
LEMMA NobodyWorksForTheNew ==
  ASSUME Types, Employed, NEW c \in Conns, Places(c), Flow(c), client[c] = "new"
  PROVE  Jobs(c) = {}
<1>1. SUFFICES ASSUME NEW w \in workers, w.conn = c PROVE FALSE
  BY DEF Jobs
<1>2. PICK i \in 1..Len(arrived[c]) : Number(arrived[c][i]) = w.request
  BY <1>1 DEF Employed
<1>3. \E k \in SentOn(c) : arrived[c][i] = Bytes(k)
  BY ArrivedIsTyped
<1>4. QED BY <1>3 DEF Places

(* A client that waits for nothing has nothing under way.                  *)
LEMMA NothingIsUnderWay ==
  ASSUME Types, NEW c \in Conns, Places(c), Flow(c), InTurn(c), Undisturbed(c),
         waiting[c] = 0
  PROVE  /\ Upstream(c) = <<>> /\ Downstream(c) = <<>> /\ Jobs(c) = {}
         /\ handler[c] # "replying"
<1>1. /\ \A i \in 1..Len(Upstream(c)) : Of(Upstream(c), i) = 0
      /\ \A i \in 1..Len(Downstream(c)) : Of(Downstream(c), i) = 0
      /\ Jobs(c) \subseteq {0}
      /\ handler[c] = "replying" => Number(Last(arrived[c])) = 0
  BY DEF InTurn, OnePlace
<1>2. ASSUME NEW s \in Seq(Piece), \A i \in 1..Len(s) : Of(s, i) = 0 PROVE s = <<>>
  <2>1. SUFFICES ASSUME s # <<>> PROVE FALSE
    OBVIOUS
  <2>2. 1 \in 1..Len(s)
    BY <2>1, EmptySeq
  <2>3. Of(s, 1) >= 1
    BY <2>2, PieceFields
  <2>4. QED BY <1>2, <2>2, <2>3
<1>3. Upstream(c) = <<>> /\ Downstream(c) = <<>>
  BY <1>1, <1>2, StreamsAreTyped
<1>4. Jobs(c) = {}
  BY <1>1, JobsAreTyped
<1>5. handler[c] # "replying"
  BY <1>1, RepliedIsTyped
<1>6. QED BY <1>3, <1>4, <1>5

LEMMA ClientStepKeepsTurn ==
  ASSUME Types, Types', Employed, NEW c \in Conns, Places(c), Flow(c), InTurn(c),
         ClientStep(c)
  PROVE  InTurn(c)'
<1> SUFFICES ASSUME Undisturbed(c)'
             PROVE  /\ OnePlace(waiting'[c], Upstream(c)', Downstream(c)', Jobs(c)',
                                handler'[c])
                    /\ handler'[c] = "replying" => Number(Last(arrived'[c])) = waiting'[c]
  BY DEF InTurn
<1>1. /\ workers' = workers /\ lines' = lines /\ late \subseteq late'
      /\ client'[c] = "open" /\ c \notin late' /\ lines' = 0
  BY DEF ClientStep, Connect, SendFramed, PollBytes, TakeFrame, GiveUp, Leave, PeerClosed,
         serverVars, clientVars, Undisturbed
<1>2. Jobs(c)' = Jobs(c)
  BY <1>1, JobsStay
<1>3. CASE Connect(c)
  <2>1. Upstream(c)' = <<>> /\ Downstream(c)' = <<>>
    BY <1>3, ConnectKeepsFlow
  <2>2. Jobs(c)' = {} /\ handler'[c] = "started"
    BY <1>2, <1>3, NobodyWorksForTheNew DEF Connect, Types
  <2>3. QED BY <2>1, <2>2, NothingIsEmpty DEF OnePlace
<1>4. CASE SendFramed(c)
  <2>1. /\ waiting[c] = 0 /\ client' = client /\ handler' = handler /\ late' = late
    BY <1>4 DEF SendFramed, serverVars
  <2>2. Undisturbed(c)
    BY <1>1, <2>1 DEF Undisturbed
  <2>3. /\ Upstream(c) = <<>> /\ Downstream(c) = <<>> /\ Jobs(c) = {}
        /\ handler[c] # "replying"
    BY <2>1, <2>2, NothingIsUnderWay
  <2>4. PICK f \in Tag : /\ f.of = Len(requests) + 1
                         /\ Upstream(c)' = Upstream(c) \o Pieces(f)
    BY <1>4, SendKeepsFlow
  <2>5. waiting'[c] = Len(requests) + 1 /\ Downstream(c)' = Downstream(c)
    BY <1>4, SendKeepsFlow
  <2>6. Upstream(c)' = Pieces(f)
    BY <2>3, <2>4, AloneInTheStream
  <2>7. \A i \in 1..Len(Pieces(f)) : Of(Pieces(f), i) = waiting'[c]
    BY <2>4, <2>5, AloneInTheStream
  <2>8. QED BY <1>2, <2>1, <2>3, <2>5, <2>6, <2>7, NothingIsEmpty DEF OnePlace
<1>5. CASE PollBytes(c)
  <2>1. UpKept(c) /\ DownKept(c)
    BY <1>5, PollKeepsFlow
  <2>2. /\ client' = client /\ handler' = handler /\ late' = late /\ waiting' = waiting
    BY <1>5 DEF PollBytes, Poll, serverVars, clientVars
  <2>3. Undisturbed(c)
    BY <1>1, <2>2 DEF Undisturbed
  <2>4. QED BY <1>2, <2>1, <2>2, <2>3 DEF UpKept, DownKept, InTurn
<1>6. CASE TakeFrame(c)
  <2>1. /\ UpKept(c) /\ client[c] = "open" /\ HasFrame(atClient[c])
        /\ Downstream(c)' = SubSeq(Downstream(c), Size(Downstream(c), 1) + 1,
                                   Len(Downstream(c)))
    BY <1>6, TakeKeepsFlow
  <2>2. handler' = handler /\ late' = late
    BY <1>6 DEF TakeFrame, serverVars
  <2>3. Undisturbed(c)
    BY <1>1, <2>1, <2>2 DEF Undisturbed
  <2>4. Downstream(c) # <<>> /\ Size(Downstream(c), 1) <= Len(Downstream(c))
    BY <2>1, TheReplyIsWhole
  <2>5. /\ \A i \in 1..Len(Downstream(c)) : Start(Downstream(c), i) = 0
        /\ Upstream(c) = <<>> /\ Jobs(c) = {} /\ handler[c] # "replying"
    BY <2>3, <2>4 DEF InTurn, OnePlace
  <2>6. Downstream(c)' = <<>>
    BY <2>1, <2>4, <2>5, StreamsAreTyped, OnlyOneIsAnswered DEF Flow
  <2>7. Upstream(c)' = <<>>
    BY <2>1, <2>5 DEF UpKept
  <2>8. QED BY <1>2, <2>2, <2>5, <2>6, <2>7, NothingIsEmpty DEF OnePlace
<1>7. CASE GiveUp(c)
  BY <1>1, <1>7 DEF GiveUp
<1>8. CASE Leave(c)
  BY <1>1, <1>8, LeaveKeepsFlow
<1>9. CASE PeerClosed(c)
  BY <1>1, <1>9, PeerClosedKeepsFlow
<1>10. QED BY <1>3, <1>4, <1>5, <1>6, <1>7, <1>8, <1>9 DEF ClientStep


(* The only request under way is taken: nothing else is.                   *)
LEMMA TheOnlyOneIsTaken ==
  ASSUME Types, NEW c \in Conns, Places(c), Flow(c), InTurn(c), Undisturbed(c), UpTaken(c)
  PROVE  /\ Upstream(c)' = <<>> /\ Downstream(c) = <<>> /\ Jobs(c) = {}
         /\ Request(c) = waiting[c] /\ Number(Last(arrived'[c])) = waiting[c]
<1> DEFINE s == Upstream(c)
           k == waiting[c]
           p == SubSeq(s, 1, Size(s, 1))
<1>1. /\ s # <<>> /\ Size(s, 1) <= Len(s) /\ Request(c) = Of(s, 1)
      /\ p \in Seq(Piece) /\ Number(p) = Of(s, 1)
  BY TheFirstIsTaken DEF UpTaken
<1>2. /\ \A i \in 1..Len(s) : Of(s, i) = k
      /\ Downstream(c) = <<>> /\ Jobs(c) = {}
  BY <1>1 DEF InTurn, OnePlace
<1>3. s \in Seq(Piece) /\ Cut(s) /\ Rising(s) /\ arrived[c] \in Seq(Seq(Piece))
  BY StreamsAreTyped DEF Flow, Accounted
<1>4. arrived'[c] = Append(arrived[c], p) /\ Upstream(c)' = SubSeq(s, Size(s, 1) + 1, Len(s))
  BY DEF UpTaken
<1> HIDE DEF s, k, p
<1>5. SubSeq(s, Size(s, 1) + 1, Len(s)) = <<>> /\ Of(s, 1) = k
  BY <1>1, <1>2, <1>3, OnlyOneIsAsked
<1>6. Last(Append(arrived[c], p)) = p
  <2>1. /\ Len(Append(arrived[c], p)) = Len(arrived[c]) + 1
        /\ Append(arrived[c], p)[Len(arrived[c]) + 1] = p
    BY <1>1, <1>3, AppendProperties
  <2>2. QED BY <2>1 DEF Last
<1>7. QED BY <1>1, <1>2, <1>4, <1>5, <1>6 DEF k

LEMMA HandlerStepKeepsTurn ==
  ASSUME Types, Types', NEW c \in Conns, Places(c), Flow(c), InTurn(c), HandlerStep(c)
  PROVE  InTurn(c)'
<1> SUFFICES ASSUME Undisturbed(c)'
             PROVE  /\ OnePlace(waiting'[c], Upstream(c)', Downstream(c)', Jobs(c)',
                                handler'[c])
                    /\ handler'[c] = "replying" => Number(Last(arrived'[c])) = waiting'[c]
  BY DEF InTurn
<1>1. client' = client /\ lines' = lines /\ late' = late /\ waiting' = waiting
  BY DEF HandlerStep, SetActive, ReadSome, AwaitReply, WriteFrame, Echo, StartWorker,
         NoReply, HandlerEnds, tcpVars, serverVars, clientVars
<1>2. Undisturbed(c) /\ client[c] = "open"
  BY <1>1 DEF Undisturbed
<1>3. ~StartWorker(c) => Jobs(c)' = Jobs(c)
  <2>1. ~StartWorker(c) => workers' = workers
    BY DEF HandlerStep, SetActive, ReadSome, AwaitReply, WriteFrame, Echo, NoReply,
           HandlerEnds, serverVars
  <2>2. QED BY <2>1, JobsStay
<1>4. CASE SetActive(c) \/ ReadSome(c) \/ HandlerEnds(c)
  <2>1. UpKept(c) /\ DownKept(c)
    BY <1>4, HandlerMoves
  <2>2. ~StartWorker(c) /\ handler[c] # "replying" /\ handler'[c] # "replying"
    BY <1>4 DEF SetActive, ReadSome, HandlerEnds, StartWorker, Takes, serverVars, Types
  <2>3. Jobs(c)' = Jobs(c)
    BY <1>3, <2>2
  <2>4. OnePlace(waiting[c], Upstream(c), Downstream(c), Jobs(c), handler[c])
    BY <1>2 DEF InTurn
  <2>5. OnePlace(waiting[c], Upstream(c), Downstream(c), Jobs(c), handler'[c])
    BY <2>2, <2>4 DEF OnePlace
  <2>6. QED BY <1>1, <2>1, <2>2, <2>3, <2>5 DEF UpKept, DownKept
<1>5. CASE AwaitReply(c)
  <2>1. UpTaken(c) /\ DownKept(c)
    BY <1>5, HandlerMoves
  <2>2. ~StartWorker(c)
    BY <1>5 DEF AwaitReply, StartWorker
  <2>3. /\ Upstream(c)' = <<>> /\ Downstream(c) = <<>> /\ Jobs(c) = {}
        /\ Number(Last(arrived'[c])) = waiting[c]
    BY <1>2, <2>1, TheOnlyOneIsTaken
  <2>4. QED BY <1>1, <1>3, <2>1, <2>2, <2>3, NothingIsEmpty DEF OnePlace, DownKept
<1>6. CASE StartWorker(c)
  <2>1. UpTaken(c) /\ DownKept(c)
    BY <1>6, HandlerMoves
  <2>2. /\ Upstream(c)' = <<>> /\ Downstream(c) = <<>> /\ Jobs(c) = {}
        /\ Request(c) = waiting[c]
    BY <1>2, <2>1, TheOnlyOneIsTaken
  <2>3. Jobs(c)' = Jobs(c) \cup {Request(c)}
    BY <1>6, JobsGrow DEF StartWorker
  <2>4. handler' = handler /\ handler[c] = "reading"
    BY <1>6 DEF StartWorker, Takes
  <2>5. QED BY <1>1, <2>1, <2>2, <2>3, <2>4, NothingIsEmpty DEF OnePlace, DownKept
<1>7. CASE NoReply(c)
  <2>1. UpTaken(c) /\ DownKept(c)
    BY <1>7, HandlerMoves
  <2>2. handler' = handler /\ handler[c] = "reading" /\ workers' = workers
    BY <1>7 DEF NoReply, Takes, serverVars
  <2>3. /\ Upstream(c)' = <<>> /\ Downstream(c) = <<>> /\ Jobs(c) = {}
    BY <1>2, <2>1, TheOnlyOneIsTaken
  <2>4. Jobs(c)' = {}
    BY <2>2, <2>3, JobsStay
  <2>5. QED BY <2>1, <2>2, <2>3, <2>4, NothingIsEmpty DEF OnePlace, DownKept
<1>8. CASE Echo(c)
  <2>1. UpTaken(c) /\ DownAppended(c, Echoed(c))
    BY <1>8, HandlerMoves
  <2>2. handler' = handler /\ handler[c] = "reading" /\ workers' = workers
    BY <1>8 DEF Echo, Takes, serverVars
  <2>3. /\ Upstream(c)' = <<>> /\ Downstream(c) = <<>> /\ Jobs(c) = {}
        /\ Request(c) = waiting[c]
    BY <1>2, <2>1, TheOnlyOneIsTaken
  <2>4. Jobs(c)' = {}
    BY <2>2, <2>3, JobsStay
  <2>5. Echoed(c) \in Tag /\ Echoed(c).of = waiting[c]
    BY <2>1, <2>3, EchoedIsTyped DEF UpTaken
  <2>6. Downstream(c)' = Pieces(Echoed(c))
    BY <1>2, <2>1, <2>3, <2>5, AloneInTheStream DEF DownAppended
  <2>7. \A i \in 1..Len(Pieces(Echoed(c))) :
          Of(Pieces(Echoed(c)), i) = waiting[c] /\ Start(Pieces(Echoed(c)), i) = 0
    BY <2>5, AloneInTheStream
  <2>8. QED BY <1>1, <2>2, <2>3, <2>4, <2>6, <2>7, NothingIsEmpty DEF OnePlace
<1>9. CASE WriteFrame(c)
  <2>1. UpKept(c) /\ DownAppended(c, Replied(c))
    BY <1>9, HandlerMoves
  <2>2. handler[c] = "replying" /\ handler'[c] = "reading" /\ ~StartWorker(c)
    BY <1>9 DEF WriteFrame, StartWorker, Takes, Types
  <2>3. /\ Upstream(c) = <<>> /\ Downstream(c) = <<>> /\ Jobs(c) = {}
        /\ Number(Last(arrived[c])) = waiting[c]
    BY <1>2, <2>2 DEF InTurn, OnePlace
  <2>4. Replied(c) \in Tag /\ Replied(c).of = waiting[c]
    BY <2>2, <2>3, RepliedIsTyped
  <2>5. Downstream(c)' = Pieces(Replied(c))
    BY <1>2, <2>1, <2>3, <2>4, AloneInTheStream DEF DownAppended
  <2>6. \A i \in 1..Len(Pieces(Replied(c))) :
          Of(Pieces(Replied(c)), i) = waiting[c] /\ Start(Pieces(Replied(c)), i) = 0
    BY <2>4, AloneInTheStream
  <2>7. Upstream(c)' = <<>> /\ Jobs(c)' = {}
    BY <1>3, <2>1, <2>2, <2>3 DEF UpKept
  <2>8. QED BY <1>1, <2>2, <2>5, <2>6, <2>7, NothingIsEmpty DEF OnePlace
<1>10. QED BY <1>4, <1>5, <1>6, <1>7, <1>8, <1>9 DEF HandlerStep

(* A worker ends, with a reply or without.                                 *)
WorkerFrame(w) == Frame("reply", w.request, 3)

LEMMA WorkerEndsInTurn ==
  ASSUME Types, Types', Employed, NEW w \in workers, NEW c, c = w.conn,
         Places(c), Flow(c), InTurn(c), WorkerDies(w) \/ WorkerReplies(w)
  PROVE  Places(c)' /\ Flow(c)' /\ InTurn(c)'
<1>1. c \in Conns /\ w.request \in Nat \ {0} /\ w.request \in Jobs(c)
  BY WorkersAreTyped
<1>2. WorkerFrame(w) \in Tag /\ WorkerFrame(w).of = w.request
  BY <1>1, FramesAreTags DEF Kind, WorkerFrame
<1>3. /\ UNCHANGED <<up, atServer, atClient, client, requests, arrived, handler, waiting,
                     closed, late, lines>>
      /\ workers' = workers \ {w}
  BY DEF WorkerDies, WorkerReplies, tcpVars, clientVars
<1>4. ToClient(c, WorkerFrame(w)) \/ down' = down
  BY DEF WorkerDies, WorkerReplies, tcpVars, WorkerFrame
<1>5. Places(c)'
  BY <1>1, <1>3, <1>4, PushKeepsPlaces
<1>6. Flow(c)' /\ UpKept(c) /\ (DownKept(c) \/ DownAppended(c, WorkerFrame(w)))
  BY <1>1, <1>2, <1>3, <1>4, PushKeepsFlow
<1>7. InTurn(c)'
  <2> SUFFICES ASSUME Undisturbed(c)'
               PROVE  /\ OnePlace(waiting'[c], Upstream(c)', Downstream(c)', Jobs(c)',
                                  handler'[c])
                      /\ handler'[c] = "replying" => Number(Last(arrived'[c])) = waiting'[c]
    BY DEF InTurn
  <2>1. Undisturbed(c) /\ client[c] = "open"
    BY <1>3 DEF Undisturbed
  <2>2. /\ Jobs(c) \subseteq {waiting[c]} /\ Upstream(c) = <<>> /\ Downstream(c) = <<>>
        /\ handler[c] # "replying"
    BY <1>1, <2>1 DEF InTurn, OnePlace
  <2>3. w.request = waiting[c] /\ Jobs(c)' = {}
    BY <1>1, <1>3, <2>2, JobsShrink
  <2>4. Upstream(c)' = <<>>
    BY <1>6, <2>2 DEF UpKept
  <2>5. \A i \in 1..Len(Downstream(c)') :
          Of(Downstream(c)', i) = waiting[c] /\ Start(Downstream(c)', i) = 0
    <3>1. CASE DownKept(c)
      BY <2>2, <3>1, NothingIsEmpty DEF DownKept
    <3>2. CASE DownAppended(c, WorkerFrame(w))
      <4>1. Downstream(c)' = Pieces(WorkerFrame(w))
        BY <1>2, <2>1, <2>2, <3>2, AloneInTheStream DEF DownAppended
      <4>2. QED BY <1>2, <2>3, <4>1, AloneInTheStream
    <3>3. QED BY <1>6, <3>1, <3>2
  <2>6. QED BY <1>3, <2>2, <2>3, <2>4, <2>5, NothingIsEmpty DEF OnePlace
<1>8. QED BY <1>5, <1>6, <1>7

LEMMA LineInTurn ==
  ASSUME Types, SendLine, NEW c \in Conns, Places(c), Flow(c), InTurn(c), c = target
  PROVE  /\ Places(c)' /\ Flow(c)' /\ InTurn(c)'
         /\ DownKept(c) \/ DownAppended(c, Frame("line", lines, 3))
<1> DEFINE f == Frame("line", lines, 3)
<1>1. lines' = lines /\ lines \in Nat \ {0} /\ f \in Tag
  BY SendLineKeepsTypes DEF SendLine
<1>2. UNCHANGED <<up, atServer, atClient, client, requests, arrived, handler, waiting, closed>>
  BY DEF SendLine, clientVars
<1>3. ToClient(c, f) \/ down' = down
  BY DEF SendLine
<1> HIDE DEF f
<1>4. Places(c)' /\ Flow(c)' /\ (DownKept(c) \/ DownAppended(c, f))
  BY <1>1, <1>2, <1>3, PushKeepsPlaces, PushKeepsFlow
<1>5. InTurn(c)'
  BY <1>1 DEF InTurn, Undisturbed
<1>6. QED BY <1>4, <1>5 DEF f


LEMMA StepKeepsConnections ==
  ASSUME TcpInvariant, Next, NEW d \in Conns
  PROVE  Places(d)' /\ Flow(d)' /\ InTurn(d)'
<1>1. /\ Types /\ Types' /\ Employed /\ Places(d) /\ Flow(d) /\ InTurn(d)
      /\ \A c \in Conns : Places(c) /\ Flow(c)
  BY StepKeepsTypes DEF TcpInvariant
<1>2. ASSUME Untouched(d) PROVE Places(d)' /\ Flow(d)' /\ InTurn(d)'
  BY <1>1, <1>2, UntouchedStays
<1>3. ASSUME NEW c \in Conns, ClientStep(c) PROVE Places(d)' /\ Flow(d)' /\ InTurn(d)'
  <2>1. CASE d # c
    BY <1>1, <1>2, <1>3, <2>1, ClientStepLeavesOthers
  <2>2. CASE d = c
    <3>1. Flow(c)'
      <4>1. CASE GiveUp(c)
        <5>1. SameStreams(c) /\ requests' = requests
          BY <4>1 DEF GiveUp, SameStreams, tcpVars
        <5>2. UpKept(c) /\ DownKept(c) /\ client'[c] = client[c]
          BY <5>1, KeptStreams DEF SameStreams
        <5>3. QED BY <1>1, <5>2, KeptIsAccounted DEF Flow, DownKept
      <4>2. CASE ~GiveUp(c)
        BY <1>1, <1>3, <4>2, ConnectKeepsFlow, SendKeepsFlow, PollKeepsFlow, TakeKeepsFlow,
           LeaveKeepsFlow, PeerClosedKeepsFlow DEF ClientStep
      <4>3. QED BY <4>1, <4>2
    <3>2. Places(c)' /\ InTurn(c)'
      BY <1>1, <1>3, <2>2, ClientStepKeepsPlaces, ClientStepKeepsTurn
    <3>3. QED BY <2>2, <3>1, <3>2
  <2>3. QED BY <2>1, <2>2
<1>4. ASSUME NEW c \in Conns, HandlerStep(c) PROVE Places(d)' /\ Flow(d)' /\ InTurn(d)'
  <2>1. CASE d # c
    BY <1>1, <1>2, <1>4, <2>1, HandlerStepLeavesOthers
  <2>2. CASE d = c
    BY <1>1, <1>4, <2>2, HandlerStepKeepsFlow, HandlerStepKeepsPlaces, HandlerStepKeepsTurn
  <2>3. QED BY <2>1, <2>2
<1>5. ASSUME NEW w \in workers, WorkerStep(w) PROVE Places(d)' /\ Flow(d)' /\ InTurn(d)'
  <2>1. CASE d # w.conn \/ Acquire(w)
    BY <1>1, <1>2, <1>5, <2>1, WorkerStepLeavesOthers
  <2>2. CASE d = w.conn /\ ~Acquire(w)
    BY <1>1, <1>5, <2>2, WorkerEndsInTurn DEF WorkerStep
  <2>3. QED BY <2>1, <2>2
<1>6. ASSUME TypeLine \/ SendLine PROVE Places(d)' /\ Flow(d)' /\ InTurn(d)'
  <2>1. CASE TypeLine \/ (SendLine /\ d # target)
    BY <1>1, <1>2, <2>1, TypeLineLeavesAll, SendLineLeavesOthers
  <2>2. CASE SendLine /\ d = target
    BY <1>1, <2>2, LineInTurn
  <2>3. QED BY <1>6, <2>1, <2>2
<1>7. QED BY <1>3, <1>4, <1>5, <1>6 DEF Next

-----------------------------------------------------------------------------
(***************************************************************************)
(* Workers, permits, the active client, and what was taken.                *)
(***************************************************************************)
LEMMA ArrivalsStay ==
  ASSUME TcpInvariant, Next, NEW d \in Conns, NEW i \in 1..Len(arrived[d])
  PROVE  i \in 1..Len(arrived'[d]) /\ arrived'[d][i] = arrived[d][i]
<1>1. CASE arrived'[d] = arrived[d]
  BY <1>1
<1>2. CASE arrived'[d] # arrived[d]
  <2>1. /\ Types /\ Flow(d) /\ \A c \in Conns : Flow(c)
    BY DEF TcpInvariant
  <2>2. PICK c \in Conns : Takes(c)
    <3>1. arrived' # arrived
      BY <1>2
    <3>2. QED BY ZenonT(40), <3>1 DEF Next, ClientStep, HandlerStep, WorkerStep, TypeLine, SendLine, Connect,
                 SendFramed, PollBytes, TakeFrame, GiveUp, Leave, PeerClosed, SetActive,
                 ReadSome, AwaitReply, WriteFrame, Echo, StartWorker, NoReply, HandlerEnds,
                 Acquire, WorkerDies, WorkerReplies
  <2>3. /\ arrived' = [arrived EXCEPT ![c] = Append(arrived[c], First(atServer[c]))]
        /\ HasFrame(atServer[c])
    BY <2>1, <2>2, TakingKeepsTypes
  <2>4. c = d /\ arrived'[d] = Append(arrived[d], First(atServer[d]))
    BY <1>2, <2>1, <2>3 DEF Types
  <2>5. arrived[d] \in Seq(Seq(Piece)) /\ First(atServer[d]) \in Seq(Piece)
    BY <2>1, <2>3, <2>4, StreamsAreTyped, TheFirstIsTaken
  <2>6. /\ Len(arrived'[d]) = Len(arrived[d]) + 1
        /\ \A j \in 1..Len(arrived[d]) : arrived'[d][j] = arrived[d][j]
    BY <2>4, <2>5, AppendProperties
  <2>7. Len(arrived[d]) \in Nat
    BY <2>5, LenProperties
  <2>8. QED BY <2>6, <2>7
<1>3. QED BY <1>1, <1>2

LEMMA StepKeepsEmployed ==
  ASSUME TcpInvariant, Next
  PROVE  Employed'
<1>1. Types /\ Employed /\ \A c \in Conns : Places(c) /\ Flow(c)
  BY DEF TcpInvariant
<1>2. ASSUME NEW w \in workers
      PROVE  \E i \in 1..Len(arrived'[w.conn]) : Number(arrived'[w.conn][i]) = w.request
  <2>1. w.conn \in Conns
    BY <1>1, WorkersAreTyped
  <2>2. PICK i \in 1..Len(arrived[w.conn]) : Number(arrived[w.conn][i]) = w.request
    BY <1>1 DEF Employed
  <2>3. i \in 1..Len(arrived'[w.conn]) /\ arrived'[w.conn][i] = arrived[w.conn][i]
    BY <2>1, ArrivalsStay
  <2>4. QED BY <2>2, <2>3
<1>3. \A v, w \in workers : v.conn = w.conn /\ v.request = w.request => v = w
  BY <1>1 DEF Employed
<1>4. CASE \E c \in Conns : StartWorker(c)
  <2>1. PICK c \in Conns : StartWorker(c)
    BY <1>4
  <2> DEFINE u == [conn |-> c, request |-> Request(c), step |-> "waiting"]
             n == Len(arrived[c])
             p == First(atServer[c])
  <2>2. u.conn = c /\ u.request = Request(c)
    OBVIOUS
  <2>3. workers' = workers \cup {u}
    BY <2>1 DEF StartWorker
  <2>4. HandlerStep(c) /\ Takes(c)
    BY <2>1 DEF HandlerStep, StartWorker
  <2>5. /\ arrived' = [arrived EXCEPT ![c] = Append(arrived[c], p)] /\ HasFrame(atServer[c])
    BY <1>1, <2>4, TakingKeepsTypes
  <2>6. p \in Seq(Piece) /\ arrived[c] \in Seq(Seq(Piece)) /\ Number(p) = Request(c)
    BY <1>1, <2>5, TheFirstIsTaken, StreamsAreTyped
  <2>7. arrived'[c] = Append(arrived[c], p)
    BY <1>1, <2>5 DEF Types
  <2>8. Len(arrived'[c]) = n + 1 /\ arrived'[c][n + 1] = p /\ n \in Nat
    BY <2>6, <2>7, AppendProperties, LenProperties
  <2>9. \A i \in 1..n : Number(arrived[c][i]) < Request(c)
    <3>1. /\ Upstream(c) # <<>> /\ Size(Upstream(c), 1) <= Len(Upstream(c))
          /\ Request(c) = Of(Upstream(c), 1)
      BY <1>1, <2>5, TheFirstIsTaken
    <3>2. /\ Asked(c) \in SUBSET Tag /\ Upstream(c) \in Seq(Piece)
          /\ Accounted(Asked(c), arrived[c], Upstream(c), client[c])
      BY <1>1, AskedIsTyped, StreamsAreTyped DEF Flow
    <3>3. QED BY <2>6, <3>1, <3>2, TakingIsAccounted
  <2> HIDE DEF u, n, p
  <2>10. n + 1 \in 1..Len(arrived'[c]) /\ Number(arrived'[c][n + 1]) = u.request
    BY <2>2, <2>6, <2>8
  <2>11. ASSUME NEW w \in workers, w.conn = c PROVE w.request # Request(c)
    <3>1. PICK i \in 1..n : Number(arrived[c][i]) = w.request
      BY <1>1, <2>11 DEF Employed, n
    <3>2. Number(arrived[c][i]) < Request(c) /\ Number(arrived[c][i]) \in Nat
      BY <1>1, <2>9, <3>1, ArrivedIsTyped DEF n
    <3>3. QED BY <3>1, <3>2
  <2>12. \A w \in workers' :
           \E i \in 1..Len(arrived'[w.conn]) : Number(arrived'[w.conn][i]) = w.request
    BY <1>2, <2>2, <2>3, <2>10
  <2>13. \A v, w \in workers' : v.conn = w.conn /\ v.request = w.request => v = w
    BY <1>3, <2>2, <2>3, <2>11
  <2>14. QED BY <2>12, <2>13 DEF Employed
<1>5. CASE \E w \in workers : Acquire(w)
  <2>1. PICK w \in workers : Acquire(w)
    BY <1>5
  <2> DEFINE u == [w EXCEPT !.step = "calling"]
  <2>2. u.conn = w.conn /\ u.request = w.request
    BY <1>1, WorkersAreTyped DEF Worker
  <2>3. workers' = (workers \ {w}) \cup {u}
    BY <2>1 DEF Acquire
  <2> HIDE DEF u
  <2>4. \A x \in workers' :
          \E i \in 1..Len(arrived'[x.conn]) : Number(arrived'[x.conn][i]) = x.request
    BY <1>2, <2>2, <2>3
  <2>5. \A v, x \in workers' : v.conn = x.conn /\ v.request = x.request => v = x
    BY <1>3, <2>2, <2>3
  <2>6. QED BY <2>4, <2>5 DEF Employed
<1>6. CASE ~(\E c \in Conns : StartWorker(c)) /\ ~(\E w \in workers : Acquire(w))
  <2>1. workers' \subseteq workers
    BY ZenonT(40), <1>6 DEF Next, ClientStep, HandlerStep, WorkerStep, TypeLine, SendLine, Connect, SendFramed,
                PollBytes, TakeFrame, GiveUp, Leave, PeerClosed, SetActive, ReadSome,
                AwaitReply, WriteFrame, Echo, NoReply, HandlerEnds, WorkerDies,
                WorkerReplies, serverVars
  <2>2. QED BY <1>2, <1>3, <2>1 DEF Employed
<1>7. QED BY <1>4, <1>5, <1>6

(* The permits.                                                            *)
Callers(ws) == {w \in ws : w.step = "calling"}

LEMMA StepKeepsPermits ==
  ASSUME TcpInvariant, Next
  PROVE  PermitsAreHeldByCalls'
<1>1. Types /\ Employed /\ Cardinality(Callers(workers)) + permits = Permits
  BY DEF TcpInvariant, PermitsAreHeldByCalls, Callers
<1>2. /\ IsFiniteSet(Callers(workers)) /\ Cardinality(Callers(workers)) \in Nat
      /\ permits \in Nat
  BY <1>1, FS_Subset, FS_CardinalityType DEF Types, Callers
<1>3. SUFFICES Cardinality(Callers(workers')) + permits' = Permits
  BY DEF PermitsAreHeldByCalls, Callers
<1>4. CASE \E w \in workers : Acquire(w)
  <2>1. PICK w \in workers : Acquire(w)
    BY <1>4
  <2> DEFINE u == [w EXCEPT !.step = "calling"]
  <2>2. /\ u.conn = w.conn /\ u.request = w.request /\ u.step = "calling"
        /\ w.step = "waiting"
    BY <1>1, <2>1, WorkersAreTyped DEF Worker, Acquire
  <2>3. workers' = (workers \ {w}) \cup {u} /\ permits' = permits - 1
    BY <2>1 DEF Acquire
  <2> HIDE DEF u
  <2>4. Callers(workers') = Callers(workers) \cup {u}
    BY <2>2, <2>3 DEF Callers
  <2>5. u \notin Callers(workers)
    BY <1>1, <2>2 DEF Callers, Employed
  <2>6. Cardinality(Callers(workers')) = Cardinality(Callers(workers)) + 1
    BY <1>2, <2>4, <2>5, FS_AddElement
  <2>7. QED BY <1>1, <1>2, <2>3, <2>6
<1>5. CASE \E w \in workers : WorkerDies(w) \/ WorkerReplies(w)
  <2>1. PICK w \in workers : WorkerDies(w) \/ WorkerReplies(w)
    BY <1>5
  <2>2. w.step = "calling" /\ workers' = workers \ {w} /\ permits' = permits + 1
    BY <2>1 DEF WorkerDies, WorkerReplies
  <2>3. Callers(workers') = Callers(workers) \ {w} /\ w \in Callers(workers)
    BY <2>2 DEF Callers
  <2>4. Cardinality(Callers(workers')) = Cardinality(Callers(workers)) - 1
    BY <1>2, <2>3, FS_RemoveElement
  <2>5. QED BY <1>1, <1>2, <2>2, <2>4
<1>6. CASE \E c \in Conns : StartWorker(c)
  <2>1. PICK c \in Conns : StartWorker(c)
    BY <1>6
  <2> DEFINE u == [conn |-> c, request |-> Request(c), step |-> "waiting"]
  <2>2. u.step = "waiting"
    OBVIOUS
  <2>3. workers' = workers \cup {u} /\ permits' = permits
    BY <2>1 DEF StartWorker
  <2> HIDE DEF u
  <2>4. Callers(workers') = Callers(workers)
    BY <2>2, <2>3 DEF Callers
  <2>5. QED BY <1>1, <2>3, <2>4
<1>7. CASE workers' = workers /\ permits' = permits
  BY <1>1, <1>7
<1>8. QED BY ZenonT(40), <1>4, <1>5, <1>6, <1>7
      DEF Next, ClientStep, HandlerStep, WorkerStep, TypeLine, SendLine, Connect, SendFramed,
          PollBytes, TakeFrame, GiveUp, Leave, PeerClosed, SetActive, ReadSome,
          AwaitReply, WriteFrame, Echo, NoReply, HandlerEnds, tcpVars, serverVars


(* The client registered last.                                             *)
LEMMA StepKeepsRegistered ==
  ASSUME TcpInvariant, Next
  PROVE  Registered'
<1> DEFINE n == Len(registered)
<1>1. /\ Types /\ Registered /\ LatestIsActive /\ registered \in Seq(Conns) /\ n \in Nat
      /\ handler \in [Conns -> {"none", "started", "reading", "replying", "done"}]
  BY LenProperties DEF TcpInvariant, Registered, Types
<1>2. \A i \in 1..n : registered[i] \in Conns
  BY <1>1, ElementOfSeq
<1>3. registered # <<>> => Last(registered) \in Conns /\ n \in 1..n
  BY <1>1, <1>2, EmptySeq DEF Last
<1>4. ASSUME registered' = registered, active' = active,
             \A c \in Conns : handler[c] \notin {"none", "started"} =>
                                /\ handler'[c] \notin {"none", "started"}
                                /\ handler'[c] = "done" <=> handler[c] = "done"
      PROVE  Registered'
  <2>1. \A i \in 1..n : handler'[registered[i]] \notin {"none", "started"}
    BY <1>1, <1>2, <1>4 DEF Registered
  <2>2. registered # <<>> =>
          (handler'[Last(registered)] = "done" <=> handler[Last(registered)] = "done")
    BY <1>1, <1>2, <1>3, <1>4 DEF Registered, Last
  <2>3. LatestIsActive'
    BY <1>1, <1>4, <2>2 DEF LatestIsActive, Latest
  <2>4. QED BY <1>1, <1>4, <2>1, <2>3 DEF Registered
<1>5. ASSUME NEW c \in Conns, SetActive(c) PROVE Registered'
  <2>1. /\ handler[c] = "started" /\ handler' = [handler EXCEPT ![c] = "reading"]
        /\ handler'[c] = "reading"
    BY <1>1, <1>5 DEF SetActive
  <2>2. CASE mode = "phone"
    <3>1. registered' = registered /\ active' = active
      BY <1>5, <2>2 DEF SetActive
    <3>2. QED BY <1>1, <1>4, <2>1, <3>1
  <2>3. CASE mode # "phone"
    <3>1. active' = c /\ registered' = Append(registered, c)
      BY <1>5, <2>3 DEF SetActive
    <3>2. /\ Len(registered') = n + 1 /\ registered' # <<>>
          /\ \A i \in 1..n : registered'[i] = registered[i]
          /\ registered'[n + 1] = c
      BY <1>1, <3>1, AppendProperties
    <3>3. Last(registered') = c
      BY <3>2 DEF Last
    <3>4. \A i \in 1..n : handler'[registered[i]] \notin {"none", "started"}
      BY <1>1, <1>2, <2>1 DEF Registered
    <3>5. \A i \in 1..Len(registered') : i \in 1..n \/ i = n + 1
      BY <1>1, <3>2
    <3>6. \A i \in 1..Len(registered') : handler'[registered'[i]] \notin {"none", "started"}
      BY <2>1, <3>2, <3>4, <3>5
    <3>7. LatestIsActive'
      BY <2>1, <3>1, <3>3 DEF LatestIsActive, Latest
    <3>8. QED BY <3>2, <3>6, <3>7 DEF Registered
  <2>4. QED BY <2>2, <2>3
<1>6. ASSUME NEW c \in Conns, HandlerEnds(c) PROVE Registered'
  <2>1. /\ handler[c] = "reading" /\ handler' = [handler EXCEPT ![c] = "done"]
        /\ handler'[c] = "done" /\ registered' = registered /\ active' = ActiveWithout(c)
    BY <1>1, <1>6 DEF HandlerEnds
  <2>2. \A i \in 1..n : handler'[registered[i]] \notin {"none", "started"}
    BY <1>1, <1>2, <2>1 DEF Registered
  <2>3. registered = <<>> => active' = 0
    BY <1>1, <2>1 DEF Registered, ActiveWithout
  <2>4. ASSUME registered # <<>>
        PROVE  active' = (IF handler'[Last(registered)] = "done" THEN 0
                                                                 ELSE Last(registered))
    <3>1. active = (IF handler[Last(registered)] = "done" THEN 0 ELSE Last(registered))
      BY <1>1, <2>4 DEF LatestIsActive, Latest
    <3>2. CASE Last(registered) = c
      BY <2>1, <3>1, <3>2 DEF ActiveWithout
    <3>3. CASE Last(registered) # c
      <4>1. handler'[Last(registered)] = handler[Last(registered)]
        BY <1>1, <1>3, <2>1, <2>4, <3>3
      <4>2. active # c
        BY <3>1, <3>3, ConstantsAreTyped
      <4>3. QED BY <2>1, <3>1, <4>1, <4>2 DEF ActiveWithout
    <3>4. QED BY <3>2, <3>3
  <2>5. QED BY <2>1, <2>2, <2>3, <2>4 DEF Registered, LatestIsActive, Latest
<1>7. CASE \E c \in Conns : SetActive(c) \/ HandlerEnds(c)
  BY <1>5, <1>6, <1>7
<1>8. CASE \E c \in Conns : AwaitReply(c) \/ WriteFrame(c) \/ Connect(c)
  <2>1. PICK c \in Conns : AwaitReply(c) \/ WriteFrame(c) \/ Connect(c)
    BY <1>8
  <2>2. registered' = registered /\ active' = active
    BY <2>1 DEF AwaitReply, WriteFrame, Connect
  <2>3. \A d \in Conns : d # c => handler'[d] = handler[d]
    BY <1>1, <2>1 DEF AwaitReply, WriteFrame, Connect
  <2>4. \/ handler[c] = "reading" /\ handler'[c] = "replying"
        \/ handler[c] = "replying" /\ handler'[c] = "reading"
        \/ handler[c] = "none"
    BY <1>1, <2>1 DEF AwaitReply, WriteFrame, Connect, Takes, TcpInvariant, Places
  <2>5. QED BY <1>4, <2>2, <2>3, <2>4
<1>9. CASE UNCHANGED <<registered, active, handler>>
  BY <1>4, <1>9
<1>10. QED BY <1>7, <1>8, <1>9
       DEF Next, ClientStep, HandlerStep, WorkerStep, TypeLine, SendLine, SendFramed,
           PollBytes, TakeFrame, GiveUp, Leave, PeerClosed, ReadSome, Echo, StartWorker,
           NoReply, Acquire, WorkerDies, WorkerReplies, tcpVars, serverVars

(* A frame that is taken is whole, and the answer while nothing went wrong. *)
LEMMA StepKeepsReplies ==
  ASSUME TcpInvariant, Next
  PROVE  RepliesArriveWhole'
<1>1. /\ Types /\ RepliesArriveWhole
      /\ \A c \in Conns : Places(c) /\ Flow(c) /\ InTurn(c)
  BY DEF TcpInvariant
<1>2. lines \in Nat /\ lines' \in Nat /\ lines' >= lines
  <2>1. lines \in 0..MaxLines /\ lines' \in 0..MaxLines /\ MaxLines \in Nat
    BY <1>1, StepKeepsTypes, ConstantsAreTyped DEF Types
  <2>2. lines' = lines \/ lines' = lines + 1
    BY ZenonT(40) DEF Next, ClientStep, HandlerStep, WorkerStep, TypeLine, SendLine, Connect, SendFramed,
           PollBytes, TakeFrame, GiveUp, Leave, PeerClosed, SetActive, ReadSome,
           AwaitReply, WriteFrame, Echo, StartWorker, NoReply, HandlerEnds, Acquire,
           WorkerDies, WorkerReplies, serverVars
  <2>3. QED BY <2>1, <2>2
<1>3. ASSUME NEW t \in taken
      PROVE  /\ IsGenuine(t.pieces)
             /\ t.late \/ lines' > 0 \/ t.pieces[1].frame.of = t.request
  BY <1>1, <1>2 DEF RepliesArriveWhole
<1>4. CASE \E c \in Conns : TakeFrame(c)
  <2>1. PICK c \in Conns : TakeFrame(c)
    BY <1>4
  <2> DEFINE t == [conn |-> c, request |-> waiting[c], late |-> c \in late,
                   pieces |-> First(atClient[c])]
             f == Downstream(c)[1].frame
  <2>2. taken' = taken \cup {t} /\ lines' = lines
    BY <2>1 DEF TakeFrame, serverVars
  <2>3. /\ t.request = waiting[c] /\ (t.late <=> c \in late)
        /\ t.pieces = First(atClient[c])
    OBVIOUS
  <2> HIDE DEF t
  <2>4. client[c] = "open" /\ HasFrame(atClient[c])
    BY <1>1, <2>1, TakeKeepsFlow
  <2>5. /\ First(atClient[c]) = Pieces(f) /\ f \in Tag
        /\ First(atClient[c])[1].frame = f
        /\ 1 \in 1..Len(Downstream(c))
    BY <1>1, <2>4, TheReplyIsWhole
  <2>6. IsGenuine(t.pieces)
    BY <2>3, <2>5 DEF IsGenuine
  <2>7. ASSUME ~t.late, ~(lines' > 0)
        PROVE  t.pieces[1].frame.of = t.request
    <3>1. lines = 0 /\ c \notin late
      BY <1>2, <2>2, <2>3, <2>7
    <3>2. Undisturbed(c)
      BY <2>4, <3>1 DEF Undisturbed
    <3>3. Of(Downstream(c), 1) = waiting[c]
      BY <1>1, <2>5, <3>2 DEF InTurn, OnePlace
    <3>4. QED BY <2>3, <2>5, <3>3 DEF Of
  <2>8. QED BY <1>3, <2>2, <2>6, <2>7 DEF RepliesArriveWhole
<1>5. CASE taken' = taken
  BY <1>3, <1>5 DEF RepliesArriveWhole
<1>6. QED BY ZenonT(40), <1>4, <1>5
      DEF Next, ClientStep, HandlerStep, WorkerStep, TypeLine, SendLine, Connect, SendFramed,
          PollBytes, GiveUp, Leave, PeerClosed, SetActive, ReadSome, AwaitReply,
          WriteFrame, Echo, StartWorker, NoReply, HandlerEnds, Acquire, WorkerDies,
          WorkerReplies, clientVars

-----------------------------------------------------------------------------
(***************************************************************************)
(* The theorems.                                                           *)
(***************************************************************************)
LEMMA InitialState == Init => TcpInvariant
<1> SUFFICES ASSUME Init PROVE TcpInvariant
  OBVIOUS
<1>1. /\ MaxRequests \in Nat /\ MaxLines \in Nat /\ Permits \in Nat
  BY ConstantsAreTyped
<1>2. /\ <<>> \in Seq(Piece) /\ <<>> \in Seq(Seq(Piece)) /\ <<>> \in Seq(RequestRecord)
      /\ <<>> \in Seq(Conns) /\ Len(<<>>) = 0
  BY EmptySeq
<1>3. Types
  <2>1. IsFiniteSet({})
    BY FS_EmptySet
  <2>2. QED BY <1>1, <1>2, <2>1 DEF Init, TcpInit, Types
<1>4. ASSUME NEW c \in Conns PROVE Places(c) /\ Flow(c) /\ InTurn(c)
  <2>1. /\ up[c] = <<>> /\ down[c] = <<>> /\ atServer[c] = <<>> /\ atClient[c] = <<>>
        /\ client[c] = "new" /\ handler[c] = "none" /\ waiting[c] = 0 /\ arrived[c] = <<>>
        /\ closed = {} /\ requests = <<>>
    BY DEF Init, TcpInit
  <2>2. SentOn(c) = {} /\ Asked(c) = {}
    BY <1>2, <2>1 DEF SentOn, Asked
  <2>3. Upstream(c) = <<>> /\ Downstream(c) = <<>>
    BY <2>1, EmptyStream DEF Upstream, Downstream
  <2>4. Places(c)
    BY <1>2, <2>1, <2>2 DEF Places, HasLength
  <2>5. Accounted({}, <<>>, <<>>, "new")
    BY EmptyIsWhole, NothingIsEmpty DEF Accounted, Genuine, InOrder
  <2>6. QED BY <2>1, <2>2, <2>3, <2>4, <2>5 DEF Flow, InTurn, Undisturbed
<1>5. Employed /\ RepliesArriveWhole
  BY DEF Init, Employed, RepliesArriveWhole
<1>6. Registered
  BY <1>2 DEF Init, Registered, LatestIsActive, Latest
<1>7. PermitsAreHeldByCalls
  <2>1. {w \in workers : w.step = "calling"} = {} /\ permits = Permits
    BY DEF Init
  <2>2. QED BY <1>1, <2>1, FS_EmptySet DEF PermitsAreHeldByCalls
<1>8. QED BY <1>3, <1>4, <1>5, <1>6, <1>7 DEF TcpInvariant

LEMMA StepKeepsInvariant == TcpInvariant /\ [Next]_vars => TcpInvariant'
<1>1. ASSUME TcpInvariant, Next PROVE TcpInvariant'
  BY <1>1, StepKeepsTypes, StepKeepsConnections, StepKeepsEmployed, StepKeepsRegistered,
     StepKeepsPermits, StepKeepsReplies DEF TcpInvariant
<1>2. ASSUME TcpInvariant, UNCHANGED vars PROVE TcpInvariant'
  <2>1. \A c \in Conns : Untouched(c)
    <3>1. TAKE c \in Conns
    <3>2. requests' = requests /\ workers' = workers
      BY <1>2 DEF vars, clientVars, serverVars
    <3>3. SameRequests(c) /\ Jobs(c)' = Jobs(c)
      BY <3>2, RequestsStay, JobsStay
    <3>4. QED BY <1>2, <3>3 DEF vars, tcpVars, clientVars, serverVars, Untouched, SameStreams
  <2>2. \A c \in Conns : Places(c)' /\ Flow(c)' /\ InTurn(c)'
    BY <1>2, <2>1, UntouchedStays DEF TcpInvariant
  <2>3. Types'
    BY <1>2 DEF TcpInvariant, Types, vars, tcpVars, clientVars, serverVars
  <2>4. Employed'
    BY <1>2 DEF TcpInvariant, Employed, vars, serverVars
  <2>5. Registered'
    BY <1>2 DEF TcpInvariant, Registered, LatestIsActive, Latest, vars, serverVars
  <2>6. PermitsAreHeldByCalls' /\ RepliesArriveWhole'
    BY <1>2 DEF TcpInvariant, PermitsAreHeldByCalls, RepliesArriveWhole, vars, serverVars,
                clientVars
  <2>7. QED BY <2>2, <2>3, <2>4, <2>5, <2>6 DEF TcpInvariant
<1>3. QED BY <1>1, <1>2

(* The inductive invariant of the two servers and their clients.           *)
THEOREM TcpInvariantHolds == Spec => []TcpInvariant
BY InitialState, StepKeepsInvariant, PTL DEF Spec

(* TcpServers' types: no reader of frames holds more than a frame, nothing *)
(* is under way on a connection that was never made, permits never exceed  *)
(* _LLM_INFLIGHT, and workers have requests that were sent.                *)
THEOREM ServersAreTyped == Spec => []TypeOK
<1>1. TcpInvariant => TypeOK
  <2> SUFFICES ASSUME TcpInvariant PROVE TypeOK
    OBVIOUS
  <2>1. /\ Types /\ Employed /\ PermitsAreHeldByCalls
        /\ \A c \in Conns : Places(c) /\ Flow(c)
    BY DEF TcpInvariant
  <2>2. TcpTypeOK
    BY <2>1 DEF TcpTypeOK, Types, Places
  <2>3. permits \in 0..Permits
    <3>1. IsFiniteSet({w \in workers : w.step = "calling"})
      BY <2>1, FS_Subset DEF Types
    <3>2. Cardinality({w \in workers : w.step = "calling"}) \in Nat
      BY <3>1, FS_CardinalityType
    <3>3. permits \in Nat /\ Permits \in Nat
      BY <2>1, ConstantsAreTyped DEF Types
    <3>4. QED BY <2>1, <3>2, <3>3 DEF PermitsAreHeldByCalls
  <2>4. ASSUME NEW w \in workers
        PROVE  w.step \in {"waiting", "calling"} /\ w.request <= Len(requests)
    <3>1. w.conn \in Conns /\ w.step \in {"waiting", "calling"}
      BY <2>1, WorkersAreTyped
    <3>2. PICK i \in 1..Len(arrived[w.conn]) : Number(arrived[w.conn][i]) = w.request
      BY <2>1 DEF Employed
    <3>3. w.request \in 1..Len(requests)
      BY <2>1, <3>1, <3>2, ArrivedIsTyped
    <3>4. Len(requests) \in Nat
      BY <2>1, LenProperties DEF Types
    <3>5. QED BY <3>1, <3>3, <3>4
  <2>5. \A c \in closed : handler[c] = "done"
    BY <2>1 DEF Types, Places
  <2>6. QED BY <2>1, <2>2, <2>3, <2>4, <2>5 DEF TypeOK, Types
<1>2. QED BY <1>1, TcpInvariantHolds, PTL

(* However TCP cuts and joins the bytes, both servers take the frames of a *)
(* connection whole, each once, in the order they were sent and leaving    *)
(* none out, and what they have not taken is still there while the client  *)
(* is: RequestsArriveInOrder.                                              *)
THEOREM RequestsComeInOrder == Spec => []RequestsArriveInOrder
<1>1. TcpInvariant => RequestsArriveInOrder
  <2> SUFFICES ASSUME TcpInvariant, NEW c \in Conns
               PROVE  /\ \A i \in DOMAIN arrived[c] : \E k \in SentOn(c) : arrived[c][i] = Bytes(k)
                      /\ \A i, j \in DOMAIN arrived[c] :
                           i < j => Number(arrived[c][i]) < Number(arrived[c][j])
                      /\ \A k \in SentOn(c) :
                           \/ Bytes(k) \in Range(arrived[c])
                           \/ /\ \A i \in DOMAIN arrived[c] : Number(arrived[c][i]) < k
                              /\ client[c] = "open" =>
                                   Range(Bytes(k)) \subseteq Range(atServer[c] \o up[c])
    BY DEF RequestsArriveInOrder
  <2> DEFINE s == Upstream(c)
  <2>1. /\ Types /\ Flow(c) /\ Accounted(Asked(c), arrived[c], s, client[c])
    BY DEF TcpInvariant, Flow
  <2>2. s \in Seq(Piece) /\ DOMAIN arrived[c] = 1..Len(arrived[c]) /\ DOMAIN s = 1..Len(s)
    BY <2>1, StreamsAreTyped, LenProperties
  <2>3. \A i \in DOMAIN arrived[c] : \E k \in SentOn(c) : arrived[c][i] = Bytes(k)
    BY <2>1, <2>2, ArrivedIsTyped
  <2>4. \A i, j \in DOMAIN arrived[c] : i < j => Number(arrived[c][i]) < Number(arrived[c][j])
    BY <2>1, <2>2 DEF Accounted, InOrder
  <2>5. ASSUME NEW k \in SentOn(c), Bytes(k) \notin Range(arrived[c])
        PROVE  /\ \A i \in DOMAIN arrived[c] : Number(arrived[c][i]) < k
               /\ client[c] = "open" => Range(Bytes(k)) \subseteq Range(atServer[c] \o up[c])
    <3> DEFINE f == RequestFrame(k)
    <3>1. f \in Asked(c) /\ f \in Tag /\ f.of = k /\ Bytes(k) = Pieces(f)
      <4>1. k \in 1..Len(requests) /\ f \in Asked(c)
        BY DEF SentOn, Asked
      <4>2. QED BY <2>1, <4>1, RequestsAreTyped DEF Bytes, RequestFrame
    <3> HIDE DEF f
    <3>2. Found(f, arrived[c], s, client[c])
      BY <2>1, <3>1 DEF Accounted
    <3>3. ~\E i \in 1..Len(arrived[c]) : arrived[c][i] = Pieces(f)
      BY <2>2, <2>5, <3>1 DEF Range
    <3>4. CASE \E i \in 1..Len(s) : s[i].frame = f
      <4>1. PICK i \in 1..Len(s) : s[i].frame = f
        BY <3>4
      <4>2. \A j \in 1..Len(arrived[c]) : Number(arrived[c][j]) < k
        BY <2>1, <3>1, <4>1 DEF Accounted, InOrder, Of
      <4>3. ASSUME client[c] = "open", NEW p \in Range(Pieces(f))
            PROVE  p \in Range(s)
        <5>1. /\ Pieces(f) \in Seq(Piece) /\ Len(Pieces(f)) = f.size
              /\ f.size \in Nat
              /\ \A q \in 1..f.size : Pieces(f)[q].frame = f /\ Pieces(f)[q].part = q
          BY <3>1, PiecesOfFrame
        <5>2. DOMAIN Pieces(f) = 1..f.size
          BY <5>1, LenProperties
        <5>3. PICK q \in 1..f.size : p = Pieces(f)[q]
          BY <5>2 DEF Range
        <5> DEFINE b == Start(s, i)
        <5>4. /\ b \in Int /\ 0 <= b /\ b + f.size <= Len(s) /\ Len(s) \in Nat /\ q \in Nat
          <6>1. Start(s, i) \in Int
            BY <2>2, PieceFields
          <6>2. 0 <= Start(s, i) /\ Start(s, i) + Size(s, i) <= Len(s)
            BY <2>1, <4>3 DEF Accounted, Cut, Complete
          <6>3. QED BY <2>2, <4>1, <5>1, <6>1, <6>2, LenProperties DEF Size
        <5> HIDE DEF b
        <5>5. b + q \in 1..Len(s) /\ b < b + q /\ b + q <= b + f.size
          BY <5>1, <5>4
        <5>6. s[b + q].frame = f /\ Start(s, b + q) = b
          BY <2>1, <4>1, <5>5 DEF Accounted, Cut, Size, b
        <5>7. s[b + q].part = q /\ s[b + q] \in Piece
          <6>1. s[b + q].part = (b + q) - Start(s, b + q) /\ s[b + q] \in Piece
            BY <2>2, <5>5, PieceFields
          <6>2. QED BY <5>4, <5>6, <6>1
        <5>8. p \in Piece /\ p.frame = f /\ p.part = q
          BY <5>1, <5>3, ElementOfSeq
        <5>9. p = s[b + q]
          BY <5>6, <5>7, <5>8 DEF Piece
        <5>10. QED BY <2>2, <5>5, <5>9 DEF Range
      <4>4. QED BY <2>2, <3>1, <4>2, <4>3 DEF Upstream
    <3>5. CASE /\ client[c] # "open"
               /\ \A i \in 1..Len(arrived[c]) : Number(arrived[c][i]) < f.of
      BY <2>2, <3>1, <3>5
    <3>6. QED BY <3>2, <3>3, <3>4, <3>5 DEF Found
  <2>6. QED BY <2>3, <2>4, <2>5
<1>2. QED BY <1>1, TcpInvariantHolds, PTL

(* FrameReader hands out whole frames, the answer to the request the       *)
(* client waits for unless it gave one up or somebody typed a line.        *)
THEOREM RepliesComeWhole == Spec => []RepliesArriveWhole
<1>1. TcpInvariant => RepliesArriveWhole
  BY DEF TcpInvariant
<1>2. QED BY <1>1, TcpInvariantHolds, PTL

(* There are as many model calls as permits are out, whatever ends a       *)
(* worker.                                                                 *)
THEOREM PermitsAreReturned == Spec => []PermitsAreHeldByCalls
<1>1. TcpInvariant => PermitsAreHeldByCalls
  BY DEF TcpInvariant
<1>2. QED BY <1>1, TcpInvariantHolds, PTL

-----------------------------------------------------------------------------
(***************************************************************************)
(* The terminal.  Beside the invariant: what is typed goes to the client   *)
(* it was read for, and what was sent stays until it is taken.             *)
(***************************************************************************)
Taken(c) == UNION {Range(t.pieces) : t \in {u \in taken : u.conn = c}}

Routed ==
  \A c \in Conns : \A piece \in Delivered(c) :
    piece.frame.kind = "line" =>
      piece.frame.of \in 1..lines /\ typed[piece.frame.of] = c

Received ==
  \A k \in DOMAIN typed : \A c \in Conns :
    typed[k] = c /\ client[c] = "open" /\ c \notin closed =>
      (target = c /\ k = lines) \/ Range(Line(k)) \subseteq Delivered(c)

Terminal ==
  /\ target # 0 => target = typed[lines]
  /\ \A k \in 1..lines : typed[k] # 0 => client[typed[k]] # "new"
  /\ Routed /\ Received

LEMMA DeliveredIsSplit ==
  ASSUME NEW c
  PROVE  Delivered(c) = Range(Downstream(c)) \cup Taken(c)
BY DEF Delivered, Downstream, Taken

LEMMA KeptIsDelivered ==
  ASSUME NEW c, DownKept(c), taken' = taken
  PROVE  Delivered(c)' = Delivered(c)
BY DeliveredIsSplit DEF DownKept, Delivered, Downstream, Taken

LEMMA RangeOfConcat ==
  ASSUME NEW s \in Seq(Piece), NEW t \in Seq(Piece)
  PROVE  Range(s \o t) = Range(s) \cup Range(t)
<1>1. /\ s \o t \in Seq(Piece) /\ Len(s \o t) = Len(s) + Len(t)
      /\ Len(s) \in Nat /\ Len(t) \in Nat
      /\ DOMAIN s = 1..Len(s) /\ DOMAIN t = 1..Len(t) /\ DOMAIN (s \o t) = 1..(Len(s) + Len(t))
      /\ \A i \in 1..(Len(s) + Len(t)) :
           (s \o t)[i] = IF i <= Len(s) THEN s[i] ELSE t[i - Len(s)]
  BY ConcatProperties, LenProperties
<1>2. ASSUME NEW p \in Range(s \o t) PROVE p \in Range(s) \cup Range(t)
  <2>1. PICK i \in 1..(Len(s) + Len(t)) : p = (s \o t)[i]
    BY <1>1 DEF Range
  <2>2. CASE i <= Len(s)
    <3>1. i \in DOMAIN s /\ p = s[i]
      BY <1>1, <2>1, <2>2
    <3>2. QED BY <3>1 DEF Range
  <2>3. CASE ~(i <= Len(s))
    <3>1. i - Len(s) \in DOMAIN t /\ p = t[i - Len(s)]
      BY <1>1, <2>1, <2>3
    <3>2. QED BY <3>1 DEF Range
  <2>4. QED BY <2>2, <2>3
<1>3. ASSUME NEW p \in Range(s) PROVE p \in Range(s \o t)
  <2>1. PICK i \in 1..Len(s) : p = s[i]
    BY <1>1 DEF Range
  <2>2. i \in DOMAIN (s \o t) /\ p = (s \o t)[i]
    BY <1>1, <2>1
  <2>3. QED BY <2>2 DEF Range
<1>4. ASSUME NEW p \in Range(t) PROVE p \in Range(s \o t)
  <2>1. PICK i \in 1..Len(t) : p = t[i]
    BY <1>1 DEF Range
  <2>2. i + Len(s) \in DOMAIN (s \o t) /\ p = (s \o t)[i + Len(s)]
    BY <1>1, <2>1
  <2>3. QED BY <2>2 DEF Range
<1>5. QED BY <1>2, <1>3, <1>4

LEMMA AppendedIsDelivered ==
  ASSUME Types, NEW c \in Conns, NEW f \in Tag, DownAppended(c, f), taken' = taken
  PROVE  /\ client[c] = "open" => Delivered(c)' = Delivered(c) \cup Range(Pieces(f))
         /\ client[c] # "open" => Delivered(c)' = Delivered(c)
<1>1. Taken(c)' = Taken(c)
  BY DEF Taken
<1>2. Delivered(c)' = Range(Downstream(c)') \cup Taken(c)'
  BY DEF Delivered, Downstream, Taken
<1>3. CASE client[c] = "open"
  <2>1. Downstream(c)' = Downstream(c) \o Pieces(f)
    BY <1>3 DEF DownAppended
  <2>2. Downstream(c) \in Seq(Piece) /\ Pieces(f) \in Seq(Piece)
    BY StreamsAreTyped, PiecesOfFrame
  <2>3. Range(Downstream(c)') = Range(Downstream(c)) \cup Range(Pieces(f))
    BY <2>1, <2>2, RangeOfConcat
  <2>4. QED BY <1>1, <1>2, <1>3, <2>3, DeliveredIsSplit
<1>4. CASE client[c] # "open"
  BY <1>1, <1>2, <1>4, DeliveredIsSplit DEF DownAppended
<1>5. QED BY <1>3, <1>4

(* What a client takes it has.                                             *)
LEMMA TakenIsDelivered ==
  ASSUME Types, NEW c \in Conns, Places(c), Flow(c), TakeFrame(c), NEW d \in Conns
  PROVE  Delivered(d)' = Delivered(d)
<1> DEFINE t == [conn |-> c, request |-> waiting[c], late |-> c \in late,
                 pieces |-> First(atClient[c])]
<1>1. taken' = taken \cup {t} /\ t.conn = c /\ t.pieces = First(atClient[c])
  BY DEF TakeFrame
<1> HIDE DEF t
<1>2. /\ down' = down /\ HasFrame(atClient[c]) /\ client[c] = "open"
      /\ atClient'[c] = <<>> /\ \A e \in Conns : e # c => atClient'[e] = atClient[e]
  BY DEF TakeFrame, AfterFrame, Types, Places
<1>3. CASE d # c
  <2>1. {u \in taken' : u.conn = d} = {u \in taken : u.conn = d}
    BY <1>1, <1>3
  <2>2. Taken(d)' = Taken(d) /\ Downstream(d)' = Downstream(d)
    BY <1>2, <1>3, <2>1 DEF Taken, Downstream
  <2>3. QED BY <2>2 DEF Delivered, Taken, Downstream
<1>4. CASE d = c
  <2>1. First(atClient[c]) = atClient[c]
    <3>1. atClient[c] \in Seq(Piece) /\ Len(atClient[c]) \in Nat
      BY StreamsAreTyped, LenProperties
    <3>2. Len(atClient[c]) >= 2 /\ Len(atClient[c]) >= Length(atClient[c])
      BY <1>2 DEF HasFrame, HasLength
    <3>3. Len(atClient[c]) <= Length(atClient[c])
      BY <1>2 DEF HasFrame, Places
    <3>4. atClient[c][1] \in Piece
      BY <3>1, <3>2, ElementOfSeq
    <3>5. Length(atClient[c]) \in Nat
      BY <3>4 DEF Length, Piece, Tag
    <3>6. Length(atClient[c]) = Len(atClient[c])
      BY <3>1, <3>2, <3>3, <3>5
    <3>7. QED BY <3>1, <3>6, SubSeqFull DEF First
  <2>2. {u \in taken' : u.conn = c} = {u \in taken : u.conn = c} \cup {t}
    BY <1>1
  <2>3. Taken(c)' = Taken(c) \cup Range(atClient[c])
    BY <1>1, <2>1, <2>2 DEF Taken
  <2>4. Range(Downstream(c)') = Range(down[c])
    BY <1>2, StreamsAreTyped, ConcatEmptySeq DEF Downstream
  <2>5. Range(Downstream(c)) = Range(atClient[c]) \cup Range(down[c])
    BY StreamsAreTyped, RangeOfConcat DEF Downstream
  <2>6. Delivered(c)' = Range(Downstream(c)') \cup Taken(c)'
    BY DEF Delivered, Downstream, Taken
  <2>7. QED BY <1>4, <2>3, <2>4, <2>5, <2>6, DeliveredIsSplit
<1>5. QED BY <1>3, <1>4

LEMMA LeavingLosesOnly ==
  ASSUME Types, NEW c \in Conns, Leave(c)
  PROVE  client'[c] # "open" /\ Delivered(c)' \subseteq Delivered(c)
<1>1. /\ client'[c] = "closed" /\ down'[c] = <<>> /\ atClient' = atClient /\ taken' = taken
  BY DEF Leave, ClientCloses, Types
<1>2. Range(Downstream(c)') = Range(atClient[c])
  BY <1>1, StreamsAreTyped, ConcatEmptySeq DEF Downstream
<1>3. Range(Downstream(c)) = Range(atClient[c]) \cup Range(down[c])
  BY StreamsAreTyped, RangeOfConcat DEF Downstream
<1>4. Delivered(c)' = Range(Downstream(c)') \cup Taken(c)
  BY <1>1 DEF Delivered, Downstream, Taken
<1>5. QED BY <1>1, <1>2, <1>3, <1>4, DeliveredIsSplit

LEMMA SendLineDelivers ==
  ASSUME TcpInvariant, SendLine, NEW c, c = target, client[c] = "open", c \notin closed
  PROVE  Delivered(c)' = Delivered(c) \cup Range(Line(lines))
<1>1. Types /\ c \in Conns /\ Frame("line", lines, 3) \in Tag
  BY SendLineKeepsTypes DEF TcpInvariant
<1>2. /\ ToClient(c, Frame("line", lines, 3)) /\ atClient' = atClient /\ taken' = taken
  BY DEF SendLine, clientVars
<1>3. DownAppended(c, Frame("line", lines, 3))
  BY <1>1, <1>2, ToClientAppends
<1>4. QED BY <1>1, <1>2, <1>3, AppendedIsDelivered DEF Line

(* The ways in which what a client has can change.                         *)
Sends(d, f) ==
  /\ f \in Tag
  /\ f.kind # "line" \/ (SendLine /\ target = d /\ f = Frame("line", lines, 3))
  /\ Delivered(d)' = Delivered(d) \cup Range(Pieces(f))

LEMMA DeliveryMoves ==
  ASSUME TcpInvariant, Next, NEW d \in Conns
  PROVE  \/ Delivered(d)' = Delivered(d)
         \/ client'[d] # "open" /\ Delivered(d)' \subseteq Delivered(d)
         \/ \E f : Sends(d, f)
<1>1. /\ Types /\ Types' /\ Employed /\ Places(d) /\ Flow(d)
      /\ \A c \in Conns : Places(c) /\ Flow(c) /\ InTurn(c)
  BY StepKeepsTypes DEF TcpInvariant
<1>2. ASSUME taken' = taken, Untouched(d) PROVE Delivered(d)' = Delivered(d)
  BY <1>2, KeptIsDelivered DEF Untouched, SameStreams, DownKept, Downstream
<1>3. ASSUME taken' = taken, NEW f \in Tag, f.kind # "line", DownKept(d) \/ DownAppended(d, f)
      PROVE  Delivered(d)' = Delivered(d) \/ Sends(d, f)
  BY <1>1, <1>3, KeptIsDelivered, AppendedIsDelivered DEF Sends
<1>4. ASSUME NEW c \in Conns, ClientStep(c)
      PROVE  \/ Delivered(d)' = Delivered(d)
             \/ client'[d] # "open" /\ Delivered(d)' \subseteq Delivered(d)
  <2>1. CASE TakeFrame(c)
    BY <1>1, <2>1, TakenIsDelivered
  <2>2. CASE d # c /\ ~TakeFrame(c)
    <3>1. taken' = taken
      BY <1>4, <2>2 DEF ClientStep, Connect, SendFramed, PollBytes, Poll, GiveUp, Leave,
                        ClientCloses, PeerClosed, clientVars
    <3>2. QED BY <1>1, <1>2, <1>4, <2>2, <3>1, ClientStepLeavesOthers
  <2>3. CASE d = c /\ Leave(c)
    BY <1>1, <2>3, LeavingLosesOnly
  <2>4. CASE d = c /\ PollBytes(c)
    <3>1. taken' = taken
      BY <2>4 DEF PollBytes, clientVars
    <3>2. QED BY <1>1, <2>4, <3>1, PollKeepsFlow, KeptIsDelivered
  <2>5. CASE d = c /\ (Connect(c) \/ SendFramed(c) \/ GiveUp(c) \/ PeerClosed(c))
    <3>1. taken' = taken /\ down' = down /\ atClient' = atClient
      BY <2>5 DEF Connect, SendFramed, GiveUp, PeerClosed, clientVars, tcpVars
    <3>2. QED BY <3>1, KeptIsDelivered DEF DownKept, Downstream
  <2>6. QED BY <1>4, <2>1, <2>2, <2>3, <2>4, <2>5 DEF ClientStep
<1>5. ASSUME NEW c \in Conns, HandlerStep(c)
      PROVE  Delivered(d)' = Delivered(d) \/ \E f : Sends(d, f)
  <2>1. taken' = taken
    BY <1>5 DEF HandlerStep, SetActive, ReadSome, AwaitReply, WriteFrame, Echo, StartWorker,
                NoReply, HandlerEnds, clientVars
  <2>2. CASE d # c
    BY <1>1, <1>2, <1>5, <2>1, <2>2, HandlerStepLeavesOthers
  <2>3. CASE d = c
    <3>1. CASE WriteFrame(c)
      <4>1. Replied(c) \in Tag /\ Replied(c).kind # "line"
        BY <1>1, <3>1, RepliedIsTyped DEF WriteFrame, Replied, Frame
      <4>2. QED BY <1>1, <1>3, <1>5, <2>1, <2>3, <3>1, <4>1, HandlerMoves
    <3>2. CASE Echo(c)
      <4>1. Echoed(c) \in Tag /\ Echoed(c).kind # "line"
        BY <1>1, <3>2, EchoedIsTyped DEF Echo, Takes, Echoed, Frame
      <4>2. QED BY <1>1, <1>3, <1>5, <2>1, <2>3, <3>2, <4>1, HandlerMoves
    <3>3. CASE ~WriteFrame(c) /\ ~Echo(c)
      <4>1. DownKept(c)
        BY <1>1, <1>5, <3>3, HandlerMoves DEF HandlerStep
      <4>2. QED BY <2>1, <2>3, <4>1, KeptIsDelivered
    <3>4. QED BY <3>1, <3>2, <3>3
  <2>4. QED BY <2>2, <2>3
<1>6. ASSUME NEW w \in workers, WorkerStep(w)
      PROVE  Delivered(d)' = Delivered(d) \/ \E f : Sends(d, f)
  <2>1. taken' = taken
    BY <1>6 DEF WorkerStep, Acquire, WorkerDies, WorkerReplies, clientVars
  <2>2. CASE d # w.conn \/ Acquire(w)
    BY <1>1, <1>2, <1>6, <2>1, <2>2, WorkerStepLeavesOthers
  <2>3. CASE d = w.conn /\ ~Acquire(w)
    <3>1. WorkerFrame(w) \in Tag /\ WorkerFrame(w).kind # "line"
      BY <1>1, WorkersAreTyped, FramesAreTags DEF Kind, WorkerFrame, Frame
    <3>2. UNCHANGED <<up, atServer, atClient, client, requests, arrived>>
      BY <1>6, <2>3 DEF WorkerStep, WorkerDies, WorkerReplies, tcpVars, clientVars
    <3>3. ToClient(d, WorkerFrame(w)) \/ down' = down
      BY <1>6, <2>3 DEF WorkerStep, WorkerDies, WorkerReplies, tcpVars, WorkerFrame
    <3>4. DownKept(d) \/ DownAppended(d, WorkerFrame(w))
      BY <1>1, <3>1, <3>2, <3>3, PushKeepsFlow
    <3>5. QED BY <1>3, <2>1, <3>1, <3>4
  <2>4. QED BY <2>2, <2>3
<1>7. ASSUME TypeLine PROVE Delivered(d)' = Delivered(d)
  <2>1. taken' = taken
    BY <1>7 DEF TypeLine, clientVars
  <2>2. QED BY <1>1, <1>2, <1>7, <2>1, TypeLineLeavesAll
<1>8. ASSUME SendLine PROVE Delivered(d)' = Delivered(d) \/ \E f : Sends(d, f)
  <2>1. taken' = taken
    BY <1>8 DEF SendLine, clientVars
  <2>2. CASE d # target
    BY <1>1, <1>2, <1>8, <2>1, <2>2, SendLineLeavesOthers
  <2>3. CASE d = target
    <3>1. Frame("line", lines, 3) \in Tag
      BY <1>1, <1>8, SendLineKeepsTypes
    <3>2. DownKept(d) \/ DownAppended(d, Frame("line", lines, 3))
      BY <1>1, <1>8, <2>3, LineInTurn
    <3>3. CASE DownKept(d)
      BY <2>1, <3>3, KeptIsDelivered
    <3>4. CASE DownAppended(d, Frame("line", lines, 3))
      <4>1. \/ Delivered(d)' = Delivered(d)
            \/ Delivered(d)' = Delivered(d) \cup Range(Pieces(Frame("line", lines, 3)))
        BY <1>1, <2>1, <3>1, <3>4, AppendedIsDelivered
      <4>2. QED BY <1>8, <2>3, <3>1, <4>1 DEF Sends
    <3>5. QED BY <3>2, <3>3, <3>4
  <2>4. QED BY <2>2, <2>3
<1>9. QED BY <1>4, <1>5, <1>6, <1>7, <1>8 DEF Next

(* What the steps leave of the terminal.                                   *)
LEMMA TerminalStays ==
  ASSUME TcpInvariant, Next
  PROVE  /\ TypeLine \/ (typed' = typed /\ lines' = lines)
         /\ TypeLine \/ SendLine \/ target' = target
         /\ closed \subseteq closed'
         /\ \A c \in Conns :
              /\ client'[c] = "open" => client[c] # "closed"
              /\ client[c] # "new" => client'[c] # "new"
<1>1. Types
  BY DEF TcpInvariant
<1>2. ASSUME NEW c \in Conns, ClientStep(c)
      PROVE  /\ typed' = typed /\ lines' = lines /\ target' = target /\ closed' = closed
             /\ \A d \in Conns :
                  /\ client'[d] = "open" => client[d] # "closed"
                  /\ client[d] # "new" => client'[d] # "new"
  <2>1. CASE Connect(c)
    BY <1>1, <2>1 DEF Connect, Types
  <2>2. CASE SendFramed(c) \/ PollBytes(c) \/ TakeFrame(c) \/ GiveUp(c)
    <3>1. /\ client' = client /\ closed' = closed /\ typed' = typed /\ lines' = lines
          /\ target' = target
      BY <2>2 DEF SendFramed, PollBytes, Poll, TakeFrame, GiveUp, serverVars, tcpVars
    <3>2. QED BY <3>1
  <2>3. CASE Leave(c)
    BY <1>1, <2>3 DEF Leave, ClientCloses, serverVars, Types
  <2>4. CASE PeerClosed(c)
    BY <1>1, <2>4 DEF PeerClosed, serverVars, Types
  <2>5. QED BY <1>2, <2>1, <2>2, <2>3, <2>4 DEF ClientStep
<1>3. ASSUME NEW c \in Conns, HandlerStep(c)
      PROVE  /\ typed' = typed /\ lines' = lines /\ target' = target
             /\ client' = client /\ closed \subseteq closed'
  BY <1>3 DEF HandlerStep, SetActive, ReadSome, AwaitReply, WriteFrame, Echo, StartWorker,
              NoReply, HandlerEnds, Takes, serverVars, tcpVars
<1>4. ASSUME NEW w \in workers, WorkerStep(w)
      PROVE  /\ typed' = typed /\ lines' = lines /\ target' = target
             /\ client' = client /\ closed' = closed
  BY <1>4 DEF WorkerStep, Acquire, WorkerDies, WorkerReplies, tcpVars
<1>5. TypeLine => client' = client /\ closed' = closed
  BY DEF TypeLine, tcpVars
<1>6. SendLine => client' = client /\ closed' = closed /\ typed' = typed /\ lines' = lines
  BY DEF SendLine
<1>7. CASE \E c \in Conns : ClientStep(c)
  BY <1>2, <1>7
<1>8. CASE \E c \in Conns : HandlerStep(c)
  BY <1>3, <1>8
<1>9. CASE \E w \in workers : WorkerStep(w)
  BY <1>4, <1>9
<1>10. CASE TypeLine \/ SendLine
  BY <1>5, <1>6, <1>10
<1>11. QED BY <1>7, <1>8, <1>9, <1>10 DEF Next

LEMMA TheLatestIsThere ==
  ASSUME TcpInvariant, Latest # 0
  PROVE  Latest \in Conns /\ client[Latest] # "new"
<1>1. /\ registered # <<>> /\ Latest = Last(registered) /\ registered \in Seq(Conns)
      /\ Registered
  BY DEF Latest, TcpInvariant, Types
<1>2. Len(registered) \in 1..Len(registered) /\ Latest = registered[Len(registered)]
  BY <1>1, EmptySeq, LenProperties DEF Last
<1>3. Latest \in Conns /\ handler[Latest] # "none"
  BY <1>1, <1>2, ElementOfSeq DEF Registered
<1>4. QED BY <1>3 DEF TcpInvariant, Places

LEMMA StepKeepsTerminal ==
  ASSUME TcpInvariant, Terminal, Next
  PROVE  Terminal'
<1>1. /\ Types /\ Types' /\ lines \in Nat /\ lines' \in Nat
      /\ DOMAIN typed = 1..lines /\ DOMAIN typed' = 1..lines'
      /\ \A k \in 1..lines : typed[k] \in Conns \cup {0}
  <2>1. Types /\ Types'
    BY StepKeepsTypes DEF TcpInvariant
  <2>2. /\ typed \in Seq(Conns \cup {0}) /\ Len(typed) = lines
        /\ typed' \in Seq(Conns \cup {0}) /\ Len(typed') = lines'
    BY <2>1 DEF Types
  <2>3. QED BY <2>1, <2>2, LenProperties, ElementOfSeq
<1>2. ASSUME TypeLine
      PROVE  /\ lines' = lines + 1 /\ typed'[lines'] = Latest /\ target' = Latest
             /\ target = 0
  <2>1. lines' = lines + 1 /\ typed' = Append(typed, Latest)
    BY <1>1, <1>2, TypeLineKeepsTypes
  <2>2. typed'[lines'] = Latest
    BY <1>1, <2>1, AppendProperties DEF Types
  <2>3. target' = active /\ target = 0
    BY <1>2 DEF TypeLine
  <2>4. active = Latest
    BY DEF TcpInvariant, Registered, LatestIsActive
  <2>5. QED BY <2>1, <2>2, <2>3, <2>4
<1>3. /\ lines' = lines \/ (TypeLine /\ lines' = lines + 1)
      /\ \A k \in 1..lines : k \in 1..lines' /\ typed'[k] = typed[k]
  <2>1. CASE TypeLine
    <3>1. lines' = lines + 1 /\ typed' = Append(typed, Latest)
      BY <1>1, <2>1, TypeLineKeepsTypes
    <3>2. \A k \in 1..lines : typed'[k] = typed[k]
      BY <1>1, <3>1, AppendProperties DEF Types
    <3>3. QED BY <1>1, <2>1, <3>1, <3>2
  <2>2. CASE ~TypeLine
    BY <2>2, TerminalStays
  <2>3. QED BY <2>1, <2>2
<1>4. target' # 0 => target' = typed'[lines']
  <2>1. CASE TypeLine
    BY <1>2, <2>1
  <2>2. CASE SendLine
    BY <2>2 DEF SendLine
  <2>3. CASE ~TypeLine /\ ~SendLine
    BY <2>3, TerminalStays DEF Terminal
  <2>4. QED BY <2>1, <2>2, <2>3
<1>5. ASSUME NEW k \in 1..lines', typed'[k] # 0
      PROVE  client'[typed'[k]] # "new"
  <2>1. CASE k \in 1..lines
    BY <1>1, <1>3, <1>5, <2>1, TerminalStays DEF Terminal
  <2>2. CASE k \notin 1..lines
    <3>1. TypeLine /\ k = lines'
      BY <1>1, <1>3, <2>2
    <3>2. Latest # 0 /\ typed'[k] = Latest
      BY <1>2, <1>5, <3>1
    <3>3. QED BY <3>2, TheLatestIsThere, TerminalStays
  <2>3. QED BY <2>1, <2>2
<1>6. Routed'
  <2> SUFFICES ASSUME NEW c \in Conns, NEW piece \in Delivered(c)', piece.frame.kind = "line"
               PROVE  piece.frame.of \in 1..lines' /\ typed'[piece.frame.of] = c
    BY DEF Routed
  <2>1. CASE piece \in Delivered(c)
    BY <1>3, <2>1 DEF Terminal, Routed
  <2>2. CASE piece \notin Delivered(c)
    <3>1. PICK f : Sends(c, f)
      BY <2>2, DeliveryMoves
    <3>2. f \in Tag /\ piece \in Range(Pieces(f))
      BY <2>2, <3>1 DEF Sends
    <3>3. piece.frame = f
      BY <3>2, PiecesOfFrame, LenProperties DEF Range
    <3>4. SendLine /\ target = c /\ f = Frame("line", lines, 3)
      BY <3>1, <3>3 DEF Sends
    <3>5. f.of = lines /\ c # 0 /\ lines \in Nat \ {0}
      BY <1>1, <3>4, SendLineKeepsTypes, ConstantsAreTyped DEF Frame
    <3>6. lines \in 1..lines /\ typed[lines] = c
      BY <3>4, <3>5 DEF Terminal
    <3>7. QED BY <1>3, <3>3, <3>5, <3>6
  <2>3. QED BY <2>1, <2>2
<1>7. Received'
  <2> SUFFICES ASSUME NEW k \in 1..lines', NEW c \in Conns, typed'[k] = c,
                      client'[c] = "open", c \notin closed'
               PROVE  (target' = c /\ k = lines') \/ Range(Line(k)) \subseteq Delivered(c)'
    BY <1>1 DEF Received, Line
  <2>1. c # 0 /\ c \notin closed
    BY ConstantsAreTyped, TerminalStays
  <2>2. CASE k \notin 1..lines
    <3>1. TypeLine /\ k = lines'
      BY <1>1, <1>3, <2>2
    <3>2. QED BY <1>2, <3>1
  <2>3. CASE k \in 1..lines
    <3>1. typed[k] = c
      BY <1>3, <2>3
    <3>2. client[c] = "open"
      <4>1. client[c] # "new" /\ client[c] # "closed"
        BY <2>1, <2>3, <3>1, TerminalStays DEF Terminal
      <4>2. QED BY <1>1, <4>1 DEF Types
    <3>3. Delivered(c) \subseteq Delivered(c)'
      BY DeliveryMoves DEF Sends
    <3>4. CASE Range(Line(k)) \subseteq Delivered(c)
      BY <3>3, <3>4
    <3>5. CASE target = c /\ k = lines
      <4>1. CASE SendLine
        <5>1. Delivered(c)' = Delivered(c) \cup Range(Line(lines))
          BY <2>1, <3>2, <3>5, <4>1, SendLineDelivers
        <5>2. QED BY <3>5, <5>1
      <4>2. CASE ~SendLine
        <5>1. ~TypeLine
          BY <1>2, <2>1, <3>5
        <5>2. target' = target /\ lines' = lines
          BY <4>2, <5>1, TerminalStays
        <5>3. QED BY <3>5, <5>2
      <4>3. QED BY <4>1, <4>2
    <3>6. QED BY <1>1, <2>1, <2>3, <3>1, <3>2, <3>4, <3>5 DEF Terminal, Received
  <2>4. QED BY <2>2, <2>3
<1>8. QED BY <1>4, <1>5, <1>6, <1>7 DEF Terminal

LEMMA TerminalHolds == Spec => []Terminal
<1>1. Init => Terminal
  <2> SUFFICES ASSUME Init PROVE Terminal
    OBVIOUS
  <2>1. /\ typed = <<>> /\ lines = 0 /\ target = 0 /\ taken = {}
        /\ \A c \in Conns : atClient[c] = <<>> /\ down[c] = <<>>
    BY DEF Init, TcpInit
  <2>2. DOMAIN typed = {} /\ \A k \in 1..lines : FALSE
    BY <2>1, EmptySeq, LenProperties
  <2>3. \A c \in Conns : Delivered(c) = {}
    <3>1. TAKE c \in Conns
    <3>2. Range(Downstream(c)) = {}
      <4>1. Downstream(c) = <<>>
        BY <2>1, EmptyStream DEF Downstream
      <4>2. DOMAIN Downstream(c) = {}
        BY <4>1, SMT
      <4>3. QED BY <4>2 DEF Range
    <3>3. Taken(c) = {}
      BY <2>1 DEF Taken
    <3>4. QED BY <3>2, <3>3, DeliveredIsSplit
  <2>4. QED BY <2>1, <2>2, <2>3 DEF Terminal, Routed, Received
<1>2. TcpInvariant /\ Terminal /\ [Next]_vars => Terminal'
  <2>1. ASSUME Terminal, UNCHANGED vars PROVE Terminal'
    BY <2>1 DEF Terminal, Routed, Received, Delivered, Line, vars, tcpVars, serverVars,
                clientVars
  <2>2. QED BY <2>1, StepKeepsTerminal
<1>3. QED BY <1>1, <1>2, TcpInvariantHolds, PTL DEF Spec

(* A line typed on the terminal goes to the client that was registered     *)
(* last and still served when the line was read, and to no other, and is   *)
(* there as long as that client is, however clients replace each other     *)
(* between the lock and sendall: LinesReachTheLatest.                      *)
THEOREM LinesGoToTheLatest == Spec => []LinesReachTheLatest
<1>1. Terminal => LinesReachTheLatest
  BY DEF Terminal, Routed, Received, LinesReachTheLatest
<1>2. QED BY <1>1, TerminalHolds, PTL
=============================================================================
