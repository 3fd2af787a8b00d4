--------------------------- MODULE PincLibsProofs ---------------------------
(***************************************************************************)
(* Proofs about the libraries under src/src/libs: PincUtf8, what the       *)
(* decoder of SDL's texts does, for every well-formed text, and PincArena, *)
(* for blocks and allocations of every size and number.                    *)
(***************************************************************************)
EXTENDS PincUtf8, PincArena, PoolOpsProofs

-----------------------------------------------------------------------------
(* The size of a codepoint is 1 to 4. *)
LEMMA SizeType ==
  ASSUME NEW c \in Nat
  PROVE  Size(c) \in 1 .. 4
BY SMT DEF Size

(* What pincUTF8SequenceLen reads from the first byte of a codepoint: its  *)
(* size, or 0 for the codepoints it is stuck on.                           *)
LEMMA FirstByte ==
  ASSUME NEW c, Codepoint(c)
  PROVE  SequenceLen(Encode(c)[1]) = IF Stuck(c) THEN 0 ELSE Size(c)
<1>1. c \in Nat /\ c > 0 /\ c < 1114112
  BY SMT DEF Codepoint
<1>2. CASE c < 128
  <2>1. Size(c) = 1 /\ Encode(c)[1] = c
    BY SMT, <1>1, <1>2 DEF Size, Encode
  <2>2. QED
    BY SMT, <1>1, <1>2, <2>1 DEF SequenceLen, Stuck
<1>3. CASE c >= 128 /\ c < 2048
  <2>1. Size(c) = 2 /\ Encode(c)[1] = 192 + (c \div 64)
    BY SMT, <1>1, <1>3 DEF Size, Encode
  <2>2. QED
    BY SMT, <1>1, <1>3, <2>1 DEF SequenceLen, Stuck
<1>4. CASE c >= 2048 /\ c < 65536
  <2>1. Size(c) = 3 /\ Encode(c)[1] = 224 + (c \div 4096)
    BY SMT, <1>1, <1>4 DEF Size, Encode
  <2>2. QED
    BY SMT, <1>1, <1>4, <2>1 DEF SequenceLen, Stuck
<1>5. CASE c >= 65536
  <2>1. Size(c) = 4 /\ Encode(c)[1] = 240 + (c \div 262144)
    BY SMT, <1>1, <1>5 DEF Size, Encode
  <2>2. QED
    BY SMT, <1>1, <1>5, <2>1 DEF SequenceLen, Stuck
<1>6. QED
  BY SMT, <1>1, <1>2, <1>3, <1>4, <1>5

(* A codepoint of three bytes survives its encoding. *)
LEMMA ThreeBytes ==
  ASSUME NEW c \in Nat, 2048 <= c, c < 65536
  PROVE  /\ Encode(c) = <<224 + (c \div 4096), 128 + ((c \div 64) % 64), 128 + (c % 64)>>
         /\ Continues(Encode(c)[2]) /\ Continues(Encode(c)[3])
         /\ Joined(Joined(Encode(c)[1] % 16, Encode(c)[2]), Encode(c)[3]) = c
<1>1. Size(c) = 3
  BY SMT DEF Size
<1>2. Encode(c) = <<224 + (c \div 4096), 128 + ((c \div 64) % 64), 128 + (c % 64)>>
  BY SMT, <1>1 DEF Encode
<1>3. SUFFICES ASSUME NEW a \in Nat, a = c \div 4096,
                      NEW b \in Nat, b = (c \div 64) % 64,
                      NEW d \in Nat, d = c % 64
               PROVE  /\ Continues(128 + b) /\ Continues(128 + d)
                      /\ Joined(Joined((224 + a) % 16, 128 + b), 128 + d) = c
  <2>1. c \div 4096 \in Nat /\ (c \div 64) % 64 \in Nat /\ c % 64 \in Nat
    BY SMT
  <2>2. QED
    BY SMT, <1>2, <2>1
<1>4. a < 16 /\ b < 64 /\ d < 64 /\ c = (a * 4096) + (b * 64) + d
  BY SMT, <1>3
<1>5. (224 + a) % 16 = a /\ (128 + b) % 64 = b /\ (128 + d) % 64 = d
  BY SMT, <1>4
<1>6. QED
  BY SMT, <1>4, <1>5 DEF Continues, Joined

(* Decoding a codepoint of one byte or three gives that codepoint. *)
LEMMA DecodesFaithful ==
  ASSUME NEW s, NEW p \in Nat, NEW r \in Nat,
         NEW c, Codepoint(c), Faithful(c), Size(c) <= r,
         \A j \in 1 .. Size(c) : s[p + j] = Encode(c)[j]
  PROVE  DecodeSingle(s, p, r) = c
<1>1. c \in Nat
  BY SMT DEF Codepoint
<1>2. SequenceLen(s[p + 1]) = Size(c) /\ Size(c) \in {1, 3}
  <2>1. s[p + 1] = Encode(c)[1]
    BY SMT, <1>1, SizeType
  <2>2. QED
    BY SMT, <2>1, FirstByte DEF Faithful
<1>3. CASE Size(c) = 1
  <2>1. s[p + 1] = c
    BY SMT, <1>3 DEF Encode
  <2>2. QED
    BY SMT, <1>2, <1>3, <2>1 DEF DecodeSingle
<1>4. CASE Size(c) = 3
  <2>1. 2048 <= c /\ c < 65536
    BY SMT, <1>1, <1>4 DEF Size
  <2>2. s[p + 1] = Encode(c)[1] /\ s[p + 2] = Encode(c)[2] /\ s[p + 3] = Encode(c)[3]
    BY SMT, <1>4
  <2>3. /\ Continues(s[p + 2]) /\ Continues(s[p + 3])
        /\ Joined(Joined(s[p + 1] % 16, s[p + 2]), s[p + 3]) = c
    BY SMT, <1>1, <2>1, <2>2, ThreeBytes
  <2>4. QED
    BY SMT, <1>2, <1>4, <2>3 DEF DecodeSingle
<1>5. QED
  BY SMT, <1>2, <1>3, <1>4

-----------------------------------------------------------------------------
(* size_t holds every length there is. *)
LEMMA ModSmall ==
  ASSUME NEW a \in Nat, NEW m \in Nat, a < m
  PROVE  a % m = a
BY SMT

(* Where the loop stands, and that it counted no more codepoints than it   *)
(* stepped over bytes: so they fit the buffer.                             *)
Cursor(k) == AtCodepoint(k) /\ k - 1 <= pos

IInv ==
  /\ phase \in {"idle", "decoding", "emitted"}
  /\ index \in Nat
  /\ out = [i \in 1 .. Capacity |-> out[i]]
  /\ phase = "idle" => (pos = 0 /\ rem = 0 /\ index = 0)
  /\ phase = "decoding" =>
       (text \in Texts /\ \E k \in 1 .. Len(text.codepoints) + 1 : Cursor(k))
  /\ EventsMatchText

(* What the text being decoded is, in the words the lemmas use. *)
LEMMA TextFacts ==
  ASSUME text \in Texts,
         NEW n, n = Len(text.codepoints), NEW L, L = Len(text.bytes)
  PROVE  /\ n \in Nat /\ L \in Nat /\ L < Capacity /\ Capacity \in Nat
         /\ SizeMax \in Nat /\ Capacity < SizeMax
         /\ \A k \in 1 .. n + 1 : text.starts[k] \in 0 .. L
         /\ text.starts[1] = 0 /\ text.starts[n + 1] = L
         /\ \A k \in 1 .. n :
              /\ Codepoint(text.codepoints[k])
              /\ text.codepoints[k] \in Nat
              /\ Size(text.codepoints[k]) \in 1 .. 4
              /\ text.starts[k + 1] = text.starts[k] + Size(text.codepoints[k])
              /\ \A j \in 1 .. Size(text.codepoints[k]) :
                   text.bytes[text.starts[k] + j] = Encode(text.codepoints[k])[j]
<1>1. /\ WellFormed(text) /\ L < Capacity /\ Capacity \in Nat
      /\ SizeMax \in Nat /\ Capacity < SizeMax
  BY PincUtf8Assumption
<1>2. n \in Nat /\ L \in Nat
  BY <1>1 DEF WellFormed
<1>3. /\ \A k \in 1 .. n + 1 : text.starts[k] \in 0 .. L
      /\ text.starts[1] = 0 /\ text.starts[n + 1] = L
  BY <1>1, <1>2 DEF WellFormed
<1>4. SUFFICES ASSUME NEW k \in 1 .. n
               PROVE  /\ Codepoint(text.codepoints[k])
                      /\ text.codepoints[k] \in Nat
                      /\ Size(text.codepoints[k]) \in 1 .. 4
                      /\ text.starts[k + 1] = text.starts[k] + Size(text.codepoints[k])
                      /\ \A j \in 1 .. Size(text.codepoints[k]) :
                           text.bytes[text.starts[k] + j] = Encode(text.codepoints[k])[j]
  BY <1>1, <1>2, <1>3
<1>5. /\ Codepoint(text.codepoints[k])
      /\ text.starts[k + 1] = text.starts[k] + Size(text.codepoints[k])
      /\ \A j \in 1 .. Size(text.codepoints[k]) :
           text.bytes[text.starts[k] + j] = Encode(text.codepoints[k])[j]
  BY <1>1 DEF WellFormed
<1>6. text.codepoints[k] \in Nat
  BY SMT, <1>5 DEF Codepoint
<1>7. QED
  BY <1>5, <1>6, SizeType

(* Nothing is decoded yet. *)
LEMMA InitInv == Init => IInv
<1>1. SUFFICES ASSUME Init PROVE IInv
  OBVIOUS
<1>2. /\ phase = "idle" /\ pos = 0 /\ rem = 0 /\ index = 0
      /\ out = [i \in 1 .. Capacity |-> 0]
  BY <1>1 DEF Init, Unwritten
<1>3. out = [i \in 1 .. Capacity |-> out[i]]
  BY <1>2
<1>4. QED
  BY <1>2, <1>3 DEF IInv, EventsMatchText

(* A text arrives: the loop stands at its first codepoint, or at its end.  *)
LEMMA ReceiveInv ==
  ASSUME IInv, NEW t \in Texts, Receive(t)
  PROVE  IInv'
<1>1. /\ phase' = "decoding" /\ text' = t /\ rem' = Len(t.bytes)
      /\ pos' = 0 /\ index' = 0 /\ out' = out
      /\ out = [i \in 1 .. Capacity |-> out[i]]
  BY DEF Receive, IInv
<1>2. /\ Len(t.codepoints) \in Nat /\ Len(t.bytes) \in Nat /\ t.starts[1] = 0
  BY PincUtf8Assumption DEF WellFormed
<1>3. Cursor(1)'
  BY <1>1, <1>2 DEF Cursor, AtCodepoint
<1>4. 1 \in 1 .. Len(t.codepoints) + 1
  BY <1>2
<1>5. \E k \in 1 .. Len(text'.codepoints) + 1 : Cursor(k)'
  BY <1>1, <1>3, <1>4
<1>6. QED
  BY <1>1, <1>5 DEF IInv, EventsMatchText

(* A turn of the loop.  At a codepoint the decoder is stuck on, nothing    *)
(* but the index and what is written to the buffer changes; at any other   *)
(* it steps to the next, and what it wrote for it stays.                   *)
LEMMA DecodeOneInv ==
  ASSUME IInv, DecodeOne
  PROVE  IInv'
<1>1. PICK k \in 1 .. Len(text.codepoints) + 1 : Cursor(k)
  BY DEF IInv, DecodeOne
<1>2. SUFFICES ASSUME NEW n, n = Len(text.codepoints), NEW L, L = Len(text.bytes),
                      NEW c, c = text.codepoints[k],
                      NEW len, len = SequenceLen(text.bytes[pos + 1])
               PROVE  IInv'
  OBVIOUS
<1>3. /\ phase = "decoding" /\ phase' = "decoding" /\ rem > 0
      /\ text \in Texts /\ text' = text /\ index \in Nat
      /\ out = [i \in 1 .. Capacity |-> out[i]]
      /\ out' = IF index < Capacity
                THEN [out EXCEPT ![index + 1] = DecodeSingle(text.bytes, pos, rem)]
                ELSE out
      /\ pos' = pos + len
      /\ rem' = (rem - len) % SizeMax
      /\ index' = (index + 1) % SizeMax
  BY <1>2 DEF IInv, DecodeOne
<1>4. /\ n \in Nat /\ L \in Nat /\ L < Capacity /\ Capacity \in Nat
      /\ SizeMax \in Nat /\ Capacity < SizeMax /\ k \in 1 .. n + 1
  BY <1>1, <1>2, <1>3, TextFacts
<1>starts. /\ \A i \in 1 .. n + 1 : text.starts[i] \in 0 .. L
           /\ text.starts[n + 1] = L
  BY <1>2, <1>3, TextFacts
<1>at. pos = text.starts[k]
  BY <1>1 DEF Cursor, AtCodepoint
<1>5. rem = L - pos /\ k - 1 <= pos /\ pos \in Nat /\ rem \in Nat /\ rem <= L
  <2>1. rem = L - pos /\ k - 1 <= pos
    BY <1>1, <1>2 DEF Cursor, AtCodepoint
  <2>2. pos \in 0 .. L
    BY <1>4, <1>starts, <1>at
  <2>3. QED
    BY <1>4, <2>1, <2>2
<1>6. k \in 1 .. n
  <2>1. k # n + 1
    BY <1>3, <1>4, <1>starts, <1>at, <1>5
  <2>2. QED
    BY <1>4, <2>1
<1>7. /\ Codepoint(c) /\ Size(c) \in 1 .. 4
      /\ text.starts[k + 1] = pos + Size(c)
      /\ \A j \in 1 .. Size(c) : text.bytes[pos + j] = Encode(c)[j]
  BY <1>2, <1>3, <1>at, <1>6, TextFacts
<1>8. len = IF Stuck(c) THEN 0 ELSE Size(c)
  <2>1. text.bytes[pos + 1] = Encode(c)[1]
    BY <1>7
  <2>2. QED
    BY SMT, <1>2, <1>7, <2>1, FirstByte
<1>9. index' \in Nat /\ out' = [i \in 1 .. Capacity |-> out'[i]]
  <2>1. index' \in Nat
    BY <1>3, <1>4
  <2>2. CASE index < Capacity
    BY <1>3, <2>1, <2>2
  <2>3. CASE ~(index < Capacity)
    <3>1. out' = out
      BY <1>3, <2>3
    <3>2. QED
      BY <1>3, <2>1, <3>1
  <2>4. QED
    BY <2>1, <2>2, <2>3
<1>10. \A i \in 1 .. (k - 1) : ~Stuck(text.codepoints[i])
  BY <1>1 DEF Cursor, AtCodepoint
<1>11. CASE Stuck(c)
  <2>1. pos' = pos /\ rem' = rem
    <3>1. len = 0 /\ rem \in Nat /\ rem < SizeMax /\ rem - len = rem
      BY <1>4, <1>5, <1>8, <1>11
    <3>2. (rem - len) % SizeMax = rem
      BY <1>4, <3>1, ModSmall
    <3>3. QED
      BY <1>3, <1>5, <3>1, <3>2
  <2>2. Cursor(k)'
    BY <1>2, <1>3, <1>at, <1>5, <1>6, <1>10, <1>11, <2>1 DEF Cursor, AtCodepoint
  <2>3. \E i \in 1 .. Len(text'.codepoints) + 1 : Cursor(i)'
    BY <1>2, <1>3, <1>4, <2>2
  <2>4. QED
    BY <1>3, <1>9, <2>3 DEF IInv, EventsMatchText
<1>12. CASE ~Stuck(c)
  <2>1. /\ index = k - 1
        /\ \A i \in 1 .. (k - 1) :
             Faithful(text.codepoints[i]) => out[i] = text.codepoints[i]
    BY <1>1, <1>2, <1>12 DEF Cursor, AtCodepoint
  <2>2. text.starts[k + 1] \in 0 .. L /\ len = Size(c) /\ len \in 1 .. 4 /\ len <= rem
    <3>1. k + 1 \in 1 .. n + 1
      BY <1>4, <1>6
    <3>2. QED
      BY <1>4, <1>starts, <1>5, <1>7, <1>8, <1>12, <3>1
  <2>3. /\ pos' = text.starts[k + 1] /\ pos' \in 0 .. L /\ k <= pos'
        /\ rem' = L - pos'
    <3>1. pos' = text.starts[k + 1] /\ pos' = pos + len
      BY <1>3, <1>7, <2>2
    <3>2. rem - len \in Nat /\ rem - len < SizeMax /\ rem - len = L - pos'
      <4>1. len \in Nat /\ rem < SizeMax
        BY <1>4, <1>5, <2>2
      <4>2. rem - len \in Nat /\ rem - len < SizeMax
        BY <1>4, <1>5, <2>2, <4>1
      <4>3. L - (pos + len) = rem - len
        BY <1>4, <1>5, <4>1
      <4>4. QED
        BY <3>1, <4>2, <4>3
    <3>3. rem' = rem - len
      <4>1. SUFFICES ASSUME NEW a \in Nat, a = rem - len, a < SizeMax
                     PROVE  a % SizeMax = a
        BY <1>3, <3>2
      <4>2. QED
        BY <1>4, <4>1, ModSmall
    <3>4. k <= pos'
      BY <1>4, <1>5, <2>2, <3>1
    <3>5. QED
      BY <2>2, <3>1, <3>2, <3>3, <3>4
  <2>4. index' = k /\ index < Capacity /\ k \in 1 .. Capacity
    <3>1. index + 1 = k /\ k \in Nat /\ k < SizeMax /\ index < Capacity /\ k \in 1 .. Capacity
      BY <1>3, <1>4, <1>5, <1>6, <2>1
    <3>2. QED
      BY <1>3, <1>4, <3>1, ModSmall
  <2>5. /\ out'[k] = DecodeSingle(text.bytes, pos, rem)
        /\ \A i \in 1 .. (k - 1) : out'[i] = out[i]
    BY <1>3, <1>4, <2>1, <2>4
  <2>6. Faithful(c) => out'[k] = c
    <3>1. pos \in Nat /\ rem \in Nat /\ Size(c) <= rem
      BY <1>5, <2>2
    <3>2. ASSUME Faithful(c) PROVE DecodeSingle(text.bytes, pos, rem) = c
      BY <1>7, <3>1, <3>2, DecodesFaithful
    <3>3. QED
      BY <2>5, <3>2
  <2>7. \A i \in 1 .. k :
          /\ ~Stuck(text.codepoints[i])
          /\ Faithful(text.codepoints[i]) => out'[i] = text.codepoints[i]
    <3>1. SUFFICES ASSUME NEW i \in 1 .. k
                   PROVE  /\ ~Stuck(text.codepoints[i])
                          /\ Faithful(text.codepoints[i]) => out'[i] = text.codepoints[i]
      OBVIOUS
    <3>2. i = k \/ i \in 1 .. (k - 1)
      BY <1>6
    <3>3. QED
      BY <1>2, <1>10, <1>12, <2>1, <2>5, <2>6, <3>2
  <2>8. k + 1 \in 1 .. n + 1 /\ (k + 1) - 1 = k
    BY <1>4, <1>6
  <2>9. Cursor(k + 1)'
    BY <1>2, <1>3, <2>3, <2>4, <2>7, <2>8 DEF Cursor, AtCodepoint
  <2>10. \E i \in 1 .. Len(text'.codepoints) + 1 : Cursor(i)'
    BY <1>2, <1>3, <2>8, <2>9
  <2>11. QED
    BY <1>3, <1>9, <2>10 DEF IInv, EventsMatchText
<1>13. QED
  BY <1>11, <1>12

(* The loop ends at the end of the text: every codepoint was counted.      *)
LEMMA EmitInv ==
  ASSUME IInv, Emit
  PROVE  IInv'
<1>1. PICK k \in 1 .. Len(text.codepoints) + 1 : Cursor(k)
  BY DEF IInv, Emit
<1>2. SUFFICES ASSUME NEW n, n = Len(text.codepoints), NEW L, L = Len(text.bytes)
               PROVE  IInv'
  OBVIOUS
<1>3. /\ phase = "decoding" /\ phase' = "emitted" /\ rem = 0
      /\ text \in Texts /\ text' = text /\ index' = index /\ index \in Nat
      /\ out' = out /\ out = [i \in 1 .. Capacity |-> out[i]]
      /\ events' = IF index < Capacity THEN [i \in 1 .. index |-> out[i]] ELSE << >>
  BY DEF IInv, Emit
<1>4. /\ n \in Nat /\ L \in Nat /\ L < Capacity /\ Capacity \in Nat
      /\ k \in 1 .. n + 1
      /\ \A i \in 1 .. n + 1 : text.starts[i] \in 0 .. L
      /\ \A i \in 1 .. n :
           /\ Size(text.codepoints[i]) \in 1 .. 4
           /\ text.starts[i + 1] = text.starts[i] + Size(text.codepoints[i])
  BY <1>1, <1>2, <1>3, TextFacts
<1>5. pos = text.starts[k] /\ rem = L - pos /\ k - 1 <= pos /\ pos \in 0 .. L
  BY <1>1, <1>2, <1>4 DEF Cursor, AtCodepoint
<1>6. pos = L
  BY <1>3, <1>4, <1>5
<1>7. k = n + 1
  <2>1. SUFFICES ASSUME k \in 1 .. n PROVE FALSE
    BY <1>4
  <2>2. /\ text.starts[k + 1] = pos + Size(text.codepoints[k])
        /\ Size(text.codepoints[k]) \in 1 .. 4
    BY <1>4, <1>5, <2>1
  <2>3. k + 1 \in 1 .. n + 1
    BY <1>4, <2>1
  <2>4. text.starts[k + 1] \in 0 .. L
    BY <1>4, <2>3
  <2>5. QED
    BY <1>4, <1>6, <2>2, <2>4
<1>8. ~(k <= Len(text.codepoints)) /\ k - 1 = n
  BY <1>2, <1>4, <1>7
<1>9. /\ index = n
      /\ \A i \in 1 .. n :
           /\ ~Stuck(text.codepoints[i])
           /\ Faithful(text.codepoints[i]) => out[i] = text.codepoints[i]
  BY <1>1, <1>8 DEF Cursor, AtCodepoint
<1>10. index < Capacity
  BY <1>4, <1>5, <1>6, <1>8, <1>9
<1>11. events' = [i \in 1 .. n |-> out[i]]
  BY <1>3, <1>9, <1>10
<1>12. Len(events') = n /\ \A i \in 1 .. n : events'[i] = out[i]
  BY <1>4, <1>11
<1>13. EventsMatchText'
  BY <1>2, <1>3, <1>9, <1>12 DEF EventsMatchText, Decodable
<1>14. QED
  BY <1>3, <1>13 DEF IInv

(* The call returns. *)
LEMMA ReturnInv ==
  ASSUME IInv, Return
  PROVE  IInv'
<1>1. /\ phase' = "idle" /\ pos' = 0 /\ rem' = 0 /\ index' = 0
      /\ out' = [i \in 1 .. Capacity |-> 0]
  BY DEF Return, Unwritten
<1>2. out' = [i \in 1 .. Capacity |-> out'[i]]
  BY <1>1
<1>3. QED
  BY <1>1, <1>2 DEF IInv, EventsMatchText

(* The invariant holds in every state. *)
THEOREM Utf8Invariant == Spec => []IInv
<1>1. IInv /\ [Next]_vars => IInv'
  <2>1. SUFFICES ASSUME IInv, [Next]_vars PROVE IInv'
    OBVIOUS
  <2>2. CASE \E t \in Texts : Receive(t)
    BY <2>1, <2>2, ReceiveInv
  <2>3. CASE DecodeOne
    BY <2>1, <2>3, DecodeOneInv
  <2>4. CASE Emit
    BY <2>1, <2>4, EmitInv
  <2>5. CASE Return
    BY <2>1, <2>5, ReturnInv
  <2>6. CASE UNCHANGED vars
    <3>1. UNCHANGED <<phase, text, pos, rem, index, out, events>>
      BY <2>6 DEF vars
    <3>2. \A k : Cursor(k)' <=> Cursor(k)
      BY <3>1 DEF Cursor, AtCodepoint
    <3>3. QED
      BY <2>1, <3>1, <3>2 DEF IInv, EventsMatchText
  <2>7. QED
    BY <2>1, <2>2, <2>3, <2>4, <2>5, <2>6 DEF Next, Decode
<1>2. QED
  BY InitInv, <1>1, PTL DEF Spec

(* pincDecodeUTF8String never reads outside the text, whatever SDL's texts *)
(* hold: it stands at the start of a codepoint or at the end, and the      *)
(* remaining length does not wrap around.                                  *)
THEOREM CursorStaysInText == Spec => []CursorInText
<1>1. IInv => CursorInText
  BY DEF IInv, CursorInText, Cursor
<1>2. QED
  BY Utf8Invariant, <1>1, PTL

(* pincSdl2step makes one event of each codepoint of a text it gets to the *)
(* end of, with its value if its encoding has one byte or three.           *)
THEOREM ReadableEventsAreTheText == Spec => []EventsMatchText
<1>1. IInv => EventsMatchText
  BY DEF IInv
<1>2. QED
  BY Utf8Invariant, <1>1, PTL

-----------------------------------------------------------------------------
(* PincArena: lists of blocks. *)

(* Two sequences without repetitions that share nothing. *)
Apart(s, t) ==
  IsInjective(s) /\ IsInjective(t) /\ Range(s) \cap Range(t) = {}

(* An entry is in the range, and the range holds entries only. *)
LEMMA InRange ==
  ASSUME NEW S, NEW s \in Seq(S)
  PROVE  /\ Range(s) = {s[i] : i \in 1 .. Len(s)}
         /\ Range(s) \subseteq S
         /\ \A i \in 1 .. Len(s) : s[i] \in Range(s)
         /\ \A x \in Range(s) : \E i \in 1 .. Len(s) : s[i] = x
<1>1. Range(s) = {s[i] : i \in 1 .. Len(s)}
  BY RangeEquality
<1>2. \A i \in 1 .. Len(s) : s[i] \in S
  OBVIOUS
<1> HIDE DEF Range
<1>3. QED
  BY <1>1, <1>2

(* A concatenation is without repetitions if its parts are, and share      *)
(* nothing, and only then.                                                 *)
LEMMA ConcatApart ==
  ASSUME NEW S, NEW s \in Seq(S), NEW t \in Seq(S)
  PROVE  IsInjective(s \o t) <=> Apart(s, t)
<1> DEFINE m == Len(s)
           n == Len(t)
           st == s \o t
<1>1. /\ st \in Seq(S) /\ Len(st) = m + n /\ m \in Nat /\ n \in Nat
      /\ DOMAIN st = 1 .. m + n /\ DOMAIN s = 1 .. m /\ DOMAIN t = 1 .. n
  BY ConcatProperties, LenProperties
<1>2. \A i \in 1 .. m : st[i] = s[i]
  BY ConcatProperties
<1>3. \A i \in 1 .. n : st[i + m] = t[i] /\ i + m \in 1 .. m + n
  <2>1. TAKE i \in 1 .. n
  <2>2. i + m \in 1 .. m + n /\ ~(i + m <= m) /\ (i + m) - m = i
    BY <1>1
  <2>3. QED
    BY <2>2, ConcatProperties
<1>4. /\ Range(s) = {s[i] : i \in 1 .. m}
      /\ Range(t) = {t[i] : i \in 1 .. n}
  BY InRange
<1> HIDE DEF st, m, n
<1>5. ASSUME IsInjective(st) PROVE Apart(s, t)
  <2>1. IsInjective(s)
    BY <1>1, <1>2, <1>5 DEF IsInjective
  <2>2. IsInjective(t)
    <3>1. SUFFICES ASSUME NEW i \in 1 .. n, NEW j \in 1 .. n, t[i] = t[j] PROVE i = j
      BY <1>1 DEF IsInjective
    <3>2. st[i + m] = st[j + m] /\ i + m \in DOMAIN st /\ j + m \in DOMAIN st
      BY <1>1, <1>3, <3>1
    <3>3. i + m = j + m
      BY <1>5, <3>2 DEF IsInjective
    <3>4. QED
      BY <1>1, <3>3
  <2>3. ASSUME NEW i \in 1 .. m, NEW j \in 1 .. n, s[i] = t[j] PROVE FALSE
    <3>1. st[i] = st[j + m] /\ i \in DOMAIN st /\ j + m \in DOMAIN st /\ i # j + m
      BY <1>1, <1>2, <1>3, <2>3
    <3>2. QED
      BY <1>5, <3>1 DEF IsInjective
  <2>4. QED
    BY <1>4, <2>1, <2>2, <2>3 DEF Apart
<1>6. ASSUME Apart(s, t) PROVE IsInjective(st)
  <2>1. SUFFICES ASSUME NEW i \in 1 .. m + n, NEW j \in 1 .. m + n, st[i] = st[j]
                 PROVE  i = j
    BY <1>1 DEF IsInjective
  <2>2. ASSUME NEW k \in 1 .. m + n, ~(k <= m)
        PROVE  k - m \in 1 .. n /\ st[k] = t[k - m]
    <3>1. k - m \in 1 .. n /\ (k - m) + m = k
      BY <1>1, <2>2
    <3>2. QED
      BY <1>3, <3>1
  <2>3. CASE i <= m /\ j <= m
    BY <1>1, <1>2, <1>6, <2>1, <2>3 DEF Apart, IsInjective
  <2>4. CASE ~(i <= m) /\ ~(j <= m)
    <3>1. t[i - m] = t[j - m] /\ i - m \in DOMAIN t /\ j - m \in DOMAIN t
      BY <1>1, <2>1, <2>2, <2>4
    <3>2. i - m = j - m
      BY <1>6, <3>1 DEF Apart, IsInjective
    <3>3. QED
      BY <1>1, <3>2
  <2>5. ASSUME NEW a \in 1 .. m, NEW b \in 1 .. n PROVE s[a] # t[b]
    BY <1>4, <1>6 DEF Apart
  <2>6. CASE i <= m /\ ~(j <= m)
    BY <1>1, <1>2, <2>1, <2>2, <2>5, <2>6
  <2>7. CASE ~(i <= m) /\ j <= m
    BY <1>1, <1>2, <2>1, <2>2, <2>5, <2>7
  <2>8. QED
    BY <2>3, <2>4, <2>6, <2>7
<1>7. QED
  BY <1>5, <1>6 DEF st

(* Reversing keeps the entries, and their being different. *)
LEMMA ReverseKeeps ==
  ASSUME NEW S, NEW s \in Seq(S)
  PROVE  /\ Reverse(s) \in Seq(S)
         /\ Range(Reverse(s)) = Range(s)
         /\ IsInjective(s) => IsInjective(Reverse(s))
<1> DEFINE n == Len(s)
           r == [i \in 1 .. n |-> s[(n - i) + 1]]
<1>1. n \in Nat /\ DOMAIN s = 1 .. n
  BY LenProperties
<1>2. \A i \in 1 .. n : (n - i) + 1 \in 1 .. n /\ (n - ((n - i) + 1)) + 1 = i
  BY <1>1
<1>3. Reverse(s) = r
  BY DEF Reverse
<1>4. \A i \in 1 .. n : r[i] = s[(n - i) + 1] /\ s[(n - i) + 1] \in S
  BY <1>1, <1>2
<1>5. r \in Seq(S) /\ Len(r) = n /\ DOMAIN r = 1 .. n
  BY <1>1, <1>4
<1> HIDE DEF r, n
<1>6. Range(r) = Range(s)
  <2>1. \A i \in 1 .. n : r[i] \in Range(s)
    BY <1>1, <1>2, <1>4 DEF Range
  <2>2. \A i \in 1 .. n : s[i] \in Range(r)
    <3>1. TAKE i \in 1 .. n
    <3>2. r[(n - i) + 1] = s[i]
      BY <1>2, <1>4
    <3>3. QED
      BY <1>2, <1>5, <3>2 DEF Range
  <2>3. QED
    BY <1>1, <1>5, <2>1, <2>2 DEF Range
<1>7. ASSUME IsInjective(s) PROVE IsInjective(r)
  <2>1. SUFFICES ASSUME NEW i \in 1 .. n, NEW j \in 1 .. n, r[i] = r[j] PROVE i = j
    BY <1>5 DEF IsInjective
  <2>2. (n - i) + 1 = (n - j) + 1
    <3> DEFINE a == (n - i) + 1
               b == (n - j) + 1
    <3>1. a \in DOMAIN s /\ b \in DOMAIN s /\ s[a] = s[b]
      BY <1>1, <1>2, <1>4, <2>1
    <3> HIDE DEF a, b
    <3>2. a = b
      BY <1>7, <3>1 DEF IsInjective
    <3>3. QED
      BY <3>2 DEF a, b
  <2>3. QED
    BY <1>1, <2>2
<1>8. QED
  BY <1>3, <1>5, <1>6, <1>7

(* A part of a sequence without repetitions is one. *)
LEMMA PartOf ==
  ASSUME NEW S, NEW s \in Seq(S), NEW m \in 1 .. Len(s) + 1, NEW n \in 0 .. Len(s)
  PROVE  /\ SubSeq(s, m, n) \in Seq(S)
         /\ Len(SubSeq(s, m, n)) = IF m <= n THEN (n - m) + 1 ELSE 0
         /\ \A i \in 1 .. Len(SubSeq(s, m, n)) :
              SubSeq(s, m, n)[i] = s[(m + i) - 1] /\ (m + i) - 1 \in m .. n
         /\ Range(SubSeq(s, m, n)) \subseteq Range(s)
         /\ IsInjective(s) => IsInjective(SubSeq(s, m, n))
<1> DEFINE t == SubSeq(s, m, n)
<1>1. Len(s) \in Nat /\ DOMAIN s = 1 .. Len(s) /\ m \in Int /\ n \in Int
  BY LenProperties
<1>2. \A i \in m .. n : s[i] \in S /\ i \in DOMAIN s
  BY <1>1
<1>3. t \in Seq(S) /\ Len(t) = (IF m <= n THEN (n - m) + 1 ELSE 0) /\ DOMAIN t = 1 .. Len(t)
  BY <1>1, <1>2, SubSeqProperties, LenProperties
<1>4. \A i \in 1 .. Len(t) : t[i] = s[(m + i) - 1] /\ (m + i) - 1 \in m .. n
  <2>1. TAKE i \in 1 .. Len(t)
  <2>2. i \in 1 .. (n - m) + 1 /\ (m + i) - 1 \in m .. n
    BY <1>1, <1>3
  <2>3. t[i] = s[(m + i) - 1]
    BY <1>1, <1>2, <2>2, SubSeqProperties
  <2>4. QED
    BY <2>2, <2>3
<1> HIDE DEF t
<1>5. Range(t) \subseteq Range(s)
  BY <1>1, <1>2, <1>3, <1>4 DEF Range
<1>6. ASSUME IsInjective(s) PROVE IsInjective(t)
  <2>1. SUFFICES ASSUME NEW i \in 1 .. Len(t), NEW j \in 1 .. Len(t), t[i] = t[j] PROVE i = j
    BY <1>3 DEF IsInjective
  <2> DEFINE a == (m + i) - 1
             b == (m + j) - 1
  <2>2. a \in DOMAIN s /\ b \in DOMAIN s /\ s[a] = s[b]
    BY <1>2, <1>4, <2>1
  <2> HIDE DEF a, b
  <2>3. a = b
    BY <1>6, <2>2 DEF IsInjective
  <2>4. QED
    BY <1>1, <2>3 DEF a, b
<1>7. QED
  BY <1>3, <1>4, <1>5, <1>6 DEF t

(* Taking out one entry of a sequence without repetitions. *)
LEMMA RemovedAt ==
  ASSUME NEW S, NEW s \in Seq(S), NEW i \in 1 .. Len(s)
  PROVE  /\ RemoveAt(s, i) \in Seq(S)
         /\ Len(RemoveAt(s, i)) = Len(s) - 1
         /\ \A j \in 1 .. Len(s) - 1 :
              RemoveAt(s, i)[j] = s[IF j < i THEN j ELSE j + 1]
         /\ IsInjective(s) => /\ IsInjective(RemoveAt(s, i))
                              /\ Range(RemoveAt(s, i)) = Range(s) \ {s[i]}
<1> DEFINE n == Len(s)
           t == SubSeq(s, 1, i - 1)
           u == SubSeq(s, i + 1, n)
           r == RemoveAt(s, i)
<1>1. n \in Nat /\ DOMAIN s = 1 .. n /\ i - 1 \in 0 .. n /\ i + 1 \in 1 .. n + 1 /\ 1 \in 1 .. n + 1
  BY LenProperties
<1>2. t \in Seq(S) /\ Len(t) = i - 1 /\ \A j \in 1 .. i - 1 : t[j] = s[j]
  <2>1. /\ t \in Seq(S) /\ Len(t) = (IF 1 <= i - 1 THEN ((i - 1) - 1) + 1 ELSE 0)
        /\ \A j \in 1 .. Len(t) : t[j] = s[(1 + j) - 1]
    BY <1>1, PartOf
  <2>2. QED
    BY <1>1, <2>1
<1>3. u \in Seq(S) /\ Len(u) = n - i /\ \A j \in 1 .. n - i : u[j] = s[j + i]
  <2>1. /\ u \in Seq(S) /\ Len(u) = (IF i + 1 <= n THEN (n - (i + 1)) + 1 ELSE 0)
        /\ \A j \in 1 .. Len(u) : u[j] = s[((i + 1) + j) - 1]
    BY <1>1, PartOf
  <2>2. Len(u) = n - i
    <3>1. Len(u) = (IF i + 1 <= n THEN (n - (i + 1)) + 1 ELSE 0)
      BY <2>1
    <3> HIDE DEF u, n
    <3>2. n \in Nat /\ i \in 1 .. n
      BY <1>1 DEF n
    <3>3. QED
      BY <3>1, <3>2
  <2>3. \A j \in 1 .. n - i : ((i + 1) + j) - 1 = j + i
    BY <1>1
  <2>4. QED
    BY <2>1, <2>2, <2>3
<1>4. r = t \o u
  BY DEF RemoveAt
<1> HIDE DEF t, u
<1>5. r \in Seq(S) /\ Len(r) = n - 1
  <2>1. r \in Seq(S) /\ Len(r) = Len(t) + Len(u)
    BY <1>2, <1>3, <1>4, ConcatProperties
  <2> HIDE DEF r, n
  <2>2. QED
    BY <1>1, <1>2, <1>3, <2>1
<1>6. \A j \in 1 .. n - 1 : r[j] = s[IF j < i THEN j ELSE j + 1]
  <2>1. TAKE j \in 1 .. n - 1
  <2>2. (t \o u)[j] = IF j <= Len(t) THEN t[j] ELSE u[j - Len(t)]
    BY <1>1, <1>2, <1>3, ConcatProperties
  <2>3. CASE j < i
    BY <1>1, <1>2, <1>4, <2>2, <2>3
  <2>4. CASE ~(j < i)
    <3>1. j - (i - 1) \in 1 .. n - i /\ (j - (i - 1)) + i = j + 1 /\ ~(j <= i - 1)
      BY <1>1, <2>4
    <3>2. r[j] = u[j - (i - 1)] /\ u[j - (i - 1)] = s[j + 1]
      BY <1>2, <1>3, <1>4, <2>2, <3>1
    <3>3. QED
      BY <2>4, <3>2
  <2>5. QED
    BY <2>3, <2>4
<1>7. DOMAIN r = 1 .. n - 1
  BY <1>5, LenProperties
<1> HIDE DEF r, n
<1> DEFINE from(j) == IF j < i THEN j ELSE j + 1
<1>8. \A j \in 1 .. n - 1 : from(j) \in 1 .. n /\ from(j) # i
  BY <1>1
<1>9. ASSUME IsInjective(s) PROVE IsInjective(r) /\ Range(r) = Range(s) \ {s[i]}
  <2>1. \A j, k \in 1 .. n - 1 : from(j) = from(k) => j = k
    BY <1>1
  <2>2. \A j \in 1 .. n - 1 : r[j] = s[from(j)]
    BY <1>6
  <2>3. \A j \in 1 .. n : j # i => \E k \in 1 .. n - 1 : from(k) = j
    <3>1. TAKE j \in 1 .. n
    <3>2. CASE j < i
      <4>1. j \in 1 .. n - 1 /\ from(j) = j
        BY <1>1, <3>2
      <4>2. QED
        BY <4>1
    <3>3. CASE i < j
      <4>1. j - 1 \in 1 .. n - 1 /\ from(j - 1) = j
        BY <1>1, <3>3
      <4>2. QED
        BY <4>1
    <3>4. QED
      BY <1>1, <3>2, <3>3
  <2> HIDE DEF from
  <2>4. IsInjective(r)
    <3>1. SUFFICES ASSUME NEW j \in 1 .. n - 1, NEW k \in 1 .. n - 1, r[j] = r[k] PROVE j = k
      BY <1>7 DEF IsInjective
    <3>2. s[from(j)] = s[from(k)] /\ from(j) \in DOMAIN s /\ from(k) \in DOMAIN s
      BY <1>1, <1>8, <2>2, <3>1
    <3>3. from(j) = from(k)
      BY <1>9, <3>2 DEF IsInjective
    <3>4. QED
      BY <2>1, <3>3
  <2>5. ASSUME NEW j \in 1 .. n - 1 PROVE r[j] \in Range(s) \ {s[i]}
    <3>1. from(j) \in DOMAIN s /\ i \in DOMAIN s /\ from(j) # i /\ r[j] = s[from(j)]
      BY <1>1, <1>8, <2>2
    <3>2. s[from(j)] # s[i]
      BY <1>9, <3>1 DEF IsInjective
    <3>3. QED
      BY <3>1, <3>2 DEF Range
  <2>6. ASSUME NEW j \in 1 .. n, s[j] # s[i] PROVE s[j] \in Range(r)
    <3>1. PICK k \in 1 .. n - 1 : from(k) = j
      BY <2>3, <2>6
    <3>2. r[k] = s[j] /\ k \in DOMAIN r
      BY <1>7, <2>2, <3>1
    <3>3. QED
      BY <3>2 DEF Range
  <2>7. Range(r) = {r[j] : j \in 1 .. n - 1} /\ Range(s) = {s[j] : j \in 1 .. n}
    BY <1>1, <1>7 DEF Range
  <2>8. QED
    BY <2>4, <2>5, <2>6, <2>7
<1>10. QED
  BY <1>5, <1>6, <1>9 DEF r, n

-----------------------------------------------------------------------------
(* PincArena: what a list of blocks adds up to. *)

(* The blocks of S have sizes. *)
Sized(S) == \A b \in S : b.data \in Nat

(* h is the running sum of the sizes of a list. *)
SummedBy(h, s) ==
  /\ h \in [0 .. Len(s) -> Nat]
  /\ h[0] = 0
  /\ \A i \in 1 .. Len(s) : h[i] = h[i - 1] + s[i].data

(* There is such a sum. *)
LEMMA SumExists ==
  ASSUME NEW S, Sized(S), NEW s \in Seq(S)
  PROVE  \E h : SummedBy(h, s)
<1> DEFINE n == Len(s)
           g == [p \in Nat \X Nat |->
                  IF p[1] \in 1 .. n THEN p[2] + s[p[1]].data ELSE p[2]]
<1>1. n \in Nat /\ \A i \in 1 .. n : s[i].data \in Nat
  BY LenProperties DEF Sized
<1>2. g \in [Nat \X Nat -> Nat]
  BY <1>1
<1>3. PICK f \in [0 .. n -> Nat] : FromLeft(f, n, 0, g)
  <2> HIDE DEF g, n
  <2> QED
    BY <1>1, <1>2, RecursiveFunctionExists
<1>4. ASSUME NEW i \in 1 .. n PROVE f[i] = f[i - 1] + s[i].data
  <2>1. i - 1 \in 0 .. n /\ i \in Nat
    BY <1>1
  <2>2. f[i - 1] \in Nat
    BY <1>3, <2>1
  <2>3. /\ <<i, f[i - 1]>> \in Nat \X Nat
        /\ <<i, f[i - 1]>>[1] = i /\ <<i, f[i - 1]>>[2] = f[i - 1]
    BY <2>1, <2>2
  <2>4. g[<<i, f[i - 1]>>] = f[i - 1] + s[i].data
    BY <2>3
  <2>5. f[i] = g[<<i, f[i - 1]>>]
    BY <1>3 DEF FromLeft
  <2>6. QED
    BY <2>4, <2>5
<1>5. QED
  BY <1>3, <1>4 DEF SummedBy, FromLeft

(* And it ends with Total. *)
LEMMA SumIs ==
  ASSUME NEW S, NEW s \in Seq(S), NEW h, SummedBy(h, s)
  PROVE  Total(s) = h[Len(s)]
<1> DEFINE n == Len(s)
           Run(f) == [i \in 0 .. n |-> IF i = 0 THEN 0 ELSE f[i - 1] + s[i].data]
           c == CHOOSE f : f = Run(f)
<1>1. n \in Nat
  BY LenProperties
<1>2. h = Run(h)
  <2>1. ASSUME NEW i \in 0 .. n PROVE h[i] = IF i = 0 THEN 0 ELSE h[i - 1] + s[i].data
    <3>1. CASE i = 0
      BY <3>1 DEF SummedBy
    <3>2. CASE i # 0
      <4>1. i \in 1 .. n
        BY <1>1, <3>2
      <4>2. QED
        BY <3>2, <4>1 DEF SummedBy
    <3>3. QED
      BY <3>1, <3>2
  <2>2. h \in [0 .. n -> Nat]
    BY DEF SummedBy
  <2> HIDE DEF n
  <2>3. QED
    BY <2>1, <2>2
<1>3. c = Run(c)
  <2> HIDE DEF Run
  <2> QED
    BY <1>2
<1>4. Total(s) = c[n]
  BY DEF Total
<1> HIDE DEF c
<1>5. c[0] = 0 /\ \A i \in 1 .. n : c[i] = c[i - 1] + s[i].data
  <2> HIDE DEF n
  <2> QED
    BY <1>1, <1>3
<1>6. h[0] = 0 /\ \A i \in 1 .. n : h[i] = h[i - 1] + s[i].data
  BY DEF SummedBy
<1> HIDE DEF n
<1> DEFINE T == {i \in Nat : i <= n => c[i] = h[i]}
<1>7. 0 \in T
  BY <1>5, <1>6
<1>8. ASSUME NEW i \in Nat, i \in T PROVE i + 1 \in T
  <2>1. SUFFICES ASSUME i + 1 <= n PROVE c[i + 1] = h[i + 1]
    OBVIOUS
  <2>2. c[i] = h[i] /\ i + 1 \in 1 .. n /\ (i + 1) - 1 = i
    BY <1>1, <1>8, <2>1
  <2>3. c[i + 1] = c[i] + s[i + 1].data /\ h[i + 1] = h[i] + s[i + 1].data
    BY <1>5, <1>6, <2>2
  <2>4. QED
    BY <2>2, <2>3
<1>9. n \in T
  <2> HIDE DEF T
  <2> QED
    BY <1>1, <1>7, <1>8, NatSetInduction
<1>10. QED
  BY <1>4, <1>9 DEF n

(* The sum is a number, and that of no block is 0. *)
LEMMA TotalType ==
  ASSUME NEW S, Sized(S), NEW s \in Seq(S)
  PROVE  Total(s) \in Nat /\ (s = << >> => Total(s) = 0)
<1>1. PICK h : SummedBy(h, s)
  BY SumExists
<1>2. Total(s) = h[Len(s)] /\ Len(s) \in Nat
  BY <1>1, SumIs, LenProperties
<1>3. s = << >> => Len(s) = 0
  OBVIOUS
<1>4. QED
  BY <1>1, <1>2, <1>3 DEF SummedBy

(* Sums add up. *)
LEMMA TotalConcat ==
  ASSUME NEW S, Sized(S), NEW s \in Seq(S), NEW t \in Seq(S)
  PROVE  Total(s \o t) = Total(s) + Total(t)
<1> DEFINE m == Len(s)
           n == Len(t)
           st == s \o t
<1>1. PICK f : SummedBy(f, s)
  BY SumExists
<1>2. PICK h : SummedBy(h, t)
  BY SumExists
<1>3. Total(s) = f[m] /\ Total(t) = h[n]
  BY <1>1, <1>2, SumIs
<1>4. /\ f \in [0 .. m -> Nat] /\ f[0] = 0
      /\ \A i \in 1 .. m : f[i] = f[i - 1] + s[i].data
  BY <1>1 DEF SummedBy
<1>5. /\ h \in [0 .. n -> Nat] /\ h[0] = 0
      /\ \A i \in 1 .. n : h[i] = h[i - 1] + t[i].data
  BY <1>2 DEF SummedBy
<1>6. /\ st \in Seq(S) /\ Len(st) = m + n /\ m \in Nat /\ n \in Nat
      /\ \A i \in 1 .. m + n : st[i] = IF i <= m THEN s[i] ELSE t[i - m]
  BY ConcatProperties, LenProperties
<1> HIDE DEF m, n, st
<1> DEFINE k == [i \in 0 .. m + n |-> IF i <= m THEN f[i] ELSE f[m] + h[i - m]]
<1>7. k \in [0 .. m + n -> Nat]
  <2>1. ASSUME NEW i \in 0 .. m + n
        PROVE  (IF i <= m THEN f[i] ELSE f[m] + h[i - m]) \in Nat
    <3>1. CASE i <= m
      BY <1>4, <1>6, <3>1
    <3>2. CASE ~(i <= m)
      <4>1. i - m \in 0 .. n /\ m \in 0 .. m
        BY <1>6, <3>2
      <4>2. f[m] \in Nat /\ h[i - m] \in Nat
        BY <1>4, <1>5, <4>1
      <4>3. QED
        BY <3>2, <4>2
    <3>3. QED
      BY <3>1, <3>2
  <2>2. QED
    BY <2>1
<1>8. ASSUME NEW i \in 1 .. m + n PROVE k[i] = k[i - 1] + st[i].data
  <2>1. i \in 0 .. m + n /\ i - 1 \in 0 .. m + n
    BY <1>6
  <2>2. CASE i <= m
    <3>1. i \in 1 .. m /\ i - 1 <= m
      BY <1>6, <2>2
    <3>2. k[i] = f[i] /\ k[i - 1] = f[i - 1] /\ st[i] = s[i]
      BY <1>6, <2>1, <3>1
    <3>3. QED
      BY <1>4, <3>1, <3>2
  <2>3. CASE i = m + 1
    <3>1. ~(i <= m) /\ i - 1 = m /\ m <= m /\ i - m = 1 /\ 1 \in 1 .. n /\ 1 - 1 = 0 /\ m \in 0 .. m
      BY <1>6, <2>3
    <3>2. k[i] = f[m] + h[1] /\ k[i - 1] = f[m] /\ st[i] = t[1]
      BY <1>6, <2>1, <3>1
    <3>3. h[1] = 0 + t[1].data /\ f[m] \in Nat /\ h[1] \in Nat
      <4>1. h[1] = h[1 - 1] + t[1].data /\ 1 \in 0 .. n
        BY <1>5, <1>6, <3>1
      <4>2. f[m] \in Nat /\ h[1] \in Nat
        BY <1>4, <1>5, <3>1, <4>1
      <4>3. h[1 - 1] = 0
        BY <1>5
      <4>4. QED
        BY <4>1, <4>2, <4>3
    <3>4. h[1] = t[1].data
      <4>1. t[1].data \in Nat
        BY <1>2, <3>1 DEF Sized, n
      <4>2. QED
        BY <3>3, <4>1
    <3>5. QED
      BY <3>2, <3>3, <3>4
  <2>4. CASE i > m + 1
    <3>1. ~(i <= m) /\ ~(i - 1 <= m) /\ i - m \in 1 .. n /\ (i - 1) - m = (i - m) - 1
          /\ (i - m) - 1 \in 0 .. n /\ i - m \in 0 .. n /\ m \in 0 .. m
      BY <1>6, <2>4
    <3>2. k[i] = f[m] + h[i - m] /\ k[i - 1] = f[m] + h[(i - m) - 1] /\ st[i] = t[i - m]
      BY <1>6, <2>1, <3>1
    <3>3. h[i - m] = h[(i - m) - 1] + t[i - m].data
      BY <1>5, <3>1
    <3>4. f[m] \in Nat /\ h[(i - m) - 1] \in Nat /\ t[i - m].data \in Nat
      <4>1. t[i - m] \in S
        BY <3>1 DEF n
      <4>2. QED
        BY <1>4, <1>5, <3>1, <4>1 DEF Sized
    <3>5. QED
      <4> DEFINE a == f[m]
                 b == h[(i - m) - 1]
                 d == t[i - m].data
      <4>1. k[i] = a + (b + d) /\ k[i - 1] = a + b /\ st[i].data = d
        BY <3>2, <3>3
      <4>2. a \in Nat /\ b \in Nat /\ d \in Nat
        BY <3>4
      <4> HIDE DEF a, b, d, k
      <4>3. QED
        BY <4>1, <4>2
  <2>5. QED
    BY <1>6, <2>2, <2>3, <2>4
<1>9. k[0] = 0
  BY <1>4, <1>6
<1>10. k[m + n] = f[m] + h[n]
  <2>1. CASE n = 0
    <3>1. m + n <= m /\ m + n = m /\ m \in 0 .. m + n /\ m \in 0 .. m
      BY <1>6, <2>1
    <3>2. k[m] = f[m] /\ f[m] \in Nat
      BY <1>4, <3>1
    <3>3. QED
      BY <1>5, <2>1, <3>1, <3>2
  <2>2. CASE n # 0
    <3>1. ~(m + n <= m) /\ (m + n) - m = n /\ m + n \in 0 .. m + n
      BY <1>6, <2>2
    <3>2. QED
      BY <3>1
  <2>3. QED
    BY <2>1, <2>2
<1> HIDE DEF k
<1>11. SummedBy(k, st)
  BY <1>6, <1>7, <1>8, <1>9 DEF SummedBy
<1>12. Total(st) = k[m + n]
  BY <1>6, <1>11, SumIs
<1>13. QED
  BY <1>3, <1>10, <1>12 DEF st

(* Blocks of one size add up to their number times the size. *)
LEMMA TotalOfEqual ==
  ASSUME NEW S, NEW s \in Seq(S), NEW d \in Nat, \A i \in 1 .. Len(s) : s[i].data = d
  PROVE  Total(s) = Len(s) * d
<1> DEFINE n == Len(s)
           k == [i \in 0 .. n |-> i * d]
<1>1. n \in Nat
  BY LenProperties
<1>2. \A i \in 1 .. n : s[i].data = d
  OBVIOUS
<1> HIDE DEF n
<1>3. \A i \in 0 .. n : i * d \in Nat
  BY <1>1
<1>4. k \in [0 .. n -> Nat]
  BY <1>3
<1>5. ASSUME NEW i \in 1 .. n PROVE k[i] = k[i - 1] + s[i].data
  <2>1. i \in 0 .. n /\ i - 1 \in 0 .. n /\ s[i].data = d
    BY <1>1, <1>2
  <2>2. k[i] = i * d /\ k[i - 1] = (i - 1) * d
    BY <2>1
  <2>3. i * d = (i - 1) * d + d
    BY <1>1, <2>1
  <2>4. QED
    BY <2>1, <2>2, <2>3
<1>6. k[0] = 0 /\ k[n] = n * d
  BY <1>1
<1> HIDE DEF k
<1>7. SummedBy(k, s)
  BY <1>4, <1>5, <1>6 DEF SummedBy, n
<1>8. Total(s) = k[n]
  BY <1>7, SumIs DEF n
<1>9. QED
  BY <1>6, <1>8 DEF n

(* Taking a block out takes its size from the sum. *)
LEMMA TotalRemoved ==
  ASSUME NEW S, Sized(S), NEW s \in Seq(S), NEW i \in 1 .. Len(s)
  PROVE  Total(RemoveAt(s, i)) <= Total(s)
<1> DEFINE n == Len(s)
           t == SubSeq(s, 1, i - 1)
           m == SubSeq(s, i, n)
           u == SubSeq(s, i + 1, n)
           x == <<s[i]>>
<1>1. n \in Nat /\ i \in 1 .. n /\ s[i] \in S
  BY LenProperties
<1>2. 1 \in 1 .. n + 1 /\ i - 1 \in 0 .. n /\ i + 1 \in 1 .. n + 1 /\ n \in 0 .. n /\ i \in 1 .. n + 1
      /\ n \in i .. n /\ n \in i - 1 .. n /\ i - 1 \in 1 - 1 .. n /\ (i - 1) + 1 = i
  BY <1>1
<1>3. t \in Seq(S) /\ m \in Seq(S) /\ u \in Seq(S) /\ x \in Seq(S)
  BY <1>1, <1>2, PartOf
<1>4. m = x \o u
  BY <1>1, <1>2, SubSeqRecursiveFirst
<1>5. s = t \o m
  <2>1. SubSeq(s, 1, i - 1) \o SubSeq(s, (i - 1) + 1, n) = SubSeq(s, 1, n)
    BY <1>2, ConcatAdjacentSubSeq
  <2>2. SubSeq(s, 1, n) = s
    BY SubSeqFull
  <2>3. QED
    BY <1>2, <2>1, <2>2
<1>6. RemoveAt(s, i) = t \o u
  BY DEF RemoveAt
<1> HIDE DEF t, m, u, x, n
<1>7. Total(s) = Total(t) + (Total(x) + Total(u))
  <2>1. Total(t \o m) = Total(t) + Total(m)
    BY <1>3, TotalConcat
  <2>2. Total(x \o u) = Total(x) + Total(u)
    BY <1>3, TotalConcat
  <2>3. QED
    BY <1>4, <1>5, <2>1, <2>2
<1>8. Total(RemoveAt(s, i)) = Total(t) + Total(u)
  BY <1>3, <1>6, TotalConcat
<1>9. Total(t) \in Nat /\ Total(x) \in Nat /\ Total(u) \in Nat
  BY <1>3, TotalType
<1>10. QED
  BY <1>7, <1>8, <1>9

(* Rounding up reaches the next multiple, which is less than one away. *)
LEMMA RoundedUp ==
  ASSUME NEW n \in Nat, NEW m \in Nat \ {0}
  PROVE  /\ RoundUp(n, m) \in Nat
         /\ n <= RoundUp(n, m) /\ RoundUp(n, m) < n + m
         /\ RoundUp(n, m) \div m \in Nat
         /\ RoundUp(n, m) = (RoundUp(n, m) \div m) * m
<1> DEFINE x == n + m - 1
           q == x \div m
<1>1. x \in Nat /\ q \in Nat
  BY SMT
<1>2. q * m <= x /\ x < q * m + m
  BY SMT, <1>1
<1>3. RoundUp(n, m) = q * m
  BY DEF RoundUp
<1> DEFINE y == q * m
<1>4. y \in Nat
  BY SMT, <1>1
<1>5. y \div m = q
  BY SMT, <1>1
<1> HIDE DEF q, x, y
<1>6. n <= y /\ y < n + m
  BY <1>1, <1>2, <1>4 DEF x, y
<1>7. QED
  BY <1>1, <1>3, <1>4, <1>5, <1>6 DEF y

(* What is a multiple stays. *)
LEMMA AlignedStays ==
  ASSUME NEW n \in Nat, NEW m \in Nat \ {0}, n % m = 0
  PROVE  RoundUp(n, m) = n
<1> DEFINE q == n \div m
           r == RoundUp(n, m)
           k == r \div m
<1>1. q \in Nat /\ n = q * m
  BY SMT
<1>2. k \in Nat /\ r \in Nat /\ n <= r /\ r < n + m /\ r = k * m
  BY RoundedUp
<1> HIDE DEF q, r, k
<1>3. k < q + 1
  <2>1. SUFFICES ASSUME q + 1 <= k PROVE FALSE
    BY <1>1, <1>2
  <2>2. (q + 1) * m <= k * m
    BY <1>1, <1>2, <2>1, SMT
  <2>3. (q + 1) * m = n + m
    BY <1>1, SMT
  <2>4. QED
    BY <1>2, <2>2, <2>3
<1>4. q <= k
  <2>1. SUFFICES ASSUME k + 1 <= q PROVE FALSE
    BY <1>1, <1>2
  <2>2. (k + 1) * m <= q * m
    BY <1>1, <1>2, <2>1, SMT
  <2>3. (k + 1) * m = r + m
    BY <1>2, SMT
  <2>4. QED
    BY <1>1, <1>2, <2>2, <2>3
<1>5. k = q
  BY <1>1, <1>2, <1>3, <1>4
<1>6. QED
  BY <1>1, <1>2, <1>5 DEF r

(* The smaller of two numbers. *)
LEMMA MinOfTwo ==
  ASSUME NEW a \in Int, NEW b \in Int
  PROVE  Min({a, b}) = IF a <= b THEN a ELSE b
<1> DEFINE c == IF a <= b THEN a ELSE b
<1>1. c \in {a, b} /\ \A y \in {a, b} : c <= y
  OBVIOUS
<1>2. \A x \in {a, b} : (\A y \in {a, b} : x <= y) => x = c
  OBVIOUS
<1> HIDE DEF c
<1>3. (CHOOSE x \in {a, b} : \A y \in {a, b} : x <= y) = c
  BY <1>1, <1>2
<1>4. QED
  BY <1>3 DEF Min, c

(* A new entry at the end of a sequence without repetitions. *)
LEMMA AppendedNew ==
  ASSUME NEW S, NEW s \in Seq(S), NEW e \in S, \A i \in 1 .. Len(s) : s[i] # e,
         IsInjective(s)
  PROVE  IsInjective(Append(s, e))
<1> DEFINE g == Append(s, e)
           n == Len(s)
<1>1. /\ n \in Nat /\ DOMAIN s = 1 .. n
      /\ DOMAIN g = 1 .. n + 1
      /\ \A j \in 1 .. n : g[j] = s[j]
      /\ g[n + 1] = e
  BY AppendProperties, LenProperties
<1> HIDE DEF g
<1>2. \A j \in 1 .. n + 1 : j \in 1 .. n \/ j = n + 1
  BY <1>1
<1>3. SUFFICES ASSUME NEW j \in 1 .. n + 1, NEW k \in 1 .. n + 1, g[j] = g[k]
               PROVE  j = k
  BY <1>1 DEF IsInjective, g
<1>4. \A l, m \in 1 .. n : s[l] = s[m] => l = m
  BY <1>1 DEF IsInjective
<1> HIDE DEF n
<1>5. \A i \in 1 .. n : s[i] # e
  BY DEF n
<1>6. QED
  BY <1>1, <1>2, <1>3, <1>4, <1>5

(* f chooses, from left to right, the blocks of size d of a list over S.   *)
ChosenBy(f, S, s, d) ==
  /\ f \in [0 .. Len(s) -> Seq(S)]
  /\ f[0] = << >>
  /\ \A i \in 1 .. Len(s) :
       f[i] = IF s[i].data = d THEN Append(f[i - 1], s[i]) ELSE f[i - 1]

(* There is such a choice. *)
LEMMA ChoiceExists ==
  ASSUME NEW S, NEW s \in Seq(S), NEW d
  PROVE  \E f : ChosenBy(f, S, s, d)
<1> DEFINE n == Len(s)
           D == Seq(S)
           g == [p \in Nat \X D |->
                  IF p[1] \in 1 .. n /\ s[p[1]].data = d THEN Append(p[2], s[p[1]])
                  ELSE p[2]]
<1>1. n \in Nat /\ \A i \in 1 .. n : s[i] \in S
  BY LenProperties
<1>2. ASSUME NEW i \in Nat, NEW b \in D
      PROVE  (IF i \in 1 .. n /\ s[i].data = d THEN Append(b, s[i]) ELSE b) \in D
  BY <1>1, AppendProperties
<1> HIDE DEF D, n
<1>3. g \in [Nat \X D -> D]
  BY <1>2
<1>4. << >> \in D
  BY EmptySeq DEF D
<1>5. PICK f \in [0 .. n -> D] : FromLeft(f, n, << >>, g)
  <2> HIDE DEF g
  <2> QED
    BY <1>1, <1>3, <1>4, RecursiveFunctionExists
<1>6. ASSUME NEW i \in 1 .. n
      PROVE  f[i] = IF s[i].data = d THEN Append(f[i - 1], s[i]) ELSE f[i - 1]
  <2>1. i - 1 \in 0 .. n /\ i \in Nat
    BY <1>1
  <2>2. f[i - 1] \in D
    BY <1>5, <2>1
  <2>3. /\ <<i, f[i - 1]>> \in Nat \X D
        /\ <<i, f[i - 1]>>[1] = i /\ <<i, f[i - 1]>>[2] = f[i - 1]
    BY <2>1, <2>2
  <2>4. g[<<i, f[i - 1]>>] = IF s[i].data = d THEN Append(f[i - 1], s[i]) ELSE f[i - 1]
    BY <2>3
  <2>5. f[i] = g[<<i, f[i - 1]>>]
    BY <1>5 DEF FromLeft
  <2>6. QED
    BY <2>4, <2>5
<1>7. QED
  BY <1>5, <1>6 DEF ChosenBy, FromLeft, D, n

(* And it ends with OfSize. *)
LEMMA ChoiceIs ==
  ASSUME NEW S, NEW s \in Seq(S), NEW d, NEW f, ChosenBy(f, S, s, d)
  PROVE  OfSize(s, d) = f[Len(s)]
<1> DEFINE n == Len(s)
           Turn(h, i) == IF s[i].data = d THEN Append(h[i - 1], s[i]) ELSE h[i - 1]
           Run(h) == [i \in 0 .. n |-> IF i = 0 THEN << >>
                                       ELSE IF s[i].data = d THEN Append(h[i - 1], s[i])
                                       ELSE h[i - 1]]
           c == CHOOSE h : h = Run(h)
<1>1. n \in Nat
  BY LenProperties
<1>2. f = Run(f)
  <2>1. ASSUME NEW i \in 0 .. n PROVE f[i] = IF i = 0 THEN << >> ELSE Turn(f, i)
    <3>1. CASE i = 0
      BY <3>1 DEF ChosenBy
    <3>2. CASE i # 0
      <4>1. i \in 1 .. n
        BY <1>1, <3>2
      <4>2. f[i] = Turn(f, i)
        BY <4>1 DEF ChosenBy
      <4>3. QED
        BY <3>2, <4>2
    <3>3. QED
      BY <3>1, <3>2
  <2>2. f \in [0 .. n -> Seq(S)]
    BY DEF ChosenBy
  <2>3. Run(f) = [i \in 0 .. n |-> IF i = 0 THEN << >> ELSE Turn(f, i)]
    OBVIOUS
  <2> HIDE DEF n, Turn, Run
  <2>4. QED
    BY <2>1, <2>2, <2>3
<1>3. c = Run(c)
  <2> HIDE DEF Run
  <2> QED
    BY <1>2
<1>4. OfSize(s, d) = c[n]
  BY DEF OfSize
<1> HIDE DEF c
<1>5. c[0] = << >> /\ \A i \in 1 .. n : c[i] = Turn(c, i)
  <2>1. Run(c) = [i \in 0 .. n |-> IF i = 0 THEN << >> ELSE Turn(c, i)]
    OBVIOUS
  <2> HIDE DEF Turn, n, Run
  <2> QED
    BY <1>1, <1>3, <2>1
<1>6. f[0] = << >> /\ \A i \in 1 .. n : f[i] = Turn(f, i)
  BY DEF ChosenBy
<1> HIDE DEF n
<1> DEFINE T == {i \in Nat : i <= n => c[i] = f[i]}
<1>7. 0 \in T
  BY <1>5, <1>6
<1>8. ASSUME NEW i \in Nat, i \in T PROVE i + 1 \in T
  <2>1. SUFFICES ASSUME i + 1 <= n PROVE c[i + 1] = f[i + 1]
    OBVIOUS
  <2>2. c[i] = f[i] /\ i + 1 \in 1 .. n /\ (i + 1) - 1 = i
    BY <1>1, <1>8, <2>1
  <2>3. Turn(c, i + 1) = Turn(f, i + 1)
    BY <2>2
  <2>4. QED
    BY <1>5, <1>6, <2>2, <2>3
<1>9. n \in T
  <2> HIDE DEF T
  <2> QED
    BY <1>1, <1>7, <1>8, NatSetInduction
<1>10. QED
  BY <1>4, <1>9 DEF n

(* What is chosen is of the size, of the list, and without repetitions if  *)
(* the list is.                                                            *)
LEMMA OfSizeChooses ==
  ASSUME NEW S, NEW s \in Seq(S), NEW d
  PROVE  /\ OfSize(s, d) \in Seq(S)
         /\ \A j \in 1 .. Len(OfSize(s, d)) : OfSize(s, d)[j].data = d
         /\ Range(OfSize(s, d)) \subseteq Range(s)
         /\ IsInjective(s) => IsInjective(OfSize(s, d))
<1>1. PICK f : ChosenBy(f, S, s, d)
  BY ChoiceExists
<1> DEFINE n == Len(s)
<1>2. OfSize(s, d) = f[n] /\ n \in Nat /\ DOMAIN s = 1 .. n
  BY <1>1, ChoiceIs, LenProperties
<1>3. \A i \in 1 .. n : s[i] \in S
  OBVIOUS
<1>4. /\ f \in [0 .. n -> Seq(S)] /\ f[0] = << >>
      /\ \A i \in 1 .. n : f[i] = IF s[i].data = d THEN Append(f[i - 1], s[i]) ELSE f[i - 1]
  BY <1>1 DEF ChosenBy
<1> HIDE DEF n
<1> DEFINE From(i) == \A j \in 1 .. Len(f[i]) :
                        f[i][j].data = d /\ \E k \in 1 .. i : f[i][j] = s[k]
           Once(i) == IsInjective(s) => IsInjective(f[i])
           T == {i \in Nat : i <= n => From(i) /\ Once(i)}
<1>5. 0 \in T
  <2>1. Len(f[0]) = 0 /\ IsInjective(f[0])
    BY <1>4 DEF IsInjective
  <2>2. QED
    BY <2>1
<1>6. ASSUME NEW i \in Nat, i \in T PROVE i + 1 \in T
  <2>1. SUFFICES ASSUME i + 1 <= n PROVE From(i + 1) /\ Once(i + 1)
    <3> HIDE DEF From, Once, n
    <3>1. i + 1 \in Nat
      OBVIOUS
    <3>2. QED
      BY <3>1
  <2>2. i \in 0 .. n /\ i + 1 \in 1 .. n /\ (i + 1) - 1 = i
    BY <1>2, <2>1
  <2>3. From(i) /\ Once(i) /\ f[i] \in Seq(S) /\ s[i + 1] \in S
    BY <1>3, <1>4, <1>6, <2>2
  <2>4. f[i + 1] = IF s[i + 1].data = d THEN Append(f[i], s[i + 1]) ELSE f[i]
    BY <1>4, <2>2
  <2>5. CASE s[i + 1].data # d
    <3>1. f[i + 1] = f[i]
      BY <2>4, <2>5
    <3>2. \A k \in 1 .. i : k \in 1 .. i + 1
      BY <2>2
    <3>3. QED
      BY <2>3, <3>1, <3>2
  <2>6. CASE s[i + 1].data = d
    <3> DEFINE b == f[i]
               e == s[i + 1]
               m == Len(f[i])
    <3>1. f[i + 1] = Append(b, e)
      BY <2>4, <2>6
    <3>2. /\ m \in Nat /\ Len(f[i + 1]) = m + 1
          /\ \A j \in 1 .. m : f[i + 1][j] = b[j]
          /\ f[i + 1][m + 1] = e
      <4> HIDE DEF e
      <4>1. b \in Seq(S) /\ e \in S
        BY <2>3 DEF e
      <4>2. QED
        BY <3>1, <4>1, AppendProperties, LenProperties
    <3>3. From(i + 1)
      <4>1. SUFFICES ASSUME NEW j \in 1 .. Len(f[i + 1])
                     PROVE  f[i + 1][j].data = d /\ \E k \in 1 .. i + 1 : f[i + 1][j] = s[k]
        OBVIOUS
      <4>2. CASE j = m + 1
        BY <2>2, <2>6, <3>2, <4>2
      <4>3. CASE j # m + 1
        <5>1. j \in 1 .. m
          BY <3>2, <4>3
        <5>2. b[j].data = d /\ \E k \in 1 .. i : b[j] = s[k]
          BY <2>3, <5>1
        <5>3. \A k \in 1 .. i : k \in 1 .. i + 1
          BY <2>2
        <5>4. QED
          BY <3>2, <5>1, <5>2, <5>3
      <4>4. QED
        BY <4>2, <4>3
    <3>4. ASSUME IsInjective(s) PROVE IsInjective(f[i + 1])
      <4>1. \A j \in 1 .. m : b[j] # e
        <5>1. TAKE j \in 1 .. m
        <5>2. PICK k \in 1 .. i : b[j] = s[k]
          BY <2>3
        <5>3. k \in DOMAIN s /\ i + 1 \in DOMAIN s /\ k # i + 1
          BY <1>2, <2>2
        <5>4. s[k] # s[i + 1]
          BY <3>4, <5>3 DEF IsInjective
        <5>5. QED
          BY <5>2, <5>4
      <4>2. b \in Seq(S) /\ e \in S /\ IsInjective(b)
        BY <2>3, <3>4
      <4> HIDE DEF e, b
      <4>3. \A j \in 1 .. Len(b) : b[j] # e
        BY <4>1 DEF b
      <4>4. IsInjective(Append(b, e))
        BY <4>2, <4>3, AppendedNew
      <4>5. QED
        BY <3>1, <4>4
    <3>5. QED
      BY <3>3, <3>4
  <2>7. QED
    BY <2>5, <2>6
<1>7. n \in T
  <2> HIDE DEF T
  <2> QED
    BY <1>2, <1>5, <1>6, NatSetInduction
<1>8. From(n) /\ Once(n) /\ f[n] \in Seq(S)
  BY <1>2, <1>4, <1>7
<1>9. Range(f[n]) \subseteq Range(s)
  <2>1. SUFFICES ASSUME NEW x \in Range(f[n]) PROVE x \in Range(s)
    OBVIOUS
  <2>2. PICK j \in 1 .. Len(f[n]) : f[n][j] = x
    BY <1>8, InRange
  <2>3. PICK k \in 1 .. n : f[n][j] = s[k]
    BY <1>8
  <2>4. QED
    BY <1>2, <2>2, <2>3 DEF Range
<1>10. QED
  BY <1>2, <1>8, <1>9

-----------------------------------------------------------------------------
(* PincArena: the invariant.  The blocks of the heap have different names, *)
(* and room for more than their header.                                    *)
HeapGood ==
  /\ IsFiniteSet(heap) /\ heap \subseteq Blocks
  /\ \A b, c \in heap : b.id = c.id => b = c
  /\ \A b \in heap : Header < b.data

(* Both lists hold blocks of the heap, each once, and only large blocks    *)
(* are on neither.                                                         *)
ListsGood ==
  /\ blocks \in Seq(heap) /\ empty \in Seq(heap)
  /\ Apart(blocks, empty)
  /\ \A b \in heap : b \in Range(blocks) \/ b \in Range(empty) \/ IsLarge(b)

(* The allocations are in blocks of the stack, those of the top block      *)
(* before lastBlockUsed; with no block there is none.                      *)
AllocsGood ==
  /\ used \in Nat
  /\ blocks = << >> => used = 0
  /\ allocs \subseteq Allocations
  /\ \A a \in allocs : Header <= a.at /\ \E b \in Range(blocks) : b.id = a.block
  /\ blocks # << >> =>
       \A a \in allocs : a.block = Head(blocks).id => a.at + a.size <= Header + used

ArenaInv ==
  /\ HeapGood
  /\ ListsGood
  /\ AllocsGood
  /\ AllocationsDisjoint
  /\ ReserveBounded

(* The constants are numbers. *)
LEMMA ArenaNumbers ==
  /\ Header \in Nat \ {0} /\ Align \in Nat \ {0} /\ BlockSize \in Nat \ {0}
  /\ Buckets \in Nat \ {0} /\ Tries \in Nat \ {0}
  /\ Keep \in Nat /\ MaxBlocks \in Nat /\ Sizes \subseteq Nat
  /\ MaxUsed \in Nat /\ MaxAllocs \in Nat
BY PincArenaAssumption

(* The blocks of the heap have sizes. *)
LEMMA HeapSized ==
  ASSUME HeapGood
  PROVE  Sized(heap)
BY DEF HeapGood, Blocks, Sized

(* All blocks are on the list that a reset begins with, each once. *)
LEMMA AllEmptyHolds ==
  ASSUME ListsGood
  PROVE  /\ AllEmpty \in Seq(heap) /\ IsInjective(AllEmpty)
         /\ Range(AllEmpty) = Range(blocks) \cup Range(empty)
<1> DEFINE r == Reverse(blocks)
<1>1. blocks \in Seq(heap) /\ empty \in Seq(heap) /\ Apart(blocks, empty)
  BY DEF ListsGood
<1>2. r \in Seq(heap) /\ Range(r) = Range(blocks) /\ IsInjective(r)
  BY <1>1, ReverseKeeps DEF Apart
<1>3. Apart(r, empty)
  BY <1>1, <1>2 DEF Apart
<1>4. AllEmpty = r \o empty
  BY DEF AllEmpty
<1> HIDE DEF r
<1>5. QED
  BY <1>1, <1>2, <1>3, <1>4, ConcatProperties, ConcatApart, RangeConcatenation

(* The blocks of a bucket. *)
LEMMA BucketHolds ==
  ASSUME ListsGood, NEW n \in 1 .. Buckets
  PROVE  /\ Bucket(n) \in Seq(heap) /\ IsInjective(Bucket(n))
         /\ Range(Bucket(n)) \subseteq Range(AllEmpty)
         /\ \A j \in 1 .. Len(Bucket(n)) : Bucket(n)[j].data = n * BlockSize
<1> DEFINE A == AllEmpty
           d == n * BlockSize
<1>1. A \in Seq(heap) /\ IsInjective(A)
  BY AllEmptyHolds
<1>2. Bucket(n) = OfSize(A, d)
  BY DEF Bucket
<1> HIDE DEF A, d
<1>3. /\ OfSize(A, d) \in Seq(heap)
      /\ \A j \in 1 .. Len(OfSize(A, d)) : OfSize(A, d)[j].data = d
      /\ Range(OfSize(A, d)) \subseteq Range(A)
      /\ IsInjective(A) => IsInjective(OfSize(A, d))
  BY <1>1, OfSizeChooses
<1>4. QED
  BY <1>1, <1>2, <1>3 DEF A, d

(* The size of a bucket's blocks is a positive number, and they are small. *)
LEMMA BucketSize ==
  ASSUME NEW n \in 1 .. Buckets
  PROVE  /\ n * BlockSize \in Nat \ {0}
         /\ \A b : b.data = n * BlockSize => ~IsLarge(b)
         /\ n * BlockSize < (n + 1) * BlockSize
<1>1. BlockSize \in Nat \ {0} /\ Buckets \in Nat /\ n \in Nat /\ n > 0 /\ n <= Buckets
  BY ArenaNumbers
<1> DEFINE d == n * BlockSize
<1>2. d \in Nat /\ d > 0
  BY SMT, <1>1
<1>3. d \div BlockSize = n
  BY SMT, <1>1
<1>4. (n + 1) * BlockSize = d + BlockSize
  BY SMT, <1>1
<1> HIDE DEF d
<1>5. ASSUME NEW b, b.data = d PROVE ~IsLarge(b)
  BY <1>1, <1>3, <1>5 DEF IsLarge
<1>6. d < (n + 1) * BlockSize
  BY <1>1, <1>2, <1>4
<1>7. QED
  BY <1>2, <1>5, <1>6 DEF d

(* How many of a bucket's m blocks are kept and counted, when `kept` bytes *)
(* were: none if they are enough, else as many as there are, or one more   *)
(* than it takes.                                                          *)
LEMMA KeptAndCounted ==
  ASSUME ListsGood, NEW n \in 1 .. Buckets, NEW kept \in Nat,
         NEW m \in Nat, m = Len(Bucket(n)),
         NEW d \in Nat \ {0}, d = n * BlockSize
  PROVE  /\ kept >= Keep => KeptOf(n, kept) = 0 /\ Counted(n, kept) = 0
         /\ kept < Keep =>
              /\ Counted(n, kept) \in Nat /\ KeptOf(n, kept) \in 0 .. m
              /\ d * Counted(n, kept) \in Nat
              /\ kept + d * Counted(n, kept) < Keep + d
              /\ \/ KeptOf(n, kept) = Counted(n, kept)
                 \/ /\ KeptOf(n, kept) = Counted(n, kept) + 1
                    /\ kept + d * Counted(n, kept) >= Keep
<1> DEFINE c == Counted(n, kept)
           k == KeptOf(n, kept)
           x == Keep - kept
           q == RoundUp(x, d) \div d
<1>1. kept >= Keep => k = 0 /\ c = 0
  BY DEF KeptOf, Counted
<1>2. ASSUME kept < Keep
      PROVE  /\ c \in Nat /\ k \in 0 .. m
             /\ d * c \in Nat
             /\ kept + d * c < Keep + d
             /\ k = c \/ (k = c + 1 /\ kept + d * c >= Keep)
  <2>1. x \in Nat /\ Keep \in Nat /\ ~(kept >= Keep)
    BY <1>2, ArenaNumbers
  <2>2. q \in Nat /\ x <= q * d /\ q * d < x + d
    <3> HIDE DEF x
    <3>1. /\ RoundUp(x, d) \in Nat /\ x <= RoundUp(x, d) /\ RoundUp(x, d) < x + d
          /\ q \in Nat /\ RoundUp(x, d) = q * d
      BY <2>1, RoundedUp
    <3>2. QED
      BY <3>1
  <2>3. c = Min({m, q})
    BY <2>1 DEF Counted
  <2>4. k = Min({m, c + 1})
    BY <2>1 DEF KeptOf
  <2> HIDE DEF c, k, q, x
  <2>5. c = IF m <= q THEN m ELSE q
    <3>1. m \in Int /\ q \in Int
      BY <2>2
    <3>2. Min({m, q}) = IF m <= q THEN m ELSE q
      BY <3>1, MinOfTwo
    <3>3. QED
      BY <2>3, <3>2
  <2>6. c \in Nat /\ c <= q /\ c <= m
    BY <2>2, <2>5
  <2>7. k = IF m <= c + 1 THEN m ELSE c + 1
    BY <2>4, <2>6, MinOfTwo
  <2>8. d * c \in Nat /\ d * c <= q * d
    <3>1. PICK y \in Nat : q = c + y
      <4>1. q - c \in Nat /\ q = c + (q - c)
        BY <2>2, <2>6
      <4>2. QED
        BY <4>1
    <3>2. (c + y) * d = d * c + y * d /\ d * c \in Nat /\ y * d \in Nat
      BY SMT, <2>6, <3>1
    <3>3. QED
      BY <3>1, <3>2
  <2>9. kept + d * c < Keep + d
    <3> DEFINE z == d * c
               w == q * d
    <3>1. z \in Nat /\ z <= w /\ w < x + d /\ w \in Int
      BY <2>2, <2>8
    <3> HIDE DEF z, w
    <3>2. x = Keep - kept
      BY DEF x
    <3>3. kept + z < Keep + d
      BY <2>1, <3>1, <3>2
    <3>4. QED
      BY <3>3 DEF z
  <2>10. CASE m <= q
    <3>1. c = m /\ k = m
      BY <2>5, <2>7, <2>10
    <3>2. QED
      BY <2>6, <2>8, <2>9, <3>1
  <2>11. CASE ~(m <= q)
    <3>1. c = q /\ k = c + 1 /\ k \in 0 .. m
      BY <2>2, <2>5, <2>6, <2>7, <2>11
    <3>2. kept + d * c >= Keep
      <4>1. d * c = q * d
        BY SMT, <2>2, <3>1
      <4> DEFINE w == q * d
      <4>2. x <= w /\ w \in Nat /\ x = Keep - kept
        BY <2>2, <2>8, <4>1 DEF x
      <4>3. d * c = w
        BY <4>1
      <4> HIDE DEF w
      <4>4. QED
        BY <2>1, <4>2, <4>3
    <3>3. QED
      BY <2>6, <2>8, <2>9, <3>1, <3>2
  <2>12. QED
    BY <2>10, <2>11
<1>3. QED
  BY <1>1, <1>2

(* A sorted list with blocks behind that are all as large, and no larger   *)
(* than those before.                                                      *)
LEMMA DescendsOn ==
  ASSUME NEW S, NEW s \in Seq(S), NEW t \in Seq(S), Sized(S), Descends(s),
         NEW d \in Nat, \A i \in 1 .. Len(t) : t[i].data = d,
         \A i \in 1 .. Len(s) : s[i].data >= d
  PROVE  Descends(s \o t)
<1> DEFINE m == Len(s)
           n == Len(t)
           st == s \o t
<1>1. /\ Len(st) = m + n /\ m \in Nat /\ n \in Nat
      /\ \A i \in 1 .. m + n : st[i] = IF i <= m THEN s[i] ELSE t[i - m]
  BY ConcatProperties, LenProperties
<1>2. /\ \A i \in 1 .. m : s[i].data >= d /\ s[i].data \in Nat
      /\ \A i \in 1 .. n : t[i].data = d
      /\ \A i, j \in 1 .. m : i <= j => s[j].data <= s[i].data
  BY DEF Sized, Descends
<1> HIDE DEF m, n, st
<1>3. SUFFICES ASSUME NEW i \in 1 .. m + n, NEW j \in 1 .. m + n, i <= j
               PROVE  st[j].data <= st[i].data
  BY <1>1 DEF Descends, st
<1>4. CASE j <= m
  <2>1. i \in 1 .. m /\ j \in 1 .. m /\ i <= m
    BY <1>1, <1>3, <1>4
  <2>2. QED
    BY <1>1, <1>2, <1>3, <1>4, <2>1
<1>5. CASE ~(j <= m)
  <2>1. j - m \in 1 .. n
    BY <1>1, <1>5
  <2>2. st[j].data = d
    BY <1>1, <1>2, <1>5, <2>1
  <2>3. st[i].data >= d
    <3>1. CASE i <= m
      BY <1>1, <1>2, <3>1
    <3>2. CASE ~(i <= m)
      <4>1. i - m \in 1 .. n
        BY <1>1, <3>2
      <4>2. QED
        BY <1>1, <1>2, <3>2, <4>1
    <3>3. QED
      BY <3>1, <3>2
  <2>4. st[i].data \in Int
    <3>1. CASE i <= m
      BY <1>1, <1>2, <3>1
    <3>2. CASE ~(i <= m)
      <4>1. i - m \in 1 .. n
        BY <1>1, <3>2
      <4>2. QED
        BY <1>1, <1>2, <3>2, <4>1
    <3>3. QED
      BY <3>1, <3>2
  <2>5. QED
    BY <2>2, <2>3, <2>4
<1>6. QED
  BY <1>4, <1>5

(* What the reset's loop over the buckets has kept and put on the list,    *)
(* when n is the last bucket it has looked at: small blocks of all buckets *)
(* from n on, sorted.  Not enough so far, and then all of it is counted;   *)
(* or enough, by less than twice the smallest.                             *)
Keepings == [kept : Nat, list : Seq(heap)]

Enough(s) ==
  \/ s.kept < Keep /\ Total(s.list) = s.kept
  \/ s.kept >= Keep /\ (s.list # << >> => Total(s.list) < Keep + 2 * Last(s.list).data)

KeptDownTo(s, n) ==
  /\ s \in Keepings
  /\ IsInjective(s.list) /\ Range(s.list) \subseteq Range(AllEmpty)
  /\ Descends(s.list)
  /\ \A j \in 1 .. Len(s.list) : s.list[j].data >= n * BlockSize /\ ~IsLarge(s.list[j])
  /\ Enough(s)

(* A list of larger blocks and blocks of one size. *)
LEMMA LargerThenEqual ==
  ASSUME HeapGood, NEW s \in Seq(heap), NEW t \in Seq(heap), NEW d \in Nat,
         IsInjective(s), IsInjective(t), Descends(s),
         \A i \in 1 .. Len(s) : s[i].data > d,
         \A i \in 1 .. Len(t) : t[i].data = d
  PROVE  /\ IsInjective(s \o t)
         /\ Descends(s \o t)
         /\ Total(s \o t) = Total(s) + Len(t) * d
         /\ t # << >> => Last(s \o t).data = d
         /\ \A j \in 1 .. Len(s \o t) : (s \o t)[j] \in Range(s) \cup Range(t)
<1> DEFINE m == Len(s)
           n == Len(t)
           st == s \o t
<1>1. Sized(heap)
  BY HeapSized
<1>2. Range(s) \cap Range(t) = {}
  <2>1. SUFFICES ASSUME NEW x, x \in Range(s), x \in Range(t) PROVE FALSE
    OBVIOUS
  <2>2. PICK i \in 1 .. Len(s) : s[i] = x
    BY <2>1, InRange
  <2>3. PICK j \in 1 .. Len(t) : t[j] = x
    BY <2>1, InRange
  <2>4. x.data > d /\ x.data = d
    BY <2>2, <2>3
  <2>5. QED
    BY <2>4
<1>3. IsInjective(st)
  BY <1>2, ConcatApart DEF Apart
<1>4. Descends(st)
  <2>1. \A i \in 1 .. Len(s) : s[i].data >= d
    <3>1. TAKE i \in 1 .. Len(s)
    <3>2. s[i] \in heap /\ s[i].data > d
      OBVIOUS
    <3>3. QED
      BY <1>1, <3>2 DEF Sized
  <2>2. QED
    BY <1>1, <2>1, DescendsOn
<1>5. Total(st) = Total(s) + Len(t) * d
  BY <1>1, TotalConcat, TotalOfEqual
<1>6. ASSUME t # << >> PROVE Last(st).data = d
  <2>1. /\ Len(st) = m + n /\ m \in Nat /\ n \in Nat /\ n > 0
        /\ \A i \in 1 .. m + n : st[i] = IF i <= m THEN s[i] ELSE t[i - m]
    <3>1. n \in Nat \ {0}
      BY <1>6, EmptySeq
    <3>2. QED
      BY <3>1, ConcatProperties, LenProperties
  <2>2. \A i \in 1 .. n : t[i].data = d
    OBVIOUS
  <2> HIDE DEF m, n, st
  <2>3. m + n \in 1 .. m + n /\ ~(m + n <= m) /\ (m + n) - m = n /\ n \in 1 .. n
    BY <2>1
  <2>4. st[m + n] = t[n]
    BY <2>1, <2>3
  <2>5. QED
    BY <2>1, <2>2, <2>3, <2>4 DEF Last
<1>7. \A j \in 1 .. Len(st) : st[j] \in Range(s) \cup Range(t)
  <2>1. st \in Seq(heap)
    BY ConcatProperties
  <2>2. Range(st) = Range(s) \cup Range(t)
    BY RangeConcatenation
  <2>3. QED
    BY <2>1, <2>2, InRange
<1>8. QED
  BY <1>3, <1>4, <1>5, <1>6, <1>7

(* The last of a bucket's blocks, as many as are kept. *)
LEMMA LastOfBucket ==
  ASSUME ListsGood, NEW n \in 1 .. Buckets, NEW k \in 0 .. Len(Bucket(n)),
         NEW t, t = SubSeq(Bucket(n), Len(Bucket(n)) - k + 1, Len(Bucket(n)))
  PROVE  /\ t \in Seq(heap) /\ IsInjective(t) /\ Len(t) = k
         /\ Range(t) \subseteq Range(AllEmpty)
         /\ \A i \in 1 .. Len(t) : t[i].data = n * BlockSize
         /\ k = 0 => t = << >>
         /\ k # 0 => t # << >>
<1> DEFINE b == Bucket(n)
           m == Len(b)
           lo == m - k + 1
           d == n * BlockSize
<1>1. b \in Seq(heap) /\ IsInjective(b) /\ Range(b) \subseteq Range(AllEmpty)
      /\ \A j \in 1 .. m : b[j].data = d
  BY BucketHolds
<1>2. m \in Nat
  BY <1>1, LenProperties
<1>3. k \in 0 .. m /\ t = SubSeq(b, lo, m)
  OBVIOUS
<1> HIDE DEF b, d
<1>4. lo \in 1 .. Len(b) + 1 /\ m \in 0 .. Len(b)
  BY <1>2, <1>3
<1> HIDE DEF lo
<1>5. /\ t \in Seq(heap)
      /\ Len(t) = IF lo <= m THEN (m - lo) + 1 ELSE 0
      /\ \A i \in 1 .. Len(t) : t[i] = b[(lo + i) - 1] /\ (lo + i) - 1 \in lo .. m
      /\ Range(t) \subseteq Range(b)
      /\ IsInjective(t)
  <2> DEFINE e == m
             u == SubSeq(b, lo, e)
  <2>1. e \in 0 .. Len(b) /\ lo \in 1 .. Len(b) + 1
    BY <1>4
  <2> HIDE DEF e
  <2>2. /\ u \in Seq(heap)
        /\ Len(u) = IF lo <= e THEN (e - lo) + 1 ELSE 0
        /\ \A i \in 1 .. Len(u) : u[i] = b[(lo + i) - 1] /\ (lo + i) - 1 \in lo .. e
        /\ Range(u) \subseteq Range(b)
        /\ IsInjective(b) => IsInjective(u)
    BY <1>1, <2>1, PartOf
  <2> HIDE DEF u
  <2>3. t = u
    BY <1>3 DEF u, e
  <2>4. QED
    BY <1>1, <2>2, <2>3 DEF e
<1>6. Len(t) = k
  <2>1. lo = m - k + 1
    BY DEF lo
  <2> HIDE DEF m
  <2>2. QED
    BY <1>2, <1>3, <1>5, <2>1
<1>7. \A i \in 1 .. Len(t) : t[i].data = d
  <2>1. TAKE i \in 1 .. Len(t)
  <2>2. (lo + i) - 1 \in 1 .. m
    <3>1. (lo + i) - 1 \in lo .. m /\ lo \in Int /\ lo >= 1
      BY <1>4, <1>5
    <3> HIDE DEF m
    <3>2. QED
      BY <1>2, <3>1
  <2>3. QED
    BY <1>1, <1>5, <2>2
<1>8. (k = 0 => t = << >>) /\ (k # 0 => t # << >>)
  BY <1>3, <1>5, <1>6, EmptySeq
<1>9. QED
  BY <1>1, <1>5, <1>6, <1>7, <1>8 DEF d

(* A bucket that is looked at when enough is kept adds nothing. *)
LEMMA KeepBucketWhenEnough ==
  ASSUME HeapGood, ListsGood, NEW n \in 1 .. Buckets, NEW s, KeptDownTo(s, n + 1),
         s.kept >= Keep
  PROVE  KeepBucket(s, n) = s
<1> DEFINE d == n * BlockSize
           m == Len(Bucket(n))
           c == Counted(n, s.kept)
           k == KeptOf(n, s.kept)
           t == SubSeq(Bucket(n), m - k + 1, m)
<1>1. s \in Keepings /\ s.kept \in Nat /\ s.list \in Seq(heap)
  BY DEF KeptDownTo, Keepings
<1>2. m \in Nat
  BY BucketHolds, LenProperties
<1>3. d \in Nat \ {0}
  BY BucketSize
<1>4. k = 0 /\ c = 0
  BY DEF KeptOf, Counted
<1>5. KeepBucket(s, n) = [kept |-> s.kept + d * c, list |-> s.list \o t]
  BY DEF KeepBucket
<1> HIDE DEF d, c, k
<1>6. t = << >>
  <2>1. k \in 0 .. m
    BY <1>2, <1>4
  <2>2. QED
    BY <1>4, <2>1, LastOfBucket
<1> HIDE DEF t
<1>7. s.kept + d * c = s.kept
  BY <1>1, <1>3, <1>4
<1>8. s.list \o t = s.list
  BY <1>1, <1>6, ConcatEmptySeq
<1>9. s = [kept |-> s.kept, list |-> s.list]
  BY <1>1 DEF Keepings
<1>10. QED
  BY <1>5, <1>7, <1>8, <1>9

(* A bucket that is looked at when not enough is kept. *)
LEMMA KeepBucketWhenNotEnough ==
  ASSUME HeapGood, ListsGood, NEW n \in 1 .. Buckets, NEW s, KeptDownTo(s, n + 1),
         s.kept < Keep
  PROVE  KeptDownTo(KeepBucket(s, n), n)
<1> DEFINE d == n * BlockSize
           m == Len(Bucket(n))
           c == Counted(n, s.kept)
           k == KeptOf(n, s.kept)
           t == SubSeq(Bucket(n), m - k + 1, m)
           r == KeepBucket(s, n)
           new == s.kept + d * c
           st == s.list \o t
<1>1. /\ s \in Keepings /\ s.kept \in Nat /\ s.list \in Seq(heap)
      /\ IsInjective(s.list) /\ Range(s.list) \subseteq Range(AllEmpty) /\ Descends(s.list)
      /\ \A j \in 1 .. Len(s.list) : s.list[j].data >= (n + 1) * BlockSize /\ ~IsLarge(s.list[j])
      /\ Enough(s)
  BY DEF KeptDownTo, Keepings
<1>2. Total(s.list) = s.kept /\ Keep \in Nat
  BY <1>1, ArenaNumbers DEF Enough
<1>3. m \in Nat
  BY BucketHolds, LenProperties
<1>4. d \in Nat \ {0} /\ d < (n + 1) * BlockSize /\ \A b : b.data = d => ~IsLarge(b)
  BY BucketSize
<1>5. /\ c \in Nat /\ k \in 0 .. m
      /\ d * c \in Nat
      /\ new < Keep + d
      /\ k = c \/ (k = c + 1 /\ new >= Keep)
  <2> DEFINE kept == s.kept
  <2>1. kept \in Nat /\ kept < Keep
    BY <1>1
  <2> HIDE DEF kept, m, d
  <2>2. m = Len(Bucket(n)) /\ d = n * BlockSize
    BY DEF m, d
  <2>3. /\ Counted(n, kept) \in Nat /\ KeptOf(n, kept) \in 0 .. m
        /\ d * Counted(n, kept) \in Nat
        /\ kept + d * Counted(n, kept) < Keep + d
        /\ \/ KeptOf(n, kept) = Counted(n, kept)
           \/ /\ KeptOf(n, kept) = Counted(n, kept) + 1
              /\ kept + d * Counted(n, kept) >= Keep
    BY <1>3, <1>4, <2>1, <2>2, KeptAndCounted
  <2>4. QED
    BY <2>3 DEF kept
<1>6. r = [kept |-> new, list |-> st]
  BY DEF KeepBucket
<1>7. /\ t \in Seq(heap) /\ IsInjective(t) /\ Len(t) = k
      /\ Range(t) \subseteq Range(AllEmpty)
      /\ \A i \in 1 .. Len(t) : t[i].data = d
      /\ k # 0 => t # << >>
  BY <1>5, LastOfBucket
<1>8. \A i \in 1 .. Len(s.list) : s.list[i].data > d
  <2>1. TAKE i \in 1 .. Len(s.list)
  <2> DEFINE a == s.list[i]
             e == (n + 1) * BlockSize
  <2>2. a \in heap /\ a.data >= e /\ d < e
    BY <1>1, <1>4
  <2>3. a.data \in Nat /\ e \in Int
    BY <2>2, HeapSized, ArenaNumbers DEF Sized
  <2> HIDE DEF a, e, d
  <2>4. d \in Int
    BY <1>4
  <2>5. a.data > d
    BY <2>2, <2>3, <2>4
  <2>6. QED
    BY <2>5 DEF a
<1> HIDE DEF d, m, c, k, t
<1>9. /\ IsInjective(st) /\ Descends(st)
      /\ Total(st) = Total(s.list) + Len(t) * d
      /\ t # << >> => Last(st).data = d
      /\ \A j \in 1 .. Len(st) : st[j] \in Range(s.list) \cup Range(t)
  <2> DEFINE l == s.list
  <2>1. l \in Seq(heap) /\ IsInjective(l) /\ Descends(l) /\ \A i \in 1 .. Len(l) : l[i].data > d
    BY <1>1, <1>8
  <2> HIDE DEF l
  <2>2. /\ IsInjective(l \o t) /\ Descends(l \o t)
        /\ Total(l \o t) = Total(l) + Len(t) * d
        /\ t # << >> => Last(l \o t).data = d
        /\ \A j \in 1 .. Len(l \o t) : (l \o t)[j] \in Range(l) \cup Range(t)
    <3>1. d \in Nat /\ t \in Seq(heap) /\ IsInjective(t) /\ \A i \in 1 .. Len(t) : t[i].data = d
      BY <1>4, <1>7
    <3>2. QED
      BY <2>1, <3>1, LargerThenEqual
  <2>3. QED
    BY <2>2 DEF l
<1>10. st \in Seq(heap) /\ Range(st) = Range(s.list) \cup Range(t)
  BY <1>1, <1>7, ConcatProperties, RangeConcatenation
<1>11. new \in Nat
  BY <1>1, <1>5
<1>12. Total(st) = s.kept + k * d
  BY <1>2, <1>7, <1>9
<1>13. \A x \in Range(s.list) : x.data >= d /\ ~IsLarge(x)
  <2>1. TAKE x \in Range(s.list)
  <2>2. PICK i \in 1 .. Len(s.list) : s.list[i] = x
    BY <1>1, InRange
  <2>3. x \in heap
    BY <1>1, <2>2
  <2>4. x.data > d /\ ~IsLarge(x) /\ x.data \in Nat
    BY <1>1, <1>8, <2>2, <2>3, HeapSized DEF Sized
  <2>5. QED
    BY <1>4, <2>4
<1>14. \A x \in Range(t) : x.data >= d /\ ~IsLarge(x)
  <2>1. TAKE x \in Range(t)
  <2>2. PICK i \in 1 .. Len(t) : t[i] = x
    BY <1>7, InRange
  <2>3. x.data = d
    BY <1>7, <2>2
  <2>4. QED
    BY <1>4, <2>3
<1>15. \A j \in 1 .. Len(st) : st[j].data >= d /\ ~IsLarge(st[j])
  BY <1>9, <1>13, <1>14
<1>16. \/ new < Keep /\ Total(st) = new
       \/ new >= Keep /\ (st # << >> => Total(st) < Keep + 2 * Last(st).data)
  <2> DEFINE dc == d * c
             sk == s.kept
  <2>1. k * d = IF k = c THEN dc ELSE dc + d
    <3>1. c * d = d * c /\ (c + 1) * d = d * c + d
      BY SMT, <1>4, <1>5
    <3>2. QED
      BY <1>5, <3>1
  <2>2. dc \in Nat /\ sk \in Nat /\ new = sk + dc /\ sk < Keep
    BY <1>1, <1>5
  <2>3. CASE k = c
    <3>1. Total(st) = new
      BY <1>12, <2>1, <2>3
    <3>2. CASE new < Keep
      BY <3>1, <3>2
    <3>3. CASE ~(new < Keep)
      <4>1. k # 0
        <5>1. SUFFICES ASSUME k = 0 PROVE FALSE
          OBVIOUS
        <5>2. dc = 0
          BY <1>4, <2>3, <5>1
        <5> HIDE DEF dc, sk, new
        <5>3. new = sk
          BY <2>2, <5>2
        <5>4. QED
          BY <1>2, <2>2, <3>3, <5>3
      <4>2. Last(st).data = d
        BY <1>7, <1>9, <4>1
      <4> HIDE DEF new, st
      <4>3. Total(st) < Keep + 2 * d /\ new >= Keep
        BY <1>2, <1>4, <1>5, <1>11, <3>1, <3>3
      <4>4. QED
        BY <4>2, <4>3
    <3>4. QED
      BY <3>2, <3>3
  <2>4. CASE k # c
    <3>1. k = c + 1 /\ new >= Keep
      BY <1>5, <2>4
    <3>2. Last(st).data = d
      BY <1>5, <1>7, <1>9, <3>1
    <3>3. Total(st) = sk + (dc + d)
      BY <1>12, <2>1, <2>4
    <3> HIDE DEF new, st, dc, sk
    <3>4. Total(st) < Keep + 2 * d
      BY <1>2, <1>4, <1>5, <2>2, <3>3
    <3>5. QED
      BY <3>1, <3>2, <3>4
  <2>5. QED
    BY <2>3, <2>4
<1> HIDE DEF new, st
<1>17. r \in Keepings /\ r.kept = new /\ r.list = st
  BY <1>6, <1>10, <1>11 DEF Keepings
<1>18. Enough(r)
  BY <1>16, <1>17 DEF Enough
<1> HIDE DEF r
<1>19. KeptDownTo(r, n)
  BY <1>1, <1>7, <1>9, <1>10, <1>15, <1>17, <1>18 DEF KeptDownTo, d
<1>20. QED
  BY <1>19 DEF r

(* One bucket leads from one thing kept to another. *)
LEMMA KeepBucketType ==
  ASSUME HeapGood, ListsGood, NEW n \in 1 .. Buckets, NEW s \in Keepings
  PROVE  KeepBucket(s, n) \in Keepings
<1> DEFINE d == n * BlockSize
           m == Len(Bucket(n))
           kept == s.kept
           c == Counted(n, kept)
           k == KeptOf(n, kept)
           t == SubSeq(Bucket(n), m - k + 1, m)
<1>1. kept \in Nat /\ s.list \in Seq(heap)
  BY DEF Keepings
<1>2. m \in Nat
  BY BucketHolds, LenProperties
<1>3. d \in Nat \ {0}
  BY BucketSize
<1>4. KeepBucket(s, n) = [kept |-> kept + d * c, list |-> s.list \o t]
  BY DEF KeepBucket
<1>5. k \in 0 .. m /\ d * c \in Nat
  <2> HIDE DEF kept, m, d
  <2>1. m = Len(Bucket(n)) /\ d = n * BlockSize
    BY DEF m, d
  <2>2. /\ kept >= Keep => KeptOf(n, kept) = 0 /\ Counted(n, kept) = 0
        /\ kept < Keep =>
              /\ Counted(n, kept) \in Nat /\ KeptOf(n, kept) \in 0 .. m
              /\ d * Counted(n, kept) \in Nat
    BY <1>1, <1>2, <1>3, <2>1, KeptAndCounted
  <2>3. CASE kept >= Keep
    BY <1>2, <1>3, <2>2, <2>3
  <2>4. CASE ~(kept >= Keep)
    <3>1. kept < Keep
      BY <1>1, <2>4, ArenaNumbers
    <3>2. QED
      BY <2>2, <3>1
  <2>5. QED
    BY <2>3, <2>4
<1>6. t \in Seq(heap)
  BY <1>5, LastOfBucket
<1> HIDE DEF d, m, c, k, t
<1>7. s.list \o t \in Seq(heap) /\ kept + d * c \in Nat
  BY <1>1, <1>5, <1>6, ConcatProperties
<1>8. QED
  BY <1>4, <1>7 DEF Keepings

(* f is a run of the loop over the buckets. *)
SortedBy(f) ==
  /\ f \in [0 .. Buckets -> Keepings]
  /\ f[0] = [kept |-> 0, list |-> << >>]
  /\ \A i \in 1 .. Buckets : f[i] = KeepBucket(f[i - 1], Buckets + 1 - i)

(* There is such a run. *)
LEMMA SortExists ==
  ASSUME HeapGood, ListsGood
  PROVE  \E f : SortedBy(f)
<1> DEFINE n == Buckets
           D == Keepings
           a == [kept |-> 0, list |-> << >>]
           g == [p \in Nat \X D |->
                  IF p[1] \in 1 .. n THEN KeepBucket(p[2], n + 1 - p[1]) ELSE p[2]]
<1>1. n \in Nat
  BY ArenaNumbers
<1>2. ASSUME NEW i \in Nat, NEW b \in D
      PROVE  (IF i \in 1 .. n THEN KeepBucket(b, n + 1 - i) ELSE b) \in D
  <2>1. CASE i \in 1 .. n
    <3>1. n + 1 - i \in 1 .. Buckets
      BY <1>1, <2>1
    <3>2. KeepBucket(b, n + 1 - i) \in D
      BY <3>1, KeepBucketType
    <3>3. QED
      BY <2>1, <3>2
  <2>2. CASE ~(i \in 1 .. n)
    BY <2>2
  <2>3. QED
    BY <2>1, <2>2
<1>3. a \in D
  BY EmptySeq DEF Keepings
<1> HIDE DEF D, n, a
<1>4. g \in [Nat \X D -> D]
  BY <1>2
<1>5. PICK f \in [0 .. n -> D] : FromLeft(f, n, a, g)
  <2> HIDE DEF g
  <2> QED
    BY <1>1, <1>3, <1>4, RecursiveFunctionExists
<1>6. ASSUME NEW i \in 1 .. n PROVE f[i] = KeepBucket(f[i - 1], n + 1 - i)
  <2>1. i - 1 \in 0 .. n /\ i \in Nat
    BY <1>1
  <2>2. f[i - 1] \in D
    BY <1>5, <2>1
  <2>3. /\ <<i, f[i - 1]>> \in Nat \X D
        /\ <<i, f[i - 1]>>[1] = i /\ <<i, f[i - 1]>>[2] = f[i - 1]
    BY <2>1, <2>2
  <2>4. g[<<i, f[i - 1]>>] = KeepBucket(f[i - 1], n + 1 - i)
    BY <2>3
  <2>5. f[i] = g[<<i, f[i - 1]>>]
    BY <1>5 DEF FromLeft
  <2>6. QED
    BY <2>4, <2>5
<1>7. f[0] = a
  BY <1>5 DEF FromLeft
<1>8. QED
  BY <1>5, <1>6, <1>7 DEF SortedBy, D, n, a

(* And it ends with Sorted. *)
LEMMA SortIs ==
  ASSUME NEW f, SortedBy(f)
  PROVE  Sorted = f[Buckets]
<1> DEFINE n == Buckets
           a == [kept |-> 0, list |-> << >>]
           Turn(h, i) == KeepBucket(h[i - 1], n + 1 - i)
           Run(h) == [i \in 0 .. n |-> IF i = 0 THEN a ELSE Turn(h, i)]
           c == CHOOSE h : h = Run(h)
<1>1. n \in Nat
  BY ArenaNumbers
<1>2. f[0] = a /\ \A i \in 1 .. n : f[i] = Turn(f, i)
  BY DEF SortedBy
<1>3. Sorted = c[n]
  BY DEF Sorted
<1>4. f \in [0 .. n -> Keepings]
  BY DEF SortedBy
<1> HIDE DEF n, a, Turn
<1>5. f = Run(f)
  <2>1. ASSUME NEW i \in 0 .. n PROVE f[i] = IF i = 0 THEN a ELSE Turn(f, i)
    <3>1. CASE i = 0
      BY <1>2, <3>1
    <3>2. CASE i # 0
      <4>1. i \in 1 .. n
        BY <1>1, <3>2
      <4>2. QED
        BY <1>2, <3>2, <4>1
    <3>3. QED
      BY <3>1, <3>2
  <2>2. QED
    BY <1>4, <2>1
<1>6. c = Run(c)
  <2> HIDE DEF Run
  <2> QED
    BY <1>5
<1> HIDE DEF c
<1>7. c[0] = a /\ \A i \in 1 .. n : c[i] = Turn(c, i)
  BY <1>1, <1>6
<1> DEFINE T == {i \in Nat : i <= n => c[i] = f[i]}
<1>8. 0 \in T
  BY <1>2, <1>7
<1>9. ASSUME NEW i \in Nat, i \in T PROVE i + 1 \in T
  <2>1. SUFFICES ASSUME i + 1 <= n PROVE c[i + 1] = f[i + 1]
    OBVIOUS
  <2>2. c[i] = f[i] /\ i + 1 \in 1 .. n /\ (i + 1) - 1 = i
    BY <1>1, <1>9, <2>1
  <2>3. Turn(c, i + 1) = Turn(f, i + 1)
    BY <2>2 DEF Turn
  <2>4. QED
    BY <1>2, <1>7, <2>2, <2>3
<1>10. n \in T
  <2> HIDE DEF T
  <2> QED
    BY <1>1, <1>8, <1>9, NatSetInduction
<1>11. QED
  BY <1>1, <1>3, <1>10 DEF n

(* What the reset keeps. *)
LEMMA SortedKeeps ==
  ASSUME HeapGood, ListsGood
  PROVE  KeptDownTo(Sorted, 1)
<1>1. PICK f : SortedBy(f)
  BY SortExists
<1> DEFINE n == Buckets
           a == [kept |-> 0, list |-> << >>]
           T == {i \in Nat : i <= n => KeptDownTo(f[i], n + 1 - i)}
<1>2. n \in Nat /\ Keep \in Nat
  BY ArenaNumbers
<1>3. f[0] = a /\ \A i \in 1 .. n : f[i] = KeepBucket(f[i - 1], n + 1 - i)
  BY <1>1 DEF SortedBy
<1>4. 0 \in T
  <2>1. a \in Keepings
    BY EmptySeq DEF Keepings
  <2>2. a.kept = 0 /\ a.list = << >> /\ Len(a.list) = 0 /\ Range(a.list) = {}
        /\ IsInjective(a.list)
    BY DEF Range, IsInjective
  <2>3. Total(a.list) = 0
    <3>1. << >> \in Seq(heap)
      BY EmptySeq
    <3>2. QED
      BY <2>2, <3>1, TotalType, HeapSized
  <2> HIDE DEF a
  <2>4. Enough(a)
    BY <1>2, <2>2, <2>3 DEF Enough
  <2>5. Descends(a.list)
    BY <2>2 DEF Descends
  <2>6. \A m : KeptDownTo(a, m)
    BY <2>1, <2>2, <2>4, <2>5 DEF KeptDownTo
  <2>7. QED
    BY <1>3, <2>6
<1>5. ASSUME NEW i \in Nat, i \in T PROVE i + 1 \in T
  <2>1. SUFFICES ASSUME i + 1 <= n PROVE KeptDownTo(f[i + 1], n + 1 - (i + 1))
    OBVIOUS
  <2> DEFINE k == n + 1 - (i + 1)
             s == f[i]
  <2>2. i \in 0 .. n /\ i + 1 \in 1 .. n /\ (i + 1) - 1 = i /\ n + 1 - i = k + 1 /\ k \in 1 .. Buckets
    BY <1>2, <2>1
  <2>3. KeptDownTo(s, k + 1)
    BY <1>5, <2>2
  <2>4. f[i + 1] = KeepBucket(s, k)
    BY <1>3, <2>2
  <2>5. k \in 1 .. Buckets
    BY <2>2
  <2> HIDE DEF k, s
  <2>6. s \in Keepings /\ s.kept \in Nat
    BY <2>3 DEF KeptDownTo, Keepings
  <2>7. CASE s.kept < Keep
    <3>1. KeptDownTo(KeepBucket(s, k), k)
      BY <2>3, <2>5, <2>7, KeepBucketWhenNotEnough
    <3>2. QED
      BY <2>4, <3>1 DEF k
  <2>8. CASE ~(s.kept < Keep)
    <3>1. s.kept >= Keep
      BY <1>2, <2>6, <2>8
    <3>2. f[i + 1] = s
      BY <2>3, <2>4, <2>5, <3>1, KeepBucketWhenEnough
    <3>3. \A j \in 1 .. Len(s.list) : s.list[j].data >= k * BlockSize
      <4>1. TAKE j \in 1 .. Len(s.list)
      <4> DEFINE x == s.list[j].data
                 b == k * BlockSize
                 e == (k + 1) * BlockSize
      <4>2. s.list[j] \in heap
        BY <2>6 DEF Keepings
      <4>3. x \in Nat /\ x >= e
        BY <2>3, <4>2, HeapSized DEF KeptDownTo, Sized
      <4>4. b \in Nat /\ b < e /\ e \in Int
        BY <2>5, BucketSize, ArenaNumbers
      <4> HIDE DEF x, b, e
      <4>5. x >= b
        BY <4>3, <4>4
      <4>6. QED
        BY <4>5 DEF x, b
    <3>4. KeptDownTo(s, k)
      BY <2>3, <3>3 DEF KeptDownTo
    <3>5. QED
      BY <3>2, <3>4 DEF k
  <2>9. QED
    BY <2>7, <2>8
<1>6. n \in T
  <2> HIDE DEF T, n
  <2> QED
    BY <1>2, <1>4, <1>5, NatSetInduction
<1>7. n + 1 - n = 1
  BY <1>2
<1>8. KeptDownTo(f[n], 1)
  BY <1>2, <1>6, <1>7
<1>9. QED
  BY <1>1, <1>8, SortIs

(* The reset leaves what the invariant says. *)
LEMMA ResetInv ==
  ASSUME ArenaInv, Reset
  PROVE  ArenaInv'
<1> DEFINE list == AfterReset
           gone == ({b \in Range(AllEmpty) : ~IsLarge(b)} \ Range(list)) \cup FreedLarge
           rest == heap \ gone
<1>1. HeapGood /\ ListsGood
  BY DEF ArenaInv
<1>2. empty' = list /\ heap' = rest /\ blocks' = << >> /\ used' = 0 /\ allocs' = {}
  BY DEF Reset
<1>3. KeptDownTo(Sorted, 1)
  BY <1>1, SortedKeeps
<1>4. /\ list \in Seq(heap) /\ IsInjective(list) /\ Range(list) \subseteq Range(AllEmpty)
      /\ Descends(list) /\ \A j \in 1 .. Len(list) : ~IsLarge(list[j])
  BY <1>3 DEF KeptDownTo, Keepings, AfterReset
<1>5. list # << >> => Total(list) < Keep + 2 * Last(list).data
  <2>1. SUFFICES ASSUME list # << >> PROVE Total(list) < Keep + 2 * Last(list).data
    OBVIOUS
  <2>2. Sorted.kept \in Nat /\ Keep \in Nat /\ Total(list) \in Nat /\ list = Sorted.list
    BY <1>1, <1>3, <1>4, HeapSized, TotalType, ArenaNumbers
       DEF KeptDownTo, Keepings, AfterReset
  <2>3. Last(list).data \in Nat
    <3>1. Len(list) \in Nat \ {0}
      BY <1>4, <2>1, EmptySeq
    <3>2. Len(list) \in 1 .. Len(list)
      BY <3>1
    <3>3. list[Len(list)] \in heap
      BY <1>4, <3>2, ElementOfSeq
    <3>4. QED
      BY <1>1, <3>3, HeapSized DEF Last, Sized
  <2> HIDE DEF list
  <2>4. Enough(Sorted)
    BY <1>3 DEF KeptDownTo
  <2>5. CASE Sorted.kept < Keep /\ Total(list) = Sorted.kept
    BY <2>2, <2>3, <2>5
  <2>6. CASE Total(list) < Keep + 2 * Last(list).data
    BY <2>6
  <2>7. QED
    BY <2>1, <2>2, <2>4, <2>5, <2>6 DEF Enough
<1> HIDE DEF list
<1>6. \A b \in Range(list) : ~IsLarge(b) /\ b \in rest
  <2>1. TAKE b \in Range(list)
  <2>2. PICK j \in 1 .. Len(list) : list[j] = b
    BY <1>4, InRange
  <2>3. b \in heap /\ ~IsLarge(b)
    BY <1>4, <2>2
  <2>4. b \notin FreedLarge
    BY <2>3 DEF FreedLarge
  <2>5. QED
    BY <2>1, <2>3, <2>4
<1>7. list \in Seq(rest)
  <2>1. Range(list) \subseteq rest
    BY <1>6
  <2> HIDE DEF rest
  <2>2. list \in Seq(Range(list))
    BY <1>4, SeqOfRange
  <2>3. QED
    BY <2>1, <2>2, SeqMonotonic
<1>8. HeapGood'
  <2>1. heap' \subseteq heap
    BY <1>2
  <2>2. IsFiniteSet(heap')
    BY <1>1, <2>1, FS_Subset DEF HeapGood
  <2> HIDE DEF rest
  <2>3. QED
    BY <1>1, <2>1, <2>2 DEF HeapGood, Blocks
<1>9. ASSUME NEW b \in rest PROVE b \in Range(list) \/ IsLarge(b)
  <2>1. CASE b \in Range(AllEmpty)
    BY <1>9, <2>1
  <2>2. CASE b \notin Range(AllEmpty)
    BY <1>1, <1>9, <2>2, AllEmptyHolds DEF ListsGood
  <2>3. QED
    BY <2>1, <2>2
<1>10. ListsGood'
  <2> HIDE DEF rest
  <2>1. << >> \in Seq(rest) /\ Range(<< >>) = {} /\ IsInjective(<< >>)
    BY EmptySeq DEF Range, IsInjective
  <2>2. \A b \in rest : IsLarge(b) <=> IsLarge(b)'
    BY DEF IsLarge
  <2>3. Apart(<< >>, list)
    BY <1>4, <2>1 DEF Apart
  <2>4. Apart(blocks', empty')
    BY <1>2, <2>3
  <2>5. QED
    BY <1>2, <1>7, <1>9, <2>1, <2>4 DEF ListsGood, Apart, IsLarge
<1>11. AllocsGood'
  BY <1>2 DEF AllocsGood, Allocations
<1>12. AllocationsDisjoint'
  BY <1>2 DEF AllocationsDisjoint
<1>13. Descends(empty')
  BY <1>2, <1>4
<1>14. ReserveBounded'
  BY <1>2, <1>5, <1>13 DEF ReserveBounded, Descends
<1>15. QED
  BY <1>8, <1>10, <1>11, <1>12, <1>14 DEF ArenaInv

(* Taking a block out of a sorted list leaves it sorted, and its last is   *)
(* no smaller.                                                             *)
LEMMA RemovedDescends ==
  ASSUME NEW S, Sized(S), NEW s \in Seq(S), NEW i \in 1 .. Len(s), Descends(s)
  PROVE  /\ Descends(RemoveAt(s, i))
         /\ RemoveAt(s, i) # << >> =>
              /\ Last(RemoveAt(s, i)).data \in Nat /\ Last(s).data \in Nat
              /\ Last(s).data <= Last(RemoveAt(s, i)).data
<1> DEFINE n == Len(s)
           r == RemoveAt(s, i)
           from(j) == IF j < i THEN j ELSE j + 1
<1>1. /\ n \in Nat /\ Len(r) = n - 1 /\ r \in Seq(S)
      /\ \A j \in 1 .. n - 1 : r[j] = s[from(j)]
  BY RemovedAt, LenProperties
<1>2. /\ \A j \in 1 .. n : s[j].data \in Nat
      /\ \A j, k \in 1 .. n : j <= k => s[k].data <= s[j].data
  BY DEF Sized, Descends
<1>3. i \in 1 .. n
  OBVIOUS
<1> HIDE DEF n, r
<1>4. /\ \A j \in 1 .. n - 1 : from(j) \in 1 .. n
      /\ \A j, k \in 1 .. n - 1 : j <= k => from(j) <= from(k)
  BY <1>1, <1>3
<1> HIDE DEF from
<1>5. Descends(r)
  <2>1. SUFFICES ASSUME NEW j \in 1 .. n - 1, NEW k \in 1 .. n - 1, j <= k
                 PROVE  r[k].data <= r[j].data
    BY <1>1 DEF Descends
  <2>2. QED
    BY <1>1, <1>2, <1>4, <2>1
<1>6. ASSUME r # << >>
      PROVE  Last(r).data \in Nat /\ Last(s).data \in Nat /\ Last(s).data <= Last(r).data
  <2>1. n - 1 \in 1 .. n - 1 /\ n \in 1 .. n
    <3>1. Len(r) \in Nat \ {0}
      BY <1>1, <1>6, EmptySeq
    <3>2. QED
      BY <1>1, <3>1
  <2>2. Last(r) = s[from(n - 1)] /\ Last(s) = s[n]
    BY <1>1, <2>1 DEF Last, n
  <2>3. from(n - 1) \in 1 .. n /\ from(n - 1) <= n
    BY <1>1, <1>4, <2>1
  <2>4. QED
    BY <1>2, <2>1, <2>2, <2>3
<1>7. QED
  BY <1>5, <1>6 DEF r

(* While not all blocks are taken there is a name for another. *)
LEMMA NewName ==
  ASSUME HeapGood, Cardinality(heap) < MaxBlocks
  PROVE  \E i \in Ids : \A b \in heap : b.id # i
<1>1. SUFFICES ASSUME \A i \in Ids : \E b \in heap : b.id = i PROVE FALSE
  OBVIOUS
<1> DEFINE f == [b \in heap |-> b.id]
<1>2. IsFiniteSet(heap) /\ heap \subseteq Blocks /\ MaxBlocks \in Nat
  BY ArenaNumbers DEF HeapGood
<1>3. f \in [heap -> Ids]
  BY <1>2 DEF Blocks
<1>4. \A i \in Ids : \E b \in heap : f[b] = i
  BY <1>1
<1> HIDE DEF f
<1>5. f \in Surjection(heap, Ids)
  BY <1>3, <1>4 DEF Surjection
<1>6. Cardinality(Ids) <= Cardinality(heap)
  BY <1>2, <1>5, FS_Surjection
<1>7. Cardinality(Ids) = MaxBlocks
  <2>1. 1 \in Int /\ MaxBlocks \in Int
    BY <1>2
  <2>2. Cardinality(1 .. MaxBlocks) = IF 1 > MaxBlocks THEN 0 ELSE MaxBlocks - 1 + 1
    BY <2>1, FS_Interval
  <2>3. QED
    BY <1>2, <2>2 DEF Ids
<1>8. Cardinality(heap) \in Nat
  BY <1>2, FS_CardinalityType
<1>9. QED
  BY <1>2, <1>6, <1>7, <1>8

(* A block is put on the stack that has room for n bytes and that no       *)
(* allocation is in.                                                       *)
Pushed(n, b) ==
  /\ blocks' = <<b>> \o blocks
  /\ b \in heap' /\ Header + n <= b.data
  /\ \A c \in Range(blocks) : b.id # c.id

(* What all ways of guaranteeCapacity leave.                               *)
Guaranteed(n) ==
  /\ HeapGood' /\ ListsGood' /\ ReserveBounded'
  /\ \/ blocks' = blocks /\ HasRoom(n)
     \/ \E b : Pushed(n, b)

(* A block on top of the stack. *)
LEMMA PushedList ==
  ASSUME NEW S, NEW s \in Seq(S), NEW b \in S, IsInjective(s), b \notin Range(s)
  PROVE  /\ <<b>> \o s \in Seq(S)
         /\ IsInjective(<<b>> \o s)
         /\ Range(<<b>> \o s) = {b} \cup Range(s)
         /\ Head(<<b>> \o s) = b /\ <<b>> \o s # << >> /\ <<b>> \o s # s
<1> DEFINE t == <<b>>
<1>1. t \in Seq(S) /\ Len(t) = 1 /\ t[1] = b /\ DOMAIN t = {1}
  BY LenProperties
<1>2. IsInjective(t) /\ Range(t) = {b}
  BY <1>1 DEF IsInjective, Range
<1>3. Apart(t, s)
  BY <1>2 DEF Apart
<1> HIDE DEF t
<1>4. IsInjective(t \o s) /\ Range(t \o s) = {b} \cup Range(s)
  BY <1>1, <1>2, <1>3, ConcatApart, RangeConcatenation
<1>5. /\ t \o s \in Seq(S) /\ Len(t \o s) = 1 + Len(s) /\ Len(s) \in Nat
      /\ (t \o s)[1] = b
  <2>1. Len(s) \in Nat /\ 1 \in 1 .. Len(t) + Len(s) /\ 1 <= Len(t)
    BY <1>1, LenProperties
  <2>2. QED
    BY <1>1, <2>1, ConcatProperties
<1>6. Head(t \o s) = b /\ t \o s # << >> /\ t \o s # s
  <2> DEFINE u == t \o s
  <2>1. Len(u) # 0 /\ Len(u) # Len(s) /\ u[1] = b
    BY <1>5
  <2> HIDE DEF u
  <2>2. u # << >> /\ u # s
    BY <2>1
  <2>3. Head(u) = b
    BY <2>1, <2>2
  <2>4. QED
    BY <2>2, <2>3 DEF u
<1>7. QED
  BY <1>4, <1>5, <1>6 DEF t

(* guaranteeCapacity takes an empty block. *)
LEMMA TakesEmpty ==
  ASSUME ArenaInv, NEW n \in Nat, NEW i, i = FirstEmpty(n), i # 0,
         blocks' = <<empty[i]>> \o blocks, empty' = RemoveAt(empty, i), heap' = heap
  PROVE  Guaranteed(n)
<1> DEFINE fits == {k \in DOMAIN empty : k <= Tries /\ empty[k].data - Header >= n}
           b == empty[i]
<1>1. HeapGood /\ ListsGood /\ Descends(empty) /\ ReserveBounded
  BY DEF ArenaInv, ReserveBounded
<1>2. /\ blocks \in Seq(heap) /\ empty \in Seq(heap)
      /\ IsInjective(blocks) /\ IsInjective(empty) /\ Range(blocks) \cap Range(empty) = {}
  BY <1>1 DEF ListsGood, Apart
<1>3. DOMAIN empty = 1 .. Len(empty) /\ Len(empty) \in Nat
  BY <1>2, LenProperties
<1>4. i \in fits
  <2>1. fits # {} /\ i = CHOOSE k \in fits : \A j \in fits : k <= j
    BY DEF FirstEmpty
  <2>2. fits \subseteq Nat
    BY <1>3
  <2> HIDE DEF fits
  <2>3. \E k \in fits : \A j \in fits : k <= j
    <3>1. PICK k \in fits : TRUE
      BY <2>1
    <3> DEFINE T == {m \in Nat : (\E j \in fits : j <= m) => \E x \in fits : \A j \in fits : x <= j}
    <3>2. 0 \in T
      <4>1. ASSUME NEW j \in fits, j <= 0 PROVE \A l \in fits : j <= l
        BY <2>2, <4>1
      <4>2. QED
        BY <4>1
    <3>3. ASSUME NEW m \in Nat, m \in T PROVE m + 1 \in T
      <4>1. SUFFICES ASSUME NEW j \in fits, j <= m + 1
                     PROVE  \E x \in fits : \A l \in fits : x <= l
        OBVIOUS
      <4>2. CASE \E l \in fits : l <= m
        BY <3>3, <4>2
      <4>3. CASE ~\E l \in fits : l <= m
        <5>1. \A l \in fits : j <= l
          BY <2>2, <4>1, <4>3
        <5>2. QED
          BY <5>1
      <4>4. QED
        BY <4>2, <4>3
    <3>4. k \in T
      <4>1. k \in Nat
        BY <2>2
      <4> HIDE DEF T
      <4>2. QED
        BY <3>2, <3>3, <4>1, NatSetInduction
    <3>5. k <= k
      BY <2>2
    <3>6. QED
      BY <3>4, <3>5
  <2>4. QED
    BY <2>1, <2>3
<1>5. i \in 1 .. Len(empty) /\ b.data - Header >= n
  BY <1>3, <1>4
<1>6. b \in heap /\ b \in Range(empty) /\ b \notin Range(blocks) /\ b.data \in Nat
  <2>1. b \in heap /\ b \in Range(empty)
    BY <1>2, <1>5, InRange
  <2>2. QED
    BY <1>1, <1>2, <2>1, HeapSized DEF Sized
<1> HIDE DEF b
<1>7. /\ blocks' \in Seq(heap) /\ IsInjective(blocks') /\ Range(blocks') = {b} \cup Range(blocks)
  BY <1>2, <1>6, PushedList DEF b
<1>8. /\ empty' \in Seq(heap) /\ IsInjective(empty') /\ Range(empty') = Range(empty) \ {b}
  BY <1>2, <1>5, RemovedAt DEF b
<1>9. HeapGood'
  BY <1>1 DEF HeapGood, Blocks
<1>10. ListsGood'
  <2>1. Apart(blocks', empty')
    BY <1>2, <1>7, <1>8 DEF Apart
  <2>2. \A x \in heap : x \in Range(blocks') \/ x \in Range(empty') \/ IsLarge(x)
    BY <1>1, <1>7, <1>8 DEF ListsGood
  <2>3. QED
    BY <1>7, <1>8, <2>1, <2>2 DEF ListsGood, Apart, IsLarge
<1>11. Descends(empty')
  BY <1>1, <1>2, <1>5, RemovedDescends, HeapSized
<1>12. ReserveBounded'
  <2>1. SUFFICES ASSUME empty' # << >> PROVE Total(empty') < Keep + 2 * Last(empty').data
    BY <1>11 DEF ReserveBounded, Descends
  <2>2. Last(empty').data \in Nat /\ Last(empty).data \in Nat
        /\ Last(empty).data <= Last(empty').data
    BY <1>1, <1>2, <1>5, <2>1, RemovedDescends, HeapSized
  <2>3. Total(empty') <= Total(empty) /\ Total(empty) \in Nat /\ Total(empty') \in Nat
    BY <1>1, <1>2, <1>5, <1>8, TotalRemoved, TotalType, HeapSized
  <2>4. empty # << >>
    BY <1>2, <1>5, EmptySeq
  <2>5. Total(empty) < Keep + 2 * Last(empty).data
    BY <1>1, <2>4 DEF ReserveBounded
  <2>6. Keep \in Nat
    BY ArenaNumbers
  <2> DEFINE t == Total(empty)
             u == Total(empty')
             x == Last(empty).data
             y == Last(empty').data
  <2>7. x \in Nat /\ y \in Nat /\ x <= y /\ u <= t /\ t \in Nat /\ u \in Nat /\ t < Keep + 2 * x
    BY <2>2, <2>3, <2>5
  <2> HIDE DEF t, u, x, y
  <2>8. u < Keep + 2 * y
    BY <2>6, <2>7
  <2>9. QED
    BY <2>8 DEF u, y
<1>13. Pushed(n, b)
  <2>1. Header + n <= b.data
    BY <1>5, <1>6, ArenaNumbers
  <2>2. \A c \in Range(blocks) : b.id # c.id
    <3>1. TAKE c \in Range(blocks)
    <3>2. c \in heap /\ c # b
      BY <1>2, <1>6, InRange
    <3>3. QED
      BY <1>1, <1>6, <3>2 DEF HeapGood
  <2>3. QED
    BY <1>6, <2>1, <2>2 DEF Pushed, b
<1>14. QED
  BY <1>9, <1>10, <1>12, <1>13 DEF Guaranteed

(* guaranteeCapacity gets a new block. *)
LEMMA GetsNew ==
  ASSUME ArenaInv, NEW n \in Nat \ {0}, Cardinality(heap) < MaxBlocks,
         blocks' = <<NewBlock(n)>> \o blocks, heap' = heap \cup {NewBlock(n)},
         empty' = empty
  PROVE  Guaranteed(n)
<1> DEFINE b == NewBlock(n)
<1>1. HeapGood /\ ListsGood /\ Descends(empty) /\ ReserveBounded
  BY DEF ArenaInv, ReserveBounded
<1>2. /\ blocks \in Seq(heap) /\ empty \in Seq(heap)
      /\ IsInjective(blocks) /\ IsInjective(empty) /\ Range(blocks) \cap Range(empty) = {}
  BY <1>1 DEF ListsGood, Apart
<1>3. b.id \in Ids /\ \A c \in heap : c.id # b.id
  <2>1. \E i \in Ids : \A c \in heap : c.id # i
    BY <1>1, NewName
  <2> DEFINE i == CHOOSE j \in Ids : \A c \in heap : c.id # j
  <2>2. i \in Ids /\ \A c \in heap : c.id # i
    BY <2>1
  <2>3. b.id = i
    BY DEF NewBlock
  <2> HIDE DEF i
  <2>4. QED
    BY <2>2, <2>3
<1>4. b.data \in Nat /\ Header + n <= b.data /\ Header < b.data
  <2>1. Header \in Nat /\ n + Header \in Nat /\ BlockSize \in Nat \ {0}
    BY ArenaNumbers
  <2> DEFINE x == n + Header
  <2>2. RoundUp(x, BlockSize) \in Nat /\ x <= RoundUp(x, BlockSize)
    <3> HIDE DEF x
    <3>1. x \in Nat
      BY <2>1 DEF x
    <3>2. QED
      BY <2>1, <3>1, RoundedUp
  <2>3. b.data = RoundUp(x, BlockSize)
    BY DEF NewBlock, NewData
  <2> DEFINE y == RoundUp(x, BlockSize)
  <2>4. y \in Nat /\ n + Header <= y /\ b.data = y
    BY <2>2, <2>3
  <2> HIDE DEF b, y, x
  <2>5. QED
    BY <2>1, <2>4
<1>5. b \in Blocks
  <2>1. b = [id |-> b.id, data |-> b.data]
    BY DEF NewBlock
  <2> HIDE DEF b
  <2>2. QED
    BY <1>3, <1>4, <2>1 DEF Blocks
<1>6. b \notin heap
  BY <1>3
<1> HIDE DEF b
<1>7. heap' = heap \cup {b} /\ heap \subseteq heap' /\ b \in heap'
  BY DEF b
<1>8. HeapGood'
  <2>1. IsFiniteSet(heap')
    BY <1>1, <1>7, FS_AddElement DEF HeapGood
  <2>2. heap' \subseteq Blocks
    BY <1>1, <1>5, <1>7 DEF HeapGood
  <2>3. \A c, d \in heap' : c.id = d.id => c = d
    BY <1>1, <1>3, <1>7 DEF HeapGood
  <2>4. \A c \in heap' : Header < c.data
    BY <1>1, <1>4, <1>7 DEF HeapGood
  <2>5. QED
    BY <2>1, <2>2, <2>3, <2>4 DEF HeapGood, Blocks
<1>9. blocks \in Seq(heap') /\ empty \in Seq(heap')
  BY <1>2, <1>7, SeqMonotonic
<1>10. Range(blocks) \subseteq heap /\ Range(empty) \subseteq heap
  BY <1>2, InRange
<1>11. /\ blocks' \in Seq(heap') /\ IsInjective(blocks') /\ Range(blocks') = {b} \cup Range(blocks)
  <2>1. b \notin Range(blocks)
    BY <1>6, <1>10
  <2>2. blocks' = <<b>> \o blocks
    BY DEF b
  <2>3. QED
    BY <1>2, <1>7, <1>9, <2>1, <2>2, PushedList
<1>12. ListsGood'
  <2>1. Apart(blocks', empty')
    BY <1>2, <1>6, <1>10, <1>11 DEF Apart
  <2>2. \A x \in heap' : x \in Range(blocks') \/ x \in Range(empty') \/ IsLarge(x)
    BY <1>1, <1>7, <1>11 DEF ListsGood
  <2>3. QED
    BY <1>9, <1>11, <2>1, <2>2 DEF ListsGood, Apart, IsLarge
<1>13. Pushed(n, b)
  <2>1. \A c \in Range(blocks) : b.id # c.id
    BY <1>3, <1>10 DEF b
  <2>2. QED
    BY <1>4, <1>7, <2>1 DEF Pushed, b
<1>14. QED
  BY <1>1, <1>8, <1>12, <1>13 DEF Guaranteed, Descends, ReserveBounded

(* So all its ways lead there. *)
LEMMA CapacityGuaranteed ==
  ASSUME ArenaInv, NEW n \in Nat \ {0}, GuaranteeCapacity(n)
  PROVE  Guaranteed(n)
<1>1. CASE HasRoom(n)
  <2>1. blocks' = blocks /\ empty' = empty /\ heap' = heap
    BY <1>1 DEF GuaranteeCapacity
  <2>2. QED
    BY <1>1, <2>1
       DEF Guaranteed, ArenaInv, HeapGood, Blocks, ListsGood, Apart, IsLarge, Descends, ReserveBounded
<1>2. CASE ~HasRoom(n) /\ FirstEmpty(n) # 0
  <2> DEFINE i == FirstEmpty(n)
  <2>1. i # 0 /\ blocks' = <<empty[i]>> \o blocks /\ empty' = RemoveAt(empty, i) /\ heap' = heap
    BY <1>2 DEF GuaranteeCapacity
  <2>2. i = FirstEmpty(n)
    OBVIOUS
  <2> HIDE DEF i
  <2>3. QED
    BY <2>1, <2>2, TakesEmpty
<1>3. CASE ~HasRoom(n) /\ FirstEmpty(n) = 0
  <2>1. /\ Cardinality(heap) < MaxBlocks
        /\ blocks' = <<NewBlock(n)>> \o blocks
        /\ heap' = heap \cup {NewBlock(n)}
        /\ empty' = empty
    BY <1>3 DEF GuaranteeCapacity
  <2>2. QED
    BY <2>1, GetsNew
<1>4. QED
  BY <1>1, <1>2, <1>3

(* The block that is allocated from, and the allocations already in it.    *)
LEMMA TopOfStack ==
  ASSUME ArenaInv, NEW n \in Nat \ {0}, Guaranteed(n)
  PROVE  /\ blocks' # << >> /\ Head(blocks') \in heap'
         /\ Head(blocks') \in Range(blocks') /\ Range(blocks) \subseteq Range(blocks')
         /\ \A x \in allocs : x.block = Head(blocks').id => x.at + x.size <= Header + used
<1>1. ListsGood' /\ AllocsGood /\ ListsGood
  BY DEF Guaranteed, ArenaInv
<1>2. blocks' \in Seq(heap')
  BY <1>1 DEF ListsGood
<1>3. CASE blocks' = blocks /\ HasRoom(n)
  <2>1. blocks' # << >>
    BY <1>3 DEF HasRoom
  <2>2. Head(blocks') = blocks'[1] /\ 1 \in 1 .. Len(blocks')
    <3>1. Len(blocks') \in Nat \ {0}
      BY <1>2, <2>1, EmptySeq
    <3>2. QED
      BY <1>2, <2>1, <3>1
  <2>3. Head(blocks') \in heap' /\ Head(blocks') \in Range(blocks')
    BY <1>2, <2>2, InRange
  <2>4. \A x \in allocs : x.block = Head(blocks').id => x.at + x.size <= Header + used
    BY <1>1, <1>3, <2>1 DEF AllocsGood
  <2>5. QED
    BY <1>3, <2>1, <2>3, <2>4
<1>4. ASSUME NEW b, Pushed(n, b)
      PROVE  /\ blocks' # << >> /\ Head(blocks') \in heap'
             /\ Head(blocks') \in Range(blocks') /\ Range(blocks) \subseteq Range(blocks')
             /\ \A x \in allocs : x.block = Head(blocks').id => x.at + x.size <= Header + used
  <2>1. blocks' = <<b>> \o blocks /\ b \in heap' /\ \A c \in Range(blocks) : b.id # c.id
    BY <1>4 DEF Pushed
  <2>2. blocks \in Seq(heap \cup {b})
    <3>1. blocks \in Seq(heap)
      BY <1>1 DEF ListsGood
    <3>2. QED
      BY <3>1, SeqMonotonic
  <2>3. IsInjective(blocks) /\ b \notin Range(blocks)
    BY <1>1, <2>1 DEF ListsGood, Apart
  <2>4. Range(blocks') = {b} \cup Range(blocks) /\ Head(blocks') = b /\ blocks' # << >>
    <3> DEFINE S == heap \cup {b}
    <3>1. b \in S
      OBVIOUS
    <3>2. blocks \in Seq(S)
      BY <2>2
    <3> HIDE DEF S
    <3>3. QED
      BY <2>1, <2>3, <3>1, <3>2, PushedList
  <2>5. ASSUME NEW x \in allocs PROVE x.block # b.id
    <3>1. PICK c \in Range(blocks) : c.id = x.block
      BY <1>1 DEF AllocsGood
    <3>2. QED
      BY <2>1, <3>1
  <2>6. QED
    BY <2>1, <2>4, <2>5
<1>5. QED
  BY <1>3, <1>4 DEF Guaranteed

(* Where an allocation of n bytes starts, and what is used then.           *)
LEMMA StartOfAllocation ==
  ASSUME used \in Nat, NEW n \in Nat, NEW at, at = RoundUp(Header + used, Align)
  PROVE  /\ at \in Nat /\ Header + used <= at /\ at < Header + used + Align
         /\ UsedAfter(n, at) \in Nat /\ Header + UsedAfter(n, at) = at + n
<1> DEFINE x == Header + used
           r == RoundUp(x, Align)
<1>1. Header \in Nat /\ Align \in Nat \ {0} /\ x \in Nat
  BY ArenaNumbers
<1>2. r \in Nat /\ x <= r /\ r < x + Align
  <2> HIDE DEF x
  <2>1. QED
    BY <1>1, RoundedUp
<1>3. at = r
  OBVIOUS
<1> HIDE DEF r
<1>4. UsedAfter(n, at) = used + n + (at - (Header + used))
  BY DEF UsedAfter
<1>5. QED
  BY <1>1, <1>2, <1>3, <1>4

(* To ask for no bytes takes nothing but padding. *)
LEMMA AllocateNothing ==
  ASSUME ArenaInv, Allocate(0)
  PROVE  ArenaInv' /\ allocs' = allocs
<1> DEFINE at == RoundUp(Header + used, Align)
<1>1. used' = UsedAfter(0, at) /\ UNCHANGED <<blocks, empty, heap, allocs>>
  <2>1. {0} \ {0} = {}
    OBVIOUS
  <2>2. QED
    BY <2>1 DEF Allocate, GuaranteeCapacity
<1>2. AllocsGood
  BY DEF ArenaInv
<1>3. /\ at \in Nat /\ Header + used <= at /\ used \in Nat
      /\ used' \in Nat /\ Header + used' = at
  BY <1>1, <1>2, StartOfAllocation DEF AllocsGood
<1>4. Header \in Nat /\ Align \in Nat \ {0} /\ Header % Align = 0
  BY PincArenaAssumption
<1>5. blocks = << >> => used' = 0
  <2>1. SUFFICES ASSUME blocks = << >> PROVE used' = 0
    OBVIOUS
  <2>2. used = 0
    BY <1>2, <2>1 DEF AllocsGood
  <2>3. RoundUp(Header, Align) = Header
    BY <1>4, AlignedStays
  <2>4. Header + used = Header
    BY <1>4, <2>2
  <2>5. at = Header
    BY <2>3, <2>4
  <2>6. QED
    BY <1>3, <1>4, <2>5
<1> HIDE DEF at
<1>6. \A x \in allocs : x.at + x.size <= Header + used => x.at + x.size <= Header + used'
  <2>1. \A x \in allocs : x.at \in Nat /\ x.size \in Sizes
    BY <1>2 DEF AllocsGood, Allocations
  <2>2. \A x \in allocs : x.at \in Nat /\ x.size \in Nat
    BY <2>1, ArenaNumbers
  <2>3. ASSUME NEW h \in Nat, h = Header + used, NEW k \in Nat, k = Header + used'
        PROVE  h <= k
    BY <1>3, <1>4, <2>3
  <2>4. Header + used \in Nat /\ Header + used' \in Nat
    <3>1. Header \in Nat /\ used \in Nat
      BY <1>3, ArenaNumbers
    <3>2. used' \in Nat
      BY <1>3
    <3>3. ASSUME NEW n \in Nat PROVE Header + n \in Nat
      BY <3>1
    <3>4. QED
      BY <3>1, <3>2, <3>3
  <2>5. Header + used <= Header + used'
    BY <2>3, <2>4
  <2>6. ASSUME NEW h \in Nat, NEW k \in Nat, h <= k, NEW x \in allocs, x.at + x.size <= h
        PROVE  x.at + x.size <= k
    BY <2>2, <2>6
  <2>7. QED
    BY <2>4, <2>5, <2>6
<1>7. AllocsGood'
  BY <1>1, <1>2, <1>3, <1>5, <1>6 DEF AllocsGood, Allocations, Ids
<1>8. QED
  BY <1>1, <1>7
     DEF ArenaInv, HeapGood, Blocks, ListsGood, Apart, IsLarge, AllocationsDisjoint, Descends,
         ReserveBounded

(* An allocation keeps the invariant. *)
LEMMA AllocateSomeInv ==
  ASSUME ArenaInv, NEW n \in Sizes \ {0}, Allocate(n)
  PROVE  ArenaInv'
<1> DEFINE at == RoundUp(Header + used, Align)
           top == Head(blocks')
           a == [block |-> top.id, at |-> at, size |-> n]
<1>1. n \in Nat \ {0}
  BY ArenaNumbers
<1>2. AllocsGood /\ AllocationsDisjoint
  BY DEF ArenaInv
<1>3. GuaranteeCapacity(n) /\ used' = UsedAfter(n, at) /\ allocs' = allocs \cup {a}
  <2>1. {[block |-> top.id, at |-> at, size |-> m] : m \in {n} \ {0}} = {a}
    BY <1>1
  <2>2. QED
    BY <2>1 DEF Allocate
<1>4. Guaranteed(n)
  BY <1>1, <1>3, CapacityGuaranteed
<1>5. /\ at \in Nat /\ Header + used <= at /\ used \in Nat
      /\ used' \in Nat /\ Header + used' = at + n
  BY <1>1, <1>2, <1>3, StartOfAllocation DEF AllocsGood
<1>6. /\ blocks' # << >> /\ top \in heap'
      /\ top \in Range(blocks') /\ Range(blocks) \subseteq Range(blocks')
      /\ \A x \in allocs : x.block = top.id => x.at + x.size <= Header + used
  BY <1>1, <1>4, TopOfStack
<1>7. HeapGood' /\ ListsGood' /\ ReserveBounded'
  BY <1>4 DEF Guaranteed
<1>8. top.id \in Ids
  BY <1>6, <1>7 DEF HeapGood, Blocks
<1>9. a \in Allocations
  BY <1>5, <1>8 DEF Allocations
<1>10. allocs \subseteq Allocations
  BY <1>2 DEF AllocsGood
<1>11. Header \in Nat /\ Sizes \subseteq Nat
  BY ArenaNumbers
<1>12. \A x \in allocs : x.at \in Nat /\ x.size \in Nat
  BY <1>10, <1>11 DEF Allocations
<1> HIDE DEF at, top
<1>13. a.at = at /\ a.size = n /\ a.block = top.id
  OBVIOUS
<1> HIDE DEF a
<1>14. \A x \in allocs' : Header <= x.at /\ \E b \in Range(blocks') : b.id = x.block
  <2>1. Header <= a.at
    BY <1>5, <1>11, <1>13
  <2>2. \A x \in allocs : Header <= x.at /\ \E b \in Range(blocks') : b.id = x.block
    BY <1>2, <1>6 DEF AllocsGood
  <2>3. QED
    BY <1>3, <1>6, <1>13, <2>1, <2>2 DEF a, at, top
<1>15. \A x \in allocs' : x.block = top.id => x.at + x.size <= Header + used'
  <2>1. ASSUME NEW x \in allocs, x.block = top.id PROVE x.at + x.size <= Header + used'
    <3>1. x.at + x.size <= Header + used
      BY <1>6, <2>1
    <3> DEFINE e == x.at + x.size
               h == Header + used
               h2 == Header + used'
    <3>2. e \in Nat /\ h \in Nat /\ e <= h /\ h <= at /\ h2 = at + n
      <4>1. e \in Nat
        BY <1>12
      <4>2. h \in Nat
        BY <1>5, <1>11
      <4>3. QED
        BY <1>5, <3>1, <4>1, <4>2
    <3> HIDE DEF e, h, h2
    <3>3. e <= h2
      BY <1>1, <1>5, <3>2
    <3>4. QED
      BY <3>3 DEF e, h2
  <2>2. a.at + a.size <= Header + used'
    BY <1>1, <1>5, <1>13
  <2>3. QED
    BY <1>3, <2>1, <2>2 DEF a, at, top
<1>16. AllocsGood'
  <2>1. allocs' = allocs \cup {a}
    BY <1>3 DEF a, at, top
  <2>2. allocs' \subseteq Allocations
    BY <1>9, <1>10, <2>1
  <2>3. QED
    BY <1>5, <1>6, <1>14, <1>15, <2>2 DEF AllocsGood, Allocations, Ids, top
<1>17. AllocationsDisjoint'
  <2>1. allocs' = allocs \cup {a}
    BY <1>3 DEF a, at, top
  <2>2. ASSUME NEW x \in allocs, x.block = a.block PROVE x.at + x.size <= a.at
    <3>1. x.at + x.size <= Header + used
      BY <1>6, <1>13, <2>2
    <3>2. QED
      BY <1>5, <1>11, <1>12, <1>13, <3>1
  <2>3. QED
    BY <1>2, <2>1, <2>2 DEF AllocationsDisjoint
<1>18. QED
  BY <1>7, <1>16, <1>17 DEF ArenaInv

(* Whether it has bytes or not.                                            *)
LEMMA AllocateInv ==
  ASSUME ArenaInv, NEW n \in Sizes, Allocate(n)
  PROVE  ArenaInv'
<1>1. CASE n = 0
  BY <1>1, AllocateNothing
<1>2. CASE n # 0
  BY <1>2, AllocateSomeInv
<1>3. QED
  BY <1>1, <1>2

(* What is freed, the last of the top block or another, keeps it.          *)
LEMMA FreeInv ==
  ASSUME ArenaInv, NEW a \in allocs, Free(a)
  PROVE  ArenaInv'
<1>1. AllocsGood /\ AllocationsDisjoint
  BY DEF ArenaInv
<1>2. /\ used' = Reclaimed(a) /\ allocs' = allocs \ {a}
      /\ blocks' = blocks /\ empty' = empty /\ heap' = heap
  BY DEF Free
<1>3. HeapGood' /\ ListsGood' /\ ReserveBounded'
  BY <1>2 DEF ArenaInv, HeapGood, Blocks, ListsGood, Apart, IsLarge, Descends, ReserveBounded
<1>4. \A x \in allocs : x.at \in Nat /\ x.size \in Nat /\ x.size > 0 /\ Header <= x.at
  <2>1. Sizes \ {0} \subseteq Nat \ {0}
    BY ArenaNumbers
  <2>2. allocs \subseteq Allocations
    BY <1>1 DEF AllocsGood
  <2>3. \A x \in allocs : x.at \in Nat /\ x.size \in Sizes \ {0}
    BY <2>2 DEF Allocations
  <2>4. \A m \in Sizes \ {0} : m \in Nat /\ m > 0
    BY <2>1
  <2>5. QED
    BY <1>1, <2>3, <2>4 DEF AllocsGood
<1>5. used \in Nat /\ Header \in Nat
  BY <1>1, ArenaNumbers DEF AllocsGood
<1>6. blocks # << >>
  <2>1. SUFFICES ASSUME blocks = << >> PROVE FALSE
    OBVIOUS
  <2>2. PICK b \in Range(blocks) : b.id = a.block
    BY <1>1 DEF AllocsGood
  <2>3. Range(blocks) = {}
    BY <2>1 DEF Range
  <2>4. QED
    BY <2>2, <2>3
<1> DEFINE top == Head(blocks)
<1>7. \A x \in allocs : x.block = top.id => x.at + x.size <= Header + used
  BY <1>1, <1>6 DEF AllocsGood
<1> HIDE DEF top
<1>8. /\ used' \in Nat
      /\ \A x \in allocs' : x.block = top.id => x.at + x.size <= Header + used'
  <2>1. CASE a.block = top.id /\ a.at + a.size = Header + used
    <3>1. used' = used - a.size
      BY <1>2, <2>1 DEF Reclaimed, top
    <3>2. used' \in Nat /\ Header + used' = a.at
      BY <1>4, <1>5, <2>1, <3>1
    <3>3. ASSUME NEW x \in allocs', x.block = top.id PROVE x.at + x.size <= Header + used'
      <4>1. x \in allocs /\ x # a
        BY <1>2
      <4>2. x.at + x.size <= a.at \/ a.at + a.size <= x.at
        BY <1>1, <2>1, <3>3, <4>1 DEF AllocationsDisjoint
      <4>3. ~(a.at + a.size <= x.at)
        <5>1. x.at + x.size <= Header + used /\ x.size > 0 /\ x.at \in Nat /\ x.size \in Nat
          BY <1>4, <1>7, <3>3, <4>1
        <5>2. QED
          BY <1>5, <2>1, <5>1
      <4>4. QED
        BY <3>2, <4>2, <4>3
    <3>4. QED
      BY <3>2, <3>3
  <2>2. CASE ~(a.block = top.id /\ a.at + a.size = Header + used)
    <3>1. used' = used
      BY <1>2, <2>2 DEF Reclaimed, top
    <3>2. QED
      BY <1>2, <1>5, <1>7, <3>1
  <2>3. QED
    BY <2>1, <2>2
<1>9. AllocsGood'
  <2>1. allocs' \subseteq allocs
    BY <1>2
  <2>2. allocs' \subseteq Allocations
    BY <1>1, <2>1 DEF AllocsGood
  <2>3. \A x \in allocs' : Header <= x.at /\ \E b \in Range(blocks') : b.id = x.block
    BY <1>1, <1>2, <2>1 DEF AllocsGood
  <2>4. QED
    BY <1>2, <1>6, <1>8, <2>2, <2>3 DEF AllocsGood, Allocations, Ids, top
<1>10. AllocationsDisjoint'
  BY <1>1, <1>2 DEF AllocationsDisjoint
<1>11. QED
  BY <1>3, <1>9, <1>10 DEF ArenaInv

(* An arena without blocks. *)
LEMMA EmptyArenaInv ==
  ASSUME blocks' = << >>, empty' = << >>, used' = 0, allocs' = {},
         HeapGood', \A b \in heap' : IsLarge(b)
  PROVE  ArenaInv'
<1>1. << >> \in Seq(heap') /\ Range(<< >>) = {} /\ IsInjective(<< >>) /\ Len(<< >>) = 0
  BY EmptySeq DEF Range, IsInjective
<1>2. ListsGood'
  <2>1. Apart(blocks', empty')
    BY <1>1 DEF Apart
  <2>2. QED
    BY <1>1, <2>1 DEF ListsGood, Apart, IsLarge
<1>3. AllocsGood' /\ AllocationsDisjoint' /\ ReserveBounded'
  BY <1>1 DEF AllocsGood, AllocationsDisjoint, ReserveBounded, Descends
<1>4. QED
  BY <1>2, <1>3 DEF ArenaInv

(* PincArenaAllocator_deinit leaves nothing but the large blocks lost.     *)
LEMMA DeinitArenaInv ==
  ASSUME ArenaInv, Deinit
  PROVE  ArenaInv'
<1>1. HeapGood /\ ListsGood
  BY DEF ArenaInv
<1>2. heap' = heap \ Range(blocks \o empty)
  BY DEF Deinit
<1>3. Range(blocks \o empty) = Range(blocks) \cup Range(empty)
  BY <1>1, RangeConcatenation DEF ListsGood
<1>4. HeapGood'
  <2>1. heap' \subseteq heap
    BY <1>2
  <2>2. IsFiniteSet(heap')
    BY <1>1, <2>1, FS_Subset DEF HeapGood
  <2>3. QED
    BY <1>1, <2>1, <2>2 DEF HeapGood, Blocks
<1>5. \A b \in heap' : IsLarge(b)
  BY <1>1, <1>2, <1>3 DEF ListsGood
<1>6. blocks' = << >> /\ empty' = << >> /\ used' = 0 /\ allocs' = {}
  BY DEF Deinit
<1>7. QED
  BY <1>4, <1>5, <1>6, EmptyArenaInv

(* At first nothing is allocated. *)
LEMMA ArenaInitInv == ArenaInit => ArenaInv
<1>1. SUFFICES ASSUME ArenaInit PROVE ArenaInv
  OBVIOUS
<1>2. blocks = << >> /\ empty = << >> /\ used = 0 /\ heap = {} /\ allocs = {}
  BY <1>1 DEF ArenaInit
<1>3. << >> \in Seq(heap) /\ Range(<< >>) = {} /\ IsInjective(<< >>) /\ Len(<< >>) = 0
  BY EmptySeq DEF Range, IsInjective
<1>4. HeapGood
  BY <1>2, FS_EmptySet DEF HeapGood
<1>5. ListsGood
  BY <1>2, <1>3 DEF ListsGood, Apart
<1>6. AllocsGood /\ AllocationsDisjoint /\ ReserveBounded
  BY <1>2, <1>3 DEF AllocsGood, AllocationsDisjoint, ReserveBounded, Descends
<1>7. QED
  BY <1>4, <1>5, <1>6 DEF ArenaInv

(* A step of anything else changes nothing. *)
LEMMA ArenaStutterInv ==
  ASSUME ArenaInv, UNCHANGED arenaVars
  PROVE  ArenaInv'
BY DEF arenaVars, ArenaInv, HeapGood, Blocks, Ids, ListsGood, Apart, IsLarge, AllocsGood,
       Allocations, AllocationsDisjoint, Descends, ReserveBounded

(* The invariant holds at all times. *)
THEOREM ArenaInvariant == ArenaSpec => []ArenaInv
<1>1. ArenaInv /\ [ArenaNext]_arenaVars => ArenaInv'
  <2>1. SUFFICES ASSUME ArenaInv, [ArenaNext]_arenaVars PROVE ArenaInv'
    OBVIOUS
  <2>2. CASE \E n \in Sizes : Allocate(n)
    BY <2>1, <2>2, AllocateInv
  <2>3. CASE \E a \in allocs : Free(a)
    BY <2>1, <2>3, FreeInv
  <2>4. CASE Reset
    BY <2>1, <2>4, ResetInv
  <2>5. CASE Deinit
    BY <2>1, <2>5, DeinitArenaInv
  <2>6. CASE UNCHANGED arenaVars
    BY <2>1, <2>6, ArenaStutterInv
  <2>7. QED
    BY <2>1, <2>2, <2>3, <2>4, <2>5, <2>6 DEF ArenaNext
<1>2. QED
  BY ArenaInitInv, <1>1, PTL DEF ArenaSpec

(* Two allocations of one step in one block never share a byte: what       *)
(* PincArenaAllocator_allocateAligned hands out lies behind all that was   *)
(* handed out of the top block and not taken back.                         *)
THEOREM AllocationsAlwaysDisjoint == ArenaSpec => []AllocationsDisjoint
<1>1. ArenaInv => AllocationsDisjoint
  BY DEF ArenaInv
<1>2. QED
  BY ArenaInvariant, <1>1, PTL

(* Each block is in one place of one list, no freed block is on one, and   *)
(* none is lost by PincArenaAllocator_reset but the large ones.            *)
THEOREM BlocksAlwaysAccounted == ArenaSpec => []BlocksAccounted
<1>1. ArenaInv => BlocksAccounted
  <2>1. SUFFICES ASSUME ListsGood PROVE BlocksAccounted
    BY DEF ArenaInv
  <2>2. blocks \in Seq(heap) /\ empty \in Seq(heap) /\ Apart(blocks, empty)
    BY <2>1 DEF ListsGood
  <2>3. IsInjective(blocks \o empty)
    BY <2>2, ConcatApart
  <2>4. Range(blocks \o empty) = Range(blocks) \cup Range(empty)
    BY <2>2, RangeConcatenation
  <2>5. Range(blocks) \subseteq heap /\ Range(empty) \subseteq heap
    BY <2>2, InRange
  <2>6. QED
    BY <2>1, <2>3, <2>4, <2>5 DEF BlocksAccounted, ListsGood
<1>2. QED
  BY ArenaInvariant, <1>1, PTL

(* What PincArenaAllocator_reset keeps exceeds the bytes it is told to     *)
(* keep by less than two of the smallest blocks kept, and is listed from   *)
(* the largest block to the smallest.                                      *)
THEOREM ReserveAlwaysBounded == ArenaSpec => []ReserveBounded
<1>1. ArenaInv => ReserveBounded
  BY DEF ArenaInv
<1>2. QED
  BY ArenaInvariant, <1>1, PTL

(* How far an allocation may reach past the end of its block.              *)
Overruns ==
  \A a \in allocs' \ allocs :
    LET past == a.at + a.size - Head(blocks').data
    IN  /\ a.at = Header => past <= 0
        /\ UsedInTop /\ (blocks = << >> \/ blocks' = blocks) => past < Align
        /\ blocks' # blocks => past < used + Align

(* An allocation in its block. *)
LEMMA AllocateOverruns ==
  ASSUME ArenaInv, NEW n \in Sizes \ {0}, Allocate(n)
  PROVE  Overruns
<1> DEFINE at == RoundUp(Header + used, Align)
           top == Head(blocks')
           a == [block |-> top.id, at |-> at, size |-> n]
<1>1. n \in Nat \ {0}
  BY ArenaNumbers
<1>2. GuaranteeCapacity(n) /\ allocs' = allocs \cup {a}
  <2>1. {[block |-> top.id, at |-> at, size |-> m] : m \in {n} \ {0}} = {a}
    BY <1>1
  <2>2. QED
    BY <2>1 DEF Allocate
<1>3. Guaranteed(n)
  BY <1>1, <1>2, CapacityGuaranteed
<1>4. used \in Nat /\ (blocks = << >> => used = 0)
  BY DEF ArenaInv, AllocsGood
<1>5. at \in Nat /\ Header + used <= at /\ at < Header + used + Align
  BY <1>1, <1>4, StartOfAllocation
<1>6. Header \in Nat /\ Align \in Nat
  BY ArenaNumbers
<1>7. blocks' # << >> /\ top \in heap'
  BY <1>1, <1>3, TopOfStack
<1>8. HeapGood'
  BY <1>3 DEF Guaranteed
<1>9. top.data \in Nat /\ Header < top.data
  BY <1>7, <1>8 DEF HeapGood, Blocks
<1>10. \/ blocks' = blocks /\ HasRoom(n)
       \/ Header + n <= top.data /\ blocks' # blocks
  <2>1. ASSUME NEW b, Pushed(n, b) PROVE Header + n <= top.data /\ blocks' # blocks
    <3>1. blocks' = <<b>> \o blocks /\ Header + n <= b.data /\ \A c \in Range(blocks) : b.id # c.id
      BY <2>1 DEF Pushed
    <3>2. blocks \in Seq(heap) /\ IsInjective(blocks) /\ b \notin Range(blocks)
      BY <3>1 DEF ArenaInv, ListsGood, Apart
    <3> DEFINE S == heap \cup {b}
    <3>3. b \in S
      OBVIOUS
    <3>4. blocks \in Seq(S)
      BY <3>2, SeqMonotonic
    <3> HIDE DEF S
    <3>5. Head(blocks') = b /\ blocks' # blocks
      BY <3>1, <3>2, <3>3, <3>4, PushedList
    <3>6. QED
      BY <3>1, <3>5
  <2>2. QED
    BY <1>3, <2>1 DEF Guaranteed
<1> DEFINE past == at + n - top.data
           d == top.data
<1>11. HasRoom(n) /\ blocks' = blocks => blocks # << >> /\ d - used - Header \notin 0 .. (n - 1)
  BY DEF HasRoom
<1>12. d \in Nat /\ Header < d
  BY <1>9
<1>13. UsedInTop /\ blocks' = blocks /\ blocks # << >> => Header + used <= d
  BY DEF UsedInTop
<1> HIDE DEF at, top, d
<1>14. at = Header => at + n - d <= 0
  <2>1. SUFFICES ASSUME at = Header PROVE at + n - d <= 0
    OBVIOUS
  <2>2. used = 0
    BY <1>4, <1>5, <1>6, <2>1
  <2>3. CASE blocks' = blocks /\ HasRoom(n)
    <3>1. d - used - Header \notin 0 .. (n - 1)
      BY <1>11, <2>3
    <3>2. QED
      BY <1>1, <1>6, <1>12, <2>1, <2>2, <3>1
  <2>4. CASE Header + n <= d
    BY <1>1, <1>6, <1>12, <2>1, <2>4
  <2>5. QED
    BY <1>10, <2>3, <2>4 DEF d
<1>15. UsedInTop /\ (blocks = << >> \/ blocks' = blocks) => at + n - d < Align
  <2>1. SUFFICES ASSUME UsedInTop, blocks = << >> \/ blocks' = blocks
                 PROVE  at + n - d < Align
    OBVIOUS
  <2>2. CASE blocks' = blocks /\ HasRoom(n)
    <3>1. d - used - Header \notin 0 .. (n - 1) /\ Header + used <= d
      BY <1>11, <1>13, <2>1, <2>2
    <3>2. QED
      BY <1>1, <1>4, <1>5, <1>6, <1>12, <3>1
  <2>3. CASE Header + n <= d /\ blocks' # blocks
    <3>1. used = 0
      BY <1>4, <2>1, <2>3
    <3>2. QED
      BY <1>1, <1>5, <1>6, <1>12, <2>3, <3>1
  <2>4. QED
    BY <1>10, <2>2, <2>3 DEF d
<1>16. blocks' # blocks => at + n - d < used + Align
  <2>1. SUFFICES ASSUME blocks' # blocks PROVE at + n - d < used + Align
    OBVIOUS
  <2>2. Header + n <= d
    BY <1>10, <2>1 DEF d
  <2>3. QED
    BY <1>1, <1>4, <1>5, <1>6, <1>12, <2>2
<1>17. a.at = at /\ a.size = n
  OBVIOUS
<1>18. \A x \in allocs' \ allocs : x = a
  BY <1>2 DEF at, top
<1> HIDE DEF a
<1>19. ASSUME NEW x \in allocs' \ allocs
       PROVE  /\ x.at = Header => x.at + x.size - d <= 0
              /\ UsedInTop /\ (blocks = << >> \/ blocks' = blocks) => x.at + x.size - d < Align
              /\ blocks' # blocks => x.at + x.size - d < used + Align
  <2>1. x.at = at /\ x.size = n
    BY <1>17, <1>18
  <2>2. QED
    BY <1>14, <1>15, <1>16, <2>1
<1>20. QED
  BY <1>19 DEF Overruns, d, top

(* An allocation leaves its block in three ways only, and by how much is   *)
(* bounded in two of them: behind padding, which guaranteeCapacity does    *)
(* not count, and in a block pushed upon another one, whose lastBlockUsed  *)
(* it does not count either.  The third, not bounded, needs one of these   *)
(* before: lastBlockUsed is past the end of the block, and the room left   *)
(* in it wraps.                                                            *)
THEOREM OverrunsInThreeWaysOnly == ArenaSpec => OverrunsOnlyBy
<1>1. ArenaInv /\ [ArenaNext]_arenaVars => [Overruns]_arenaVars
  <2>1. SUFFICES ASSUME ArenaInv, ArenaNext PROVE Overruns
    OBVIOUS
  <2>2. CASE \E n \in Sizes \ {0} : Allocate(n)
    BY <2>1, <2>2, AllocateOverruns
  <2>3. CASE ~\E n \in Sizes \ {0} : Allocate(n)
    <3>1. Allocate(0) => allocs' = allocs
      BY <2>1, AllocateNothing
    <3>2. allocs' \subseteq allocs
      BY <2>1, <2>3, <3>1 DEF ArenaNext, Free, Reset, Deinit
    <3>3. QED
      BY <3>2 DEF Overruns
  <2>4. QED
    BY <2>2, <2>3
<1>2. QED
  BY ArenaInvariant, <1>1, PTL DEF ArenaSpec, OverrunsOnlyBy, Overruns
=============================================================================
