------------------------------ MODULE PincUtf8 ------------------------------
(***************************************************************************)
(* Text input: pincSdl2step's SDL_TEXTINPUT (pinc_sdl2.c) and the decoder  *)
(* it calls, pincDecodeUTF8String (libs/pinc_utf8.c), one turn of the loop *)
(* at a time.  SDL hands over well-formed UTF-8, so a text is given with   *)
(* the codepoints it encodes and the offsets where they start; what UTF-8  *)
(* is (Encode) is the reference the decoder is held against.               *)
(***************************************************************************)
EXTENDS Integers, Sequences

CONSTANTS
  Texts,       \* the texts SDL may hand over
  Capacity,    \* the bytes of SDL's text, and the codepoints of the buffer
  SizeMax      \* bound: values of size_t

VARIABLES
  phase,       \* whether a text is being decoded, or its events made
  text,        \* the text received
  pos,         \* rem_str, as an offset into the text's bytes
  rem,         \* rem_len
  index,       \* index
  out,         \* the codepoints written to the buffer
  events       \* the codepoints of the text input events made of it

vars == <<phase, text, pos, rem, index, out, events>>

(***************************************************************************)
(* UTF-8 as the standard defines it: NUL and the surrogates do not occur.  *)
(***************************************************************************)
Codepoint(c) ==
  c \in Nat /\ 0 < c /\ c <= 1114111 /\ ~(55296 <= c /\ c <= 57343)

Size(c) == IF c < 128 THEN 1 ELSE IF c < 2048 THEN 2 ELSE IF c < 65536 THEN 3 ELSE 4

Encode(c) ==
  IF Size(c) = 1 THEN <<c>>
  ELSE IF Size(c) = 2 THEN <<192 + (c \div 64), 128 + (c % 64)>>
  ELSE IF Size(c) = 3
       THEN <<224 + (c \div 4096), 128 + ((c \div 64) % 64), 128 + (c % 64)>>
  ELSE <<240 + (c \div 262144), 128 + ((c \div 4096) % 64),
         128 + ((c \div 64) % 64), 128 + (c % 64)>>

WellFormed(t) ==
  LET n == Len(t.codepoints)
  IN  /\ t.codepoints \in Seq(Nat)
      /\ t.bytes \in Seq(0 .. 255)
      /\ t.starts \in [1 .. n + 1 -> 0 .. Len(t.bytes)]
      /\ t.starts[1] = 0 /\ t.starts[n + 1] = Len(t.bytes)
      /\ \A k \in 1 .. n :
           /\ Codepoint(t.codepoints[k])
           /\ t.starts[k + 1] = t.starts[k] + Size(t.codepoints[k])
           /\ \A j \in 1 .. Size(t.codepoints[k]) :
                t.bytes[t.starts[k] + j] = Encode(t.codepoints[k])[j]

ASSUME PincUtf8Assumption ==
  /\ \A t \in Texts : WellFormed(t) /\ Len(t.bytes) < Capacity
  /\ Capacity \in Nat /\ SizeMax \in Nat /\ Capacity < SizeMax

-----------------------------------------------------------------------------
(* pincUTF8SequenceLen.  Every comparison is strict.  The faulty variants  *)
(* take the bytes of three for those of two, or make one more too strict.  *)
SequenceLenShort(b) ==
  IF b < 127 THEN 1
  ELSE IF b > 192 /\ b < 239 THEN 2
  ELSE IF b > 240 /\ b < 247 THEN 4
  ELSE 0

SequenceLenStricter(b) ==
  IF b < 126 THEN 1
  ELSE IF b > 192 /\ b < 223 THEN 2
  ELSE IF b > 224 /\ b < 239 THEN 3
  ELSE IF b > 240 /\ b < 247 THEN 4
  ELSE 0

SequenceLen(b) ==
  IF b < 127 THEN 1
  ELSE IF b > 192 /\ b < 223 THEN 2
  ELSE IF b > 224 /\ b < 239 THEN 3
  ELSE IF b > 240 /\ b < 247 THEN 4
  ELSE 0

(* pincDecodeUTF8Single on the bytes of s after the first p, of which      *)
(* remaining are left.  The two halves of a sequence of two are joined     *)
(* with &, which leaves nothing of either; the fourth byte is read from    *)
(* the third's place.  The faulty variant reads the third from the second's. *)
Continues(byte) == byte \in 128 .. 191

Joined(high, byte) == (high * 64) + (byte % 64)

DecodeSingleRepeats(s, p, remaining) ==
  LET len == SequenceLen(s[p + 1])
  IN  IF remaining < len \/ len \in {0, 2} THEN 0
      ELSE IF len = 1 THEN s[p + 1]
      ELSE Joined(Joined(s[p + 1] % 16, s[p + 2]), s[p + 2])

DecodeSingle(s, p, remaining) ==
  LET len   == SequenceLen(s[p + 1])
      three == Joined(Joined(s[p + 1] % 16, s[p + 2]), s[p + 3])
  IN  IF remaining < len \/ len \in {0, 2} THEN 0
      ELSE IF len = 1 THEN s[p + 1]
      ELSE IF ~Continues(s[p + 2]) \/ ~Continues(s[p + 3]) THEN 0
      ELSE IF len = 3 THEN three
      ELSE Joined(three, s[p + 3])

-----------------------------------------------------------------------------
NoText == [codepoints |-> << >>, starts |-> <<0>>, bytes |-> << >>]
Unwritten == [i \in 1 .. Capacity |-> 0]

Init ==
  /\ phase = "idle"
  /\ text = NoText
  /\ pos = 0 /\ rem = 0 /\ index = 0
  /\ out = Unwritten
  /\ events = << >>

(* SDL_TEXTINPUT: the text is shorter than SDL's buffer.  The decoder      *)
(* returns at once for an empty text, as its loop does.  What its buffer   *)
(* holds at first is not read.                                             *)
Receive(t) ==
  /\ phase = "idle"
  /\ phase' = "decoding"
  /\ text' = t
  /\ rem' = Len(t.bytes)
  /\ UNCHANGED <<pos, index, out, events>>

(* One turn of pincDecodeUTF8String's loop. *)
DecodeOne ==
  /\ phase = "decoding" /\ rem > 0
  /\ LET len == SequenceLen(text.bytes[pos + 1])
     IN  /\ out' = IF index < Capacity
                   THEN [out EXCEPT ![index + 1] = DecodeSingle(text.bytes, pos, rem)]
                   ELSE out
         /\ pos' = pos + len
         /\ rem' = (rem - len) % SizeMax
         /\ index' = (index + 1) % SizeMax
  /\ UNCHANGED <<phase, text, events>>

(* The loop is over: one PincEventTextInput for each codepoint counted,    *)
(* unless the assertion that they fit the buffer fails.                    *)
Emit ==
  /\ phase = "decoding" /\ rem = 0
  /\ phase' = "emitted"
  /\ events' = IF index < Capacity THEN [i \in 1 .. index |-> out[i]] ELSE << >>
  /\ UNCHANGED <<text, pos, rem, index, out>>

Return ==
  /\ phase = "emitted"
  /\ phase' = "idle"
  /\ text' = NoText
  /\ pos' = 0 /\ rem' = 0 /\ index' = 0
  /\ out' = Unwritten
  /\ events' = << >>

Decode == DecodeOne \/ Emit \/ Return

Next == (\E t \in Texts : Receive(t)) \/ Decode

(* A call of pincStep goes on to its end. *)
Spec == Init /\ [][Next]_vars /\ WF_vars(Decode)

-----------------------------------------------------------------------------
(* The codepoints pincUTF8SequenceLen makes no progress on: DEL, and those *)
(* whose first byte is 0xDF, 0xE0, 0xEF or 0xF0.                           *)
Stuck(c) ==
  \/ c = 127
  \/ 1984 <= c /\ c <= 4095
  \/ 61440 <= c /\ c <= 262143

(* The codepoints whose value survives: of one byte or three. *)
Faithful(c) == ~Stuck(c) /\ Size(c) \in {1, 3}

Decodable(t) == \A k \in 1 .. Len(t.codepoints) : ~Stuck(t.codepoints[k])

(* The loop reads whole codepoints inside the text: it always stands at    *)
(* the start of one, having counted and decoded those before it, or at the *)
(* end.  The remaining length never wraps around, whatever SDL's text      *)
(* holds; at a codepoint it cannot step over the loop stays.               *)
AtCodepoint(k) ==
  /\ pos = text.starts[k]
  /\ rem = Len(text.bytes) - pos
  /\ \A i \in 1 .. (k - 1) : ~Stuck(text.codepoints[i])
  /\ \/ /\ index = k - 1
        /\ \A i \in 1 .. (k - 1) :
             Faithful(text.codepoints[i]) => out[i] = text.codepoints[i]
     \/ k <= Len(text.codepoints) /\ Stuck(text.codepoints[k])

CursorInText ==
  phase = "decoding" => \E k \in 1 .. Len(text.codepoints) + 1 : AtCodepoint(k)

(* A text that was decoded makes one event for each of its codepoints, in  *)
(* order, with its value if it has one byte or three; and no text with a   *)
(* codepoint the decoder cannot step over ever comes to its events.        *)
EventsMatchText ==
  phase = "emitted" =>
    /\ Decodable(text)
    /\ Len(events) = Len(text.codepoints)
    /\ \A k \in 1 .. Len(events) :
         Faithful(text.codepoints[k]) => events[k] = text.codepoints[k]

(* pincStep comes to the end of every text the decoder can step through. *)
DecodableTextEnds ==
  (phase = "decoding" /\ Decodable(text)) ~> phase = "idle"

(* "Returns the number of codepoints in the string" (pinc_utf8.h:28): the  *)
(* call returns, whatever was typed.                                       *)
EveryTextEnds == phase = "decoding" ~> phase = "idle"
=============================================================================
