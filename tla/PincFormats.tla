---------------------------- MODULE PincFormats ----------------------------
(***************************************************************************)
(* Framebuffer formats: pincSdl2queryFramebufferFormats (pinc_sdl2.c)      *)
(* collects them from the modes of SDL's displays, pincInitIncomplete      *)
(* makes an object of each, and pincQueryFramebufferFormatDefault and      *)
(* pincInitComplete (pinc_main.c) choose one.                              *)
(*                                                                         *)
(* SDL reports a mode of one of its displays at a time.  A mode is bad (no *)
(* size or format), unknown (a format without masks), or has the number of *)
(* bits of each channel.  The color space is always sRGB.  Formats are the *)
(* first objects made, so the handle of a format is its place.             *)
(***************************************************************************)
EXTENDS FiniteSets, SequencesExt

CONSTANTS
  Depths,        \* the bits of red, green, blue and alpha of a pixel format
  MaxModes,      \* bound: modes SDL reports
  ListCapacity   \* the room of the list of formats

ASSUME PincFormatsAssumption ==
  /\ Depths \subseteq [1 .. 4 -> Nat]
  /\ MaxModes \in Nat
  /\ ListCapacity \in Nat \ {0}

VARIABLES
  phase,       \* preinit, querying, incomplete, choosing, init, or overrun
  reported,    \* the pixel formats SDL has reported
  modes,       \* how many modes it has reported
  formats,     \* formats, then the framebuffer format objects
  next,        \* the default query's loop: i, bestFormatHandle and bestScore
  best,
  bestScore,
  chosen,      \* staticState.framebufferFormat
  error        \* whether an error was recorded

formatsVars == <<phase, reported, modes, formats, next, best, bestScore, chosen, error>>

NoFormat == 0

(* A display mode's format: no alpha bits, no alpha channel.  The fourth   *)
(* entry of a format of three channels is set all the same.                *)
Format(d) == [channels |-> IF d[4] = 0 THEN 3 ELSE 4, bits |-> d]

SameFormat(f, g) ==
  /\ f.channels = g.channels
  /\ \A c \in 1 .. f.channels : f.bits[c] = g.bits[c]

(* pincSdl2FramebufferFormatAdd.  The guard of the list's growth compares  *)
(* the addresses of the counters, so the list never grows.  The faulty     *)
(* variant compares the colors only.                                       *)
SameColors(f, g) == \A c \in 1 .. 3 : f.bits[c] = g.bits[c]

AddByColors(list, f) ==
  IF \E i \in DOMAIN list : SameColors(list[i], f) THEN list ELSE Append(list, f)

Add(list, f) ==
  IF \E i \in DOMAIN list : SameFormat(list[i], f) THEN list ELSE Append(list, f)

-----------------------------------------------------------------------------
FormatsInit ==
  /\ phase = "preinit"
  /\ reported = {}
  /\ modes = 0
  /\ formats = << >>
  /\ next = 0 /\ best = NoFormat /\ bestScore = 0
  /\ chosen = NoFormat
  /\ error = FALSE

(* pincInitIncomplete comes to the query. *)
QueryFormats ==
  /\ phase = "preinit"
  /\ phase' = "querying"
  /\ UNCHANGED <<reported, modes, formats, next, best, bestScore, chosen, error>>

(* A mode that is skipped with a warning. *)
SkipMode ==
  /\ phase = "querying" /\ modes < MaxModes
  /\ modes' = modes + 1
  /\ UNCHANGED <<phase, reported, formats, next, best, bestScore, chosen, error>>

(* A mode with format d.  The list is written past its end if it is full. *)
AddMode(d) ==
  /\ phase = "querying" /\ modes < MaxModes
  /\ modes' = modes + 1
  /\ reported' = reported \cup {d}
  /\ formats' = Add(formats, Format(d))
  /\ phase' = IF Len(formats') > ListCapacity THEN "overrun" ELSE "querying"
  /\ UNCHANGED <<next, best, bestScore, chosen, error>>

(* SDL cannot count the displays, or the modes of one: the formats found   *)
(* are given up, an error is recorded, and pincInitIncomplete goes on.     *)
QueryFails ==
  /\ phase = "querying"
  /\ error' = TRUE
  /\ formats' = << >>
  /\ phase' = "incomplete"
  /\ UNCHANGED <<reported, modes, next, best, bestScore, chosen>>

(* Every display was looked at: an object is made of each format. *)
QueryEnds ==
  /\ phase = "querying"
  /\ phase' = "incomplete"
  /\ UNCHANGED <<reported, modes, formats, next, best, bestScore, chosen, error>>

-----------------------------------------------------------------------------
(* pincInitComplete with a format the user chose; it does nothing after an *)
(* error.  With a backend and an API it supports nothing else can fail.    *)
InitCompleteWith(f) ==
  /\ phase = "incomplete" /\ ~error
  /\ chosen' = f
  /\ phase' = "init"
  /\ UNCHANGED <<reported, modes, formats, next, best, bestScore, error>>

(* pincInitComplete with no format calls pincQueryFramebufferFormatDefault *)
(* which records an error when there are none, and goes on: its first id   *)
(* is then what the arena's bytes hold.                                    *)
ChooseDefault ==
  /\ phase = "incomplete" /\ ~error
  /\ phase' = "choosing"
  /\ next' = 2 /\ bestScore' = 0
  /\ IF formats = << >>
     THEN error' = TRUE /\ best' \in {NoFormat, 1}
     ELSE error' = FALSE /\ best' = 1
  /\ UNCHANGED <<reported, modes, formats, chosen>>

(* One turn of its loop, which starts behind the first format.  The faulty *)
(* variant forgets to remember the score.                                  *)
Score(f) ==
  (2 * f.channels) + f.bits[1] + f.bits[2] + f.bits[3]
    + (IF f.channels = 4 THEN f.bits[4] ELSE 0) + 16

ScoreNextForgets ==
  /\ phase = "choosing" /\ next <= Len(formats)
  /\ best' = IF Score(formats[next]) > bestScore THEN next ELSE best
  /\ next' = next + 1
  /\ UNCHANGED <<phase, reported, modes, formats, bestScore, chosen, error>>

ScoreNext ==
  /\ phase = "choosing" /\ next <= Len(formats)
  /\ IF Score(formats[next]) > bestScore
     THEN best' = next /\ bestScore' = Score(formats[next])
     ELSE UNCHANGED <<best, bestScore>>
  /\ next' = next + 1
  /\ UNCHANGED <<phase, reported, modes, formats, chosen, error>>

(* pincInitComplete looks at the error before it takes what is returned.   *)
DefaultChosen ==
  /\ phase = "choosing" /\ next > Len(formats)
  /\ IF error
     THEN phase' = "incomplete" /\ UNCHANGED chosen
     ELSE phase' = "init" /\ chosen' = best
  /\ UNCHANGED <<reported, modes, formats, next, best, bestScore, error>>

FormatsNext ==
  \/ QueryFormats \/ SkipMode \/ QueryFails \/ QueryEnds
  \/ \E d \in Depths : AddMode(d)
  \/ \E f \in 1 .. Len(formats) : InitCompleteWith(f)
  \/ ChooseDefault \/ ScoreNext \/ DefaultChosen

FormatsSpec == FormatsInit /\ [][FormatsNext]_formatsVars

-----------------------------------------------------------------------------
FormatsTypeOK ==
  /\ phase \in {"preinit", "querying", "incomplete", "choosing", "init", "overrun"}
  /\ reported \subseteq Depths
  /\ modes \in Nat
  /\ formats \in Seq([channels : {3, 4}, bits : Depths])
  /\ next \in Nat /\ best \in Nat /\ bestScore \in Nat
  /\ chosen \in 0 .. Len(formats)
  /\ error \in BOOLEAN

(* However SDL repeats itself from display to display, each pixel format   *)
(* it reports is offered, and once; after an error none is.                *)
OffersEachOnce ==
  /\ \A i, j \in 1 .. Len(formats) : SameFormat(formats[i], formats[j]) => i = j
  /\ \A i \in 1 .. Len(formats) : \E d \in reported : formats[i] = Format(d)
  /\ IF error
     THEN formats = << >>
     ELSE \A d \in reported : \E i \in 1 .. Len(formats) : SameFormat(formats[i], Format(d))

(* The list that cannot grow is overrun by too many different formats      *)
(* only, not by many modes.                                                *)
OverrunNeedsManyFormats ==
  phase = "overrun" => Cardinality(reported) > ListCapacity

(* Without a choice of the user the format is the best of those offered    *)
(* behind the first.  The first, which the loop never scores               *)
(* (pinc_main.c:766), is chosen if it is the only one, and else never,     *)
(* even if it is the best.                                                 *)
DefaultIsBestBehindFirst ==
  phase = "init" /\ best # NoFormat =>
    /\ chosen = best
    /\ \A i \in 2 .. Len(formats) : Score(formats[i]) <= Score(formats[chosen])
    /\ chosen = 1 <=> Len(formats) = 1
=============================================================================
