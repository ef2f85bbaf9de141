----------------------------- MODULE FrameDecoder ---------------------------
(***************************************************************************)
(* How audio tokens become audio: tokens_decoder of                        *)
(* inference/pipeline/speechpipe.py with turn_token_into_id and            *)
(* convert_to_audio.                                                       *)
(*                                                                         *)
(* The model emits frames of FrameLen codes.  The number in a token tells  *)
(* the code and the place in the frame, and the decoder takes the place    *)
(* from how many tokens it has accepted so far: a token it skips shifts    *)
(* every later one.  A window of whole frames is decoded at each frame.    *)
(* Tokens without audio are dropped and change nothing.                    *)
(***************************************************************************)
EXTENDS Integers, Sequences

CONSTANTS
    FrameLen,      \* 7
    WindowFrames,  \* frames in a window, 4
    Base,          \* codes per place, 4096
    MaxTokens,     \* bound on the tokens of a stream
    MaxZeros       \* bound on the codes that are zero

ASSUME FrameDecoderAssumption ==
    /\ FrameLen \in Nat \ {0} /\ WindowFrames \in Nat \ {0}
    /\ Base \in Nat \ {0}
    /\ MaxTokens \in Nat /\ MaxZeros \in Nat

Window == FrameLen * WindowFrames

VARIABLES
    made,    \* tokens the model has emitted
    zeros,   \* of which carry code zero
    clean,   \* history: how many with another code came last
    buffer,  \* the last accepted tokens: their id, and history: their place
    count,   \* accepted tokens
    out,     \* count when the last window was decoded, 0 before
    ended

vars == <<made, zeros, clean, buffer, count, out, ended>>

Init ==
    /\ made = 0 /\ zeros = 0 /\ clean = 0
    /\ buffer = <<>> /\ count = 0 /\ out = 0
    /\ ended = FALSE

Place == made % FrameLen

(* Mutant of TokenId: the place is not taken off.                           *)
TokenIdWhole(code, place, index) == place * Base + code

(* turn_token_into_id: int(number) - 10 - (index % 7) * 4096.               *)
TokenId(code, place, index) == (place * Base + code) - (index % FrameLen) * Base

(* Mutant of Accepts: code zero is accepted.                                *)
AcceptsZero(id) == id >= 0

Accepts(id) == id > 0

(* Mutant of InRange: codes are not looked at.                              *)
InRangeAlways(w) == w = w

(* convert_to_audio: a window with a code out of range is dropped.          *)
InRange(w) == \A i \in 1 .. Len(w) : 0 <= w[i].id /\ w[i].id <= Base

(* Mutant of Latest: all tokens so far are decoded.                         *)
LatestAll(s) == s

(* buffer[-28:]                                                             *)
Latest(s) == IF Len(s) <= Window THEN s ELSE SubSeq(s, Len(s) - Window + 1, Len(s))

Due(n) == n % FrameLen = 0 /\ n > Window - 1

Accept(id) ==
    /\ buffer' = Latest(Append(buffer, [id |-> id, place |-> Place]))
    /\ count' = count + 1
    /\ out' = IF Due(count') /\ InRange(buffer') THEN count' ELSE out

Token(code) ==
    LET id == TokenId(code, Place, count) IN
    /\ ~ended
    /\ made < MaxTokens
    /\ made' = made + 1
    /\ zeros' = IF code = 0 THEN zeros + 1 ELSE zeros
    /\ zeros' <= MaxZeros
    /\ clean' = IF code = 0 THEN 0 ELSE clean + 1
    /\ IF Accepts(id) THEN Accept(id) ELSE UNCHANGED <<buffer, count, out>>
    /\ UNCHANGED ended

(* After the last token what is left of a frame is decoded with the tokens  *)
(* before it, in a window that starts inside a frame.                       *)
End ==
    /\ ~ended
    /\ ended' = TRUE
    /\ out' = IF count > Window - 1 /\ count % FrameLen # 0 /\ InRange(buffer) THEN count ELSE out
    /\ UNCHANGED <<made, zeros, clean, buffer, count>>

Idle == ended /\ UNCHANGED vars

Next == (\E code \in 0 .. Base - 1 : Token(code)) \/ End \/ Idle

Spec == Init /\ [][Next]_vars

---------------------------------------------------------------------------
(* Properties.                                                              *)

(* The buffer holds the positive ids of a window at most.                   *)
TypeOK ==
    /\ made \in 0 .. MaxTokens /\ zeros \in 0 .. MaxZeros /\ clean \in 0 .. made
    /\ buffer \in Seq([id : Nat \ {0}, place : 0 .. FrameLen - 1]) /\ Len(buffer) <= Window
    /\ count \in 0 .. made /\ out \in 0 .. count
    /\ ended \in BOOLEAN

(* Every code decoded at a frame's end stands in the place it was made for, *)
(* unless it is the one value just above the codes, which the range test    *)
(* lets through: tokens that slipped are never heard.                       *)
EmittedAligned ==
    [][out' # out /\ ~ended' =>
          \A i \in 1 .. Window : buffer'[i].id # Base =>
              buffer'[i].id < Base /\ buffer'[i].place = (i - 1) % FrameLen]_vars

(* However many codes are zero, at the start of a frame the decoder expects *)
(* its first place, or still waits for a last one: slips do not add up.     *)
SlipIsOneSlot == Place = 0 => count % FrameLen \in {0, FrameLen - 1}

(* A zero code costs at most a bounded stretch of sound: when a window and  *)
(* two frames of other codes have come, each further frame is heard.        *)
RecoversAfterZero ==
    Place = 0 /\ clean >= (WindowFrames + 2) * FrameLen - 1 => out = count
=============================================================================
