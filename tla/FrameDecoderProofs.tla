------------------------- MODULE FrameDecoderProofs -------------------------
(***************************************************************************)
(* Proofs about tokens_decoder for frames, windows and code books of any   *)
(* size and a stream with any number of zero codes: types, the bound on    *)
(* how far the decoder slips, that no slipped token is heard, and that the *)
(* sound comes back.                                                       *)
(***************************************************************************)
EXTENDS FrameDecoder, SequenceTheorems, TLAPS

USE FrameDecoderAssumption

(* The place the decoder gives the next token.                              *)
Slot == count % FrameLen

(* The decoder expects the place that comes, the one before it, or the last *)
(* one: a token that runs ahead is accepted until the frame ends, and one   *)
(* that lags is skipped until the last place comes.                         *)
SlotShape == Slot = Place \/ Place = Slot + 1 \/ Slot = FrameLen - 1

(* The tokens to come before the decoder is in step again.                  *)
LagOf(slot, place) ==
    IF slot = place THEN 0
    ELSE IF place = slot + 1 THEN 2 * FrameLen - 1 - place
    ELSE FrameLen - 1 - place

Lag == LagOf(Slot, Place)

(* The buffer holds the latest tokens, and an id below Base belongs to a    *)
(* token that stood where the decoder took it to stand.                     *)
BufferShape ==
    /\ Len(buffer) = IF count <= Window THEN count ELSE Window
    /\ \A i \in 1 .. Len(buffer) :
          buffer[i].id < Base => buffer[i].place = (count - Len(buffer) + i - 1) % FrameLen

(* Of the codes since the last zero those that came in step, at least.      *)
InStep == clean - (2 * FrameLen - 2)

(* A decoder out of step gets back in step within two frames, and from then *)
(* on every id is below Base.                                               *)
Recovering ==
    /\ Slot # Place => InStep + Lag <= 0
    /\ Slot = Place =>
          /\ InStep <= count
          /\ \A i \in 1 .. Len(buffer) : i > Len(buffer) - InStep => buffer[i].id < Base

---------------------------------------------------------------------------
(* Remainders.                                                              *)

(* Division with remainder.                                                 *)
LEMMA Division ==
    ASSUME NEW t \in Nat \ {0}, NEW m \in Int
    PROVE  /\ m \div t \in Int /\ m % t \in 0 .. t - 1
           /\ m = t * (m \div t) + (m % t)
OBVIOUS

(* A remainder is unique.                                                   *)
LEMMA RemainderUnique ==
    ASSUME NEW t \in Nat \ {0}, NEW q \in Int, NEW r \in 0 .. t - 1
    PROVE  (t * q + r) % t = r
<1>1. PICK m \in Int : m = t * q + r
  OBVIOUS
<1>2. PICK p \in Int, u \in 0 .. t - 1 : u = m % t /\ m = t * p + u
  BY <1>1, Division
<1>3. t * (q - p) = u - r
  BY <1>1, <1>2
<1>4. \A d \in Int : d >= 1 => t * d >= t
  OBVIOUS
<1>5. ~(q - p >= 1)
  BY <1>3, <1>4
<1>6. ~(p - q >= 1)
  <2>1. t * (p - q) = r - u
    BY <1>1, <1>2
  <2> QED BY <1>4, <2>1
<1>7. u = r
  BY <1>3, <1>5, <1>6
<1> QED BY <1>1, <1>2, <1>7

(* Quotient and remainder by the frame length.                              *)
LEMMA FrameDivision ==
    ASSUME NEW n \in Int
    PROVE  \E q \in Int : \E r \in 0 .. FrameLen - 1 : r = n % FrameLen /\ n = FrameLen * q + r
<1>1. FrameLen \in Nat \ {0}
  OBVIOUS
<1>2. /\ n \div FrameLen \in Int /\ n % FrameLen \in 0 .. FrameLen - 1
      /\ n = FrameLen * (n \div FrameLen) + (n % FrameLen)
  BY <1>1, Division
<1> QED BY ONLY <1>2

(* The place after a place.                                                 *)
After(place) == IF place = FrameLen - 1 THEN 0 ELSE place + 1

(* The next token has the next place.                                       *)
LEMMA ModNext ==
    ASSUME NEW n \in Nat
    PROVE  n % FrameLen \in 0 .. FrameLen - 1 /\ (n + 1) % FrameLen = After(n % FrameLen)
<1>0. FrameLen \in Nat \ {0} /\ n \in Int
  OBVIOUS
<1>1. PICK q \in Int : \E r \in 0 .. FrameLen - 1 : r = n % FrameLen /\ n = FrameLen * q + r
  BY <1>0, FrameDivision, Zenon
<1>2. PICK r \in 0 .. FrameLen - 1 : r = n % FrameLen /\ n = FrameLen * q + r
  BY <1>1
<1>3. CASE r = FrameLen - 1
  <2>1. n + 1 = FrameLen * (q + 1) + 0
    BY <1>0, <1>2, <1>3
  <2>2. (FrameLen * (q + 1) + 0) % FrameLen = 0
    BY <1>0, RemainderUnique
  <2> QED BY <1>2, <1>3, <2>1, <2>2 DEF After
<1>4. CASE r # FrameLen - 1
  <2>1. n + 1 = FrameLen * q + (r + 1) /\ r + 1 \in 0 .. FrameLen - 1
    BY <1>0, <1>2, <1>4
  <2>2. (FrameLen * q + (r + 1)) % FrameLen = r + 1
    BY <1>0, <2>1, RemainderUnique
  <2> QED BY <1>2, <1>4, <2>1, <2>2 DEF After
<1> QED BY <1>3, <1>4

(* At the end of a frame, the tokens of the window before it stand where    *)
(* they stand in the window.                                                *)
LEMMA ModWindow ==
    ASSUME NEW n \in Nat, n % FrameLen = 0, NEW i \in Nat
    PROVE  (n - Window + i) % FrameLen = i % FrameLen
<1>0. FrameLen \in Nat \ {0} /\ WindowFrames \in Int /\ n \in Int /\ i \in Int
  OBVIOUS
<1>1. PICK k \in Int : n = FrameLen * k
  <2>1. PICK q \in Int : \E r \in 0 .. FrameLen - 1 : r = n % FrameLen /\ n = FrameLen * q + r
    BY <1>0, FrameDivision, Zenon
  <2>2. n = FrameLen * q
    BY <1>0, <2>1
  <2> QED BY <2>2
<1>2. PICK q \in Int : \E r \in 0 .. FrameLen - 1 : r = i % FrameLen /\ i = FrameLen * q + r
  BY <1>0, FrameDivision, Zenon
<1>3. PICK r \in 0 .. FrameLen - 1 : r = i % FrameLen /\ i = FrameLen * q + r
  BY <1>2
<1>4. n - Window + i = FrameLen * (k - WindowFrames + q) + r
  BY <1>0, <1>1, <1>3 DEF Window
<1>5. k - WindowFrames + q \in Int
  BY <1>0
<1>6. (FrameLen * (k - WindowFrames + q) + r) % FrameLen = r
  BY <1>0, <1>5, RemainderUnique
<1> QED BY <1>3, <1>4, <1>6

---------------------------------------------------------------------------
(* Ids and the buffer.                                                      *)

(* A window holds a token.                                                  *)
LEMMA WindowPositive == Window \in Nat \ {0}
BY DEF Window

(* The id of a token tells whether it runs ahead of the decoder, is in step *)
(* or lags.                                                                 *)
LEMMA TokenIdIs ==
    ASSUME NEW code \in 0 .. Base - 1, NEW place \in 0 .. FrameLen - 1, NEW index \in Nat
    PROVE  /\ TokenId(code, place, index) \in Int
           /\ place = index % FrameLen => TokenId(code, place, index) = code
           /\ place > index % FrameLen => TokenId(code, place, index) >= Base
           /\ place < index % FrameLen => TokenId(code, place, index) < 0
<1>1. PICK r \in 0 .. FrameLen - 1 : r = index % FrameLen
  BY Division
<1>2. PICK id \in Int : id = TokenId(code, place, index)
  BY <1>1 DEF TokenId
<1>3. id = Base * (place - r) + code
  BY <1>1, <1>2 DEF TokenId
<1>4. \A d \in Int : d >= 1 => Base * d >= Base
  OBVIOUS
<1>5. place > r => id >= Base
  BY <1>3, <1>4
<1>6. place < r => id < 0
  <2>1. place < r => Base * (r - place) >= Base
    BY <1>4
  <2>2. Base * (place - r) = 0 - Base * (r - place)
    OBVIOUS
  <2> QED BY <1>3, <2>1, <2>2
<1>7. place = r => id = code
  BY <1>3
<1> QED BY <1>1, <1>2, <1>5, <1>6, <1>7

(* An accepted token: an id and the place it was made for.                  *)
Accepted == [id : Nat \ {0}, place : 0 .. FrameLen - 1]

(* The new token comes last and the window moves over the others.           *)
LEMMA LatestAppend ==
    ASSUME NEW s \in Seq(Accepted), NEW e \in Accepted, Len(s) <= Window
    PROVE  /\ Latest(Append(s, e)) \in Seq(Accepted)
           /\ Len(Latest(Append(s, e))) = IF Len(s) < Window THEN Len(s) + 1 ELSE Window
           /\ Latest(Append(s, e))[Len(Latest(Append(s, e)))] = e
           /\ \A i \in 1 .. Len(Latest(Append(s, e))) - 1 :
                 Latest(Append(s, e))[i] = s[i + (Len(s) + 1 - Len(Latest(Append(s, e))))]
<1>1. PICK a \in Seq(Accepted) : a = Append(s, e)
  BY AppendProperties
<1>2. /\ Len(a) = Len(s) + 1 /\ Len(s) \in Nat /\ a[Len(s) + 1] = e
      /\ \A i \in 1 .. Len(s) : a[i] = s[i]
  BY <1>1, AppendProperties, LenProperties
<1>3. Window \in Nat \ {0}
  BY WindowPositive
<1>4. CASE Len(s) < Window
  <2>1. Latest(a) = a
    BY <1>2, <1>3, <1>4 DEF Latest
  <2> QED BY <1>1, <1>2, <1>4, <2>1
<1>5. CASE ~(Len(s) < Window)
  <2>1. Len(s) = Window
    BY <1>2, <1>3, <1>5
  <2>2. PICK b : b = SubSeq(a, 2, Window + 1)
    OBVIOUS
  <2>3. Latest(a) = b
    BY <1>2, <1>3, <2>1, <2>2 DEF Latest
  <2>4. \A i \in 2 .. Window + 1 : a[i] \in Accepted
    BY <1>1, <1>2, <1>3, <2>1, ElementOfSeq
  <2>5. /\ b \in Seq(Accepted) /\ Len(b) = Window
        /\ \A i \in 1 .. Window : b[i] = a[i + 1]
    BY <1>3, <2>2, <2>4, SubSeqProperties
  <2>6. b[Window] = e
    BY <1>2, <1>3, <2>1, <2>5
  <2>7. \A i \in 1 .. Window - 1 : b[i] = s[i + 1]
    BY <1>2, <1>3, <2>1, <2>5
  <2> QED BY <1>1, <1>3, <2>1, <2>3, <2>5, <2>6, <2>7
<1> QED BY <1>4, <1>5

---------------------------------------------------------------------------
(* The decoder's choice at a token.                                         *)

(* The places stay inside the frame and move on with the tokens.            *)
LEMMA PlacesMove ==
    ASSUME TypeOK, NEW code \in 0 .. Base - 1, Token(code)
    PROVE  /\ Place \in 0 .. FrameLen - 1 /\ Slot \in 0 .. FrameLen - 1
           /\ Place' = After(Place)
           /\ count' = count => Slot' = Slot
           /\ count' = count + 1 => Slot' = After(Slot)
<1>1. made \in Nat /\ count \in Nat /\ made' = made + 1
  BY DEF TypeOK, Token
<1> QED BY <1>1, ModNext DEF Place, Slot

(* A token is accepted when it runs ahead of the decoder, or is in step and *)
(* its code is not zero.                                                    *)
LEMMA TokenTaken ==
    ASSUME TypeOK, NEW code \in 0 .. Base - 1, Token(code)
    PROVE  \/ /\ Place < Slot \/ (Place = Slot /\ code = 0)
              /\ UNCHANGED <<buffer, count, out>>
           \/ /\ Place > Slot \/ (Place = Slot /\ code # 0)
              /\ \E id \in Nat \ {0} :
                   /\ Accept(id)
                   /\ Place = Slot => id < Base
                   /\ id < Base => Place = Slot
<1>1. PICK id : id = TokenId(code, Place, count)
  OBVIOUS
<1>2. count \in Nat /\ Place \in 0 .. FrameLen - 1 /\ Slot \in 0 .. FrameLen - 1
  BY PlacesMove DEF TypeOK
<1>3. /\ id \in Int
      /\ Place = Slot => id = code
      /\ Place > Slot => id >= Base
      /\ Place < Slot => id < 0
  BY <1>1, <1>2, TokenIdIs DEF Slot
<1>4. IF Accepts(id) THEN Accept(id) ELSE UNCHANGED <<buffer, count, out>>
  BY <1>1 DEF Token
<1>5. CASE Accepts(id)
  <2>1. id \in Nat \ {0} /\ Accept(id)
    BY <1>3, <1>4, <1>5 DEF Accepts
  <2>2. (Place = Slot => id < Base) /\ (id < Base => Place = Slot)
    BY <1>2, <1>3, <2>1
  <2>3. Place > Slot \/ (Place = Slot /\ code # 0)
    BY <1>2, <1>3, <2>1
  <2> QED BY <2>1, <2>2, <2>3
<1>6. CASE ~Accepts(id)
  <2>1. UNCHANGED <<buffer, count, out>>
    BY <1>4, <1>6
  <2>2. Place < Slot \/ (Place = Slot /\ code = 0)
    BY <1>2, <1>3, <1>6 DEF Accepts
  <2> QED BY <2>1, <2>2
<1> QED BY <1>5, <1>6

(* What accepting a token does to the buffer.                               *)
LEMMA AcceptBuffer ==
    ASSUME TypeOK, NEW id \in Nat \ {0}, Accept(id), Place \in 0 .. FrameLen - 1
    PROVE  /\ buffer \in Seq(Accepted) /\ buffer' \in Seq(Accepted)
           /\ Len(buffer) \in Nat
           /\ Len(buffer') = IF Len(buffer) < Window THEN Len(buffer) + 1 ELSE Window
           /\ buffer'[Len(buffer')].id = id /\ buffer'[Len(buffer')].place = Place
           /\ \A i \in 1 .. Len(buffer') - 1 :
                 buffer'[i] = buffer[i + (Len(buffer) + 1 - Len(buffer'))]
           /\ count' = count + 1
<1>1. PICK e : e = [id |-> id, place |-> Place]
  OBVIOUS
<1>2. e \in Accepted /\ e.id = id /\ e.place = Place
  BY <1>1 DEF Accepted
<1>3. buffer \in Seq(Accepted) /\ Len(buffer) <= Window /\ Len(buffer) \in Nat
  BY LenProperties DEF TypeOK, Accepted
<1>4. buffer' = Latest(Append(buffer, e)) /\ count' = count + 1
  BY <1>1 DEF Accept
<1> QED BY <1>2, <1>3, <1>4, LatestAppend

---------------------------------------------------------------------------
(* Types.                                                                   *)

(* Every step keeps every variable in its type.                             *)
LEMMA TypeOKStep == TypeOK /\ [Next]_vars => TypeOK'
<1> SUFFICES ASSUME TypeOK, [Next]_vars PROVE TypeOK'
  OBVIOUS
<1>1. ASSUME NEW code \in 0 .. Base - 1, Token(code) PROVE TypeOK'
  <2>1. /\ made' \in 0 .. MaxTokens /\ zeros' \in 0 .. MaxZeros /\ clean' \in 0 .. made'
        /\ made' = made + 1 /\ ended' \in BOOLEAN
    BY <1>1 DEF TypeOK, Token
  <2>2. CASE UNCHANGED <<buffer, count, out>>
    <3>1. count' \in 0 .. made' /\ out' \in 0 .. count'
      BY <2>1, <2>2 DEF TypeOK
    <3> QED BY <2>1, <2>2, <3>1 DEF TypeOK
  <2>3. CASE \E id \in Nat \ {0} : Accept(id)
    <3>1. PICK id \in Nat \ {0} : Accept(id)
      BY <2>3
    <3>2. Place \in 0 .. FrameLen - 1
      BY <1>1, PlacesMove
    <3>3. buffer' \in Seq(Accepted) /\ Len(buffer') <= Window
      BY <3>1, <3>2, AcceptBuffer, WindowPositive
    <3>4. count' = count + 1 /\ out' \in {out, count'}
      BY <3>1 DEF Accept
    <3>5. count' \in 0 .. made' /\ out' \in 0 .. count'
      BY <2>1, <3>4 DEF TypeOK
    <3> QED BY <2>1, <3>3, <3>5 DEF TypeOK, Accepted
  <2> QED BY <1>1, <2>2, <2>3, TokenTaken
<1>2. CASE End
  <2>1. out' \in {out, count}
    BY <1>2 DEF End
  <2>2. out' \in 0 .. count'
    BY <1>2, <2>1 DEF End, TypeOK
  <2> QED BY <1>2, <2>2 DEF End, TypeOK
<1>3. CASE UNCHANGED vars
  BY <1>3 DEF vars, TypeOK
<1> QED BY <1>1, <1>2, <1>3 DEF Next, Idle

(* The decoder keeps its types, its buffer never more than a window of ids. *)
THEOREM TypeCorrect == Spec => []TypeOK
<1>1. Init => TypeOK
  <2> SUFFICES ASSUME Init PROVE TypeOK
    OBVIOUS
  <2>1. ended \in BOOLEAN
    BY Zenon DEF Init
  <2>2. buffer \in Seq(Accepted) /\ Len(buffer) = 0
    BY EmptySeq DEF Init
  <2> QED BY <2>1, <2>2, WindowPositive DEF Init, TypeOK, Accepted
<1> QED BY <1>1, TypeOKStep, PTL DEF Spec

---------------------------------------------------------------------------
(* How far the decoder slips.                                               *)

(* Only tokens move the places.                                             *)
LEMMA SlotShapeStep == TypeOK /\ SlotShape /\ [Next]_vars => SlotShape'
<1> SUFFICES ASSUME TypeOK, SlotShape, [Next]_vars PROVE SlotShape'
  OBVIOUS
<1>1. ASSUME NEW code \in 0 .. Base - 1, Token(code) PROVE SlotShape'
  <2>1. /\ Place \in 0 .. FrameLen - 1 /\ Slot \in 0 .. FrameLen - 1
        /\ Place' = After(Place)
    BY <1>1, PlacesMove
  <2>2. CASE Place < Slot \/ (Place = Slot /\ code = 0)
    <3>1. count' = count
      BY <1>1, <2>1, <2>2, TokenTaken
    <3>2. Slot' = Slot
      BY <1>1, <3>1, PlacesMove
    <3> QED BY <2>1, <2>2, <3>2 DEF SlotShape, After
  <2>3. CASE Place > Slot \/ (Place = Slot /\ code # 0)
    <3>1. count' = count + 1
      <4>1. PICK id \in Nat \ {0} : Accept(id)
        BY <1>1, <2>1, <2>3, TokenTaken
      <4> QED BY <4>1 DEF Accept
    <3>2. Slot' = After(Slot)
      BY <1>1, <3>1, PlacesMove
    <3> QED BY <2>1, <2>3, <3>2 DEF SlotShape, After
  <2> QED BY <2>1, <2>2, <2>3
<1>2. CASE End \/ UNCHANGED vars
  <2>1. UNCHANGED <<made, count>>
    BY <1>2 DEF End, vars
  <2> QED BY <2>1 DEF SlotShape, Slot, Place
<1> QED BY <1>1, <1>2 DEF Next, Idle

(* The decoder starts in step.                                              *)
LEMMA InitSlot == Init => SlotShape
BY DEF Init, SlotShape, Slot, Place

(* However many codes are zero and wherever they come, at the start of a    *)
(* frame the decoder is in step or waits for one last place.                *)
THEOREM SlipTheorem == Spec => []SlipIsOneSlot
<1>1. TypeOK /\ SlotShape => SlipIsOneSlot
  <2> SUFFICES ASSUME TypeOK, SlotShape, Place = 0 PROVE Slot \in {0, FrameLen - 1}
    BY DEF SlipIsOneSlot, Slot
  <2>1. Slot \in 0 .. FrameLen - 1
    <3>1. count \in Nat
      BY DEF TypeOK
    <3> QED BY <3>1, ModNext DEF Slot
  <2> QED BY <2>1 DEF SlotShape
<1> QED BY <1>1, InitSlot, SlotShapeStep, TypeCorrect, PTL DEF Spec

---------------------------------------------------------------------------
(* Where the tokens of the buffer stand.                                    *)

(* A token is accepted with the place it has or with an id of Base or more, *)
(* and its number stays the same as the window moves on.                    *)
LEMMA BufferShapeAccept ==
    ASSUME TypeOK, BufferShape, NEW id \in Nat \ {0}, Accept(id),
           Place \in 0 .. FrameLen - 1, id < Base => Place = Slot
    PROVE  BufferShape'
<1>1. count \in Nat /\ Window \in Nat \ {0} /\ count' = count + 1
  BY WindowPositive DEF TypeOK, Accept
<1>2. PICK n \in Nat : n = Len(buffer)
  BY AcceptBuffer
<1>3. PICK m : m = Len(buffer')
  OBVIOUS
<1>4. /\ m = IF n < Window THEN n + 1 ELSE Window
      /\ buffer'[m].id = id /\ buffer'[m].place = Place
      /\ \A i \in 1 .. m - 1 : buffer'[i] = buffer[i + (n + 1 - m)]
  BY <1>2, <1>3, AcceptBuffer
<1>5. n = IF count <= Window THEN count ELSE Window
  BY <1>2 DEF BufferShape
<1>6. m = IF count' <= Window THEN count' ELSE Window
  BY <1>1, <1>4, <1>5
<1>7. m \in Nat /\ n + 1 - m \in {0, 1} /\ m >= 1
  BY <1>1, <1>4, <1>5
<1>8. \A i \in 1 .. n : buffer[i].id < Base => buffer[i].place = (count - n + i - 1) % FrameLen
  BY <1>2 DEF BufferShape
<1>9. ASSUME NEW i \in 1 .. m, buffer'[i].id < Base
      PROVE  buffer'[i].place = (count' - m + i - 1) % FrameLen
  <2>1. CASE i = m
    <3>1. count' - m + i - 1 = count
      BY <1>1, <1>7, <2>1
    <3>2. buffer'[i].place = count % FrameLen
      BY <1>4, <1>9, <2>1 DEF Slot
    <3> QED BY <3>1, <3>2
  <2>2. CASE i # m
    <3>1. PICK j \in 1 .. n : j = i + (n + 1 - m)
      BY <1>4, <1>7, <2>2
    <3>2. buffer'[i] = buffer[j]
      BY <1>4, <1>7, <2>2, <3>1
    <3>3. buffer[j].place = (count - n + j - 1) % FrameLen
      BY <1>8, <1>9, <3>2
    <3>4. count - n + j - 1 = count' - m + i - 1
      BY <1>1, <1>7, <3>1
    <3> QED BY <3>2, <3>3, <3>4
  <2> QED BY <2>1, <2>2
<1> QED BY <1>3, <1>6, <1>9 DEF BufferShape

(* Every step keeps the buffer's shape.                                     *)
LEMMA BufferShapeStep == TypeOK /\ BufferShape /\ [Next]_vars => BufferShape'
<1> SUFFICES ASSUME TypeOK, BufferShape, [Next]_vars PROVE BufferShape'
  OBVIOUS
<1>1. ASSUME UNCHANGED <<buffer, count>> PROVE BufferShape'
  BY <1>1 DEF BufferShape
<1>2. ASSUME NEW code \in 0 .. Base - 1, Token(code) PROVE BufferShape'
  <2>1. Place \in 0 .. FrameLen - 1
    BY <1>2, PlacesMove
  <2>2. \/ UNCHANGED <<buffer, count>>
        \/ \E id \in Nat \ {0} : Accept(id) /\ (id < Base => Place = Slot)
    BY <1>2, TokenTaken
  <2> QED BY <1>1, <2>1, <2>2, BufferShapeAccept
<1>3. CASE End \/ UNCHANGED vars
  BY <1>1, <1>3 DEF End, vars
<1> QED BY <1>2, <1>3 DEF Next, Idle

(* The buffer starts empty.                                                 *)
LEMMA InitBuffer == Init => BufferShape
BY WindowPositive DEF Init, BufferShape

(* Whatever was skipped before, a window decoded at a frame's end holds no  *)
(* code in a place it was not made for, but for the value Base.             *)
THEOREM AlignedTheorem == Spec => EmittedAligned
<1> DEFINE Aligned ==
      out' # out /\ ~ended' =>
          \A i \in 1 .. Window : buffer'[i].id # Base =>
              buffer'[i].id < Base /\ buffer'[i].place = (i - 1) % FrameLen
<1>1. TypeOK /\ TypeOK' /\ BufferShape' /\ [Next]_vars => Aligned
  <2> SUFFICES ASSUME TypeOK, TypeOK', BufferShape', [Next]_vars, out' # out, ~ended',
                      NEW i \in 1 .. Window, buffer'[i].id # Base
               PROVE  buffer'[i].id < Base /\ buffer'[i].place = (i - 1) % FrameLen
    BY DEF BufferShape
  <2>1. PICK code \in 0 .. Base - 1 : Token(code)
    BY DEF Next, End, Idle, vars
  <2>2. PICK id \in Nat \ {0} : Accept(id)
    BY <2>1, TokenTaken
  <2>3. Due(count') /\ InRange(buffer')
    BY <2>2 DEF Accept
  <2>4. count' \in Nat /\ count' >= Window /\ count' % FrameLen = 0 /\ Window \in Nat
    <3>1. count' \in Nat
      BY DEF TypeOK
    <3>2. count' % FrameLen = 0 /\ count' > Window - 1
      BY <2>3 DEF Due
    <3>3. Window \in Nat
      BY WindowPositive
    <3>4. \A n \in Nat, w \in Nat : n > w - 1 => n >= w
      OBVIOUS
    <3>5. count' >= Window
      BY <3>1, <3>2, <3>3, <3>4
    <3> QED BY <3>1, <3>2, <3>3, <3>5
  <2>5. Len(buffer') = Window
    BY <2>4 DEF BufferShape
  <2>6. buffer'[i].id <= Base /\ buffer'[i].id \in Nat
    <3>1. buffer'[i].id <= Base
      BY <2>3, <2>5 DEF InRange
    <3>2. buffer'[i] \in Accepted
      BY <2>5, ElementOfSeq DEF TypeOK, Accepted
    <3> QED BY <3>1, <3>2 DEF Accepted
  <2>7. buffer'[i].id < Base
    BY <2>6
  <2>8. buffer'[i].place = (count' - Window + i - 1) % FrameLen
    BY <2>5, <2>7 DEF BufferShape
  <2>9. (count' - Window + (i - 1)) % FrameLen = (i - 1) % FrameLen
    <3>1. i - 1 \in Nat
      BY <2>4
    <3> QED BY <2>4, <3>1, ModWindow
  <2>10. count' - Window + i - 1 = count' - Window + (i - 1)
    BY <2>4
  <2> QED BY <2>7, <2>8, <2>9, <2>10
<1>2. TypeOK /\ BufferShape /\ [Next]_vars => [Aligned]_vars
  BY <1>1, TypeOKStep, BufferShapeStep
<1> QED BY <1>2, InitBuffer, BufferShapeStep, TypeCorrect, PTL DEF Spec, EmittedAligned

---------------------------------------------------------------------------
(* The sound comes back.                                                    *)

(* Out of step, the decoder is back in step within two frames.              *)
LEMMA LagBounds ==
    ASSUME NEW slot \in 0 .. FrameLen - 1, NEW place \in 0 .. FrameLen - 1,
           slot = place \/ place = slot + 1 \/ slot = FrameLen - 1
    PROVE  LagOf(slot, place) \in 0 .. 2 * FrameLen - 2
BY DEF LagOf

(* A token out of step brings the decoder one token nearer.                 *)
LEMMA LagStep ==
    ASSUME TypeOK, SlotShape, NEW code \in 0 .. Base - 1, Token(code), Place # Slot
    PROVE  Lag' = Lag - 1
<1>1. /\ Place \in 0 .. FrameLen - 1 /\ Slot \in 0 .. FrameLen - 1
      /\ Place' = After(Place)
  BY PlacesMove
<1>2. CASE Place < Slot
  <2>1. count' = count
    BY <1>1, <1>2, TokenTaken
  <2>2. Slot' = Slot
    BY <2>1, PlacesMove
  <2>3. Slot = FrameLen - 1 /\ Place' = Place + 1
    BY <1>1, <1>2 DEF SlotShape, After
  <2>4. Lag = FrameLen - 1 - Place
    BY <1>1, <1>2 DEF Lag, LagOf
  <2>5. Lag' = FrameLen - 1 - Place'
    BY <1>1, <1>2, <2>2, <2>3 DEF Lag, LagOf
  <2> QED BY <1>1, <2>3, <2>4, <2>5
<1>3. CASE Place > Slot
  <2>1. PICK id \in Nat \ {0} : Accept(id)
    BY <1>1, <1>3, TokenTaken
  <2>2. count' = count + 1
    BY <2>1 DEF Accept
  <2>3. Slot' = After(Slot)
    BY <2>2, PlacesMove
  <2>4. Place = Slot + 1 /\ Slot' = Place
    BY <1>1, <1>3, <2>3 DEF SlotShape, After
  <2>5. Lag = 2 * FrameLen - 1 - Place
    BY <1>1, <1>3, <2>4 DEF Lag, LagOf
  <2>6. Lag' = 2 * FrameLen - 2 - Place
    BY <1>1, <1>3, <2>4 DEF Lag, LagOf, After
  <2> QED BY <1>1, <2>5, <2>6
<1> QED BY <1>1, <1>2, <1>3

(* Enough codes since the last zero, and the decoder is in step.            *)
LEMMA BackInStep ==
    ASSUME TypeOK, SlotShape, Recovering, InStep >= 1
    PROVE  Slot = Place
<1>1. Place \in 0 .. FrameLen - 1 /\ Slot \in 0 .. FrameLen - 1
  <2>1. made \in Nat /\ count \in Nat
    BY DEF TypeOK
  <2> QED BY <2>1, ModNext DEF Place, Slot
<1>2. Lag \in Nat
  BY <1>1, LagBounds DEF Lag, SlotShape
<1>3. InStep \in Int
  BY DEF InStep, TypeOK
<1>4. ~(InStep + Lag <= 0)
  BY <1>2, <1>3
<1> QED BY <1>4 DEF Recovering

(* Nothing is asked of a buffer before the decoder is back in step.         *)
LEMMA JustBack ==
    ASSUME NEW k \in Int, k <= 0, NEW n \in Nat
    PROVE  \A i \in 1 .. n : ~(i > n - k)
OBVIOUS

(* A token in step whose code is not zero adds an id below Base.            *)
LEMMA InStepToken ==
    ASSUME TypeOK, Recovering, Slot = Place, Place \in 0 .. FrameLen - 1,
           NEW id \in Nat \ {0}, Accept(id), id < Base, InStep' = InStep + 1
    PROVE  /\ InStep' <= count'
           /\ \A i \in 1 .. Len(buffer') : i > Len(buffer') - InStep' => buffer'[i].id < Base
<1>1. PICK k \in Int : k = InStep
  BY DEF InStep, TypeOK
<1>2. count \in Nat /\ count' = count + 1 /\ Window \in Nat \ {0}
  BY WindowPositive DEF TypeOK, Accept
<1>3. k <= count
  BY <1>1 DEF Recovering
<1>4. PICK n \in Nat : n = Len(buffer) /\ n <= Window
  BY AcceptBuffer DEF TypeOK
<1>5. PICK m : m = Len(buffer')
  OBVIOUS
<1>6. /\ m = IF n < Window THEN n + 1 ELSE Window
      /\ buffer'[m].id = id
      /\ \A i \in 1 .. m - 1 : buffer'[i] = buffer[i + (n + 1 - m)]
  BY <1>4, <1>5, AcceptBuffer
<1>7. m \in Nat /\ n + 1 - m \in {0, 1} /\ m >= 1
  BY <1>2, <1>4, <1>6
<1>8. \A i \in 1 .. n : i > n - k => buffer[i].id < Base
  BY <1>1, <1>4 DEF Recovering
<1>9. ASSUME NEW i \in 1 .. m, i > m - (k + 1)
      PROVE  buffer'[i].id < Base
  <2>1. CASE i = m
    BY <1>6, <2>1
  <2>2. CASE i # m
    <3>1. PICK j \in 1 .. n : j = i + (n + 1 - m)
      BY <1>6, <1>7, <2>2
    <3>2. buffer'[i] = buffer[j]
      BY <1>6, <1>7, <2>2, <3>1
    <3>3. j > n - k
      BY <1>1, <1>7, <1>9, <3>1
    <3> QED BY <1>8, <3>2, <3>3
  <2> QED BY <2>1, <2>2
<1> QED BY <1>1, <1>2, <1>3, <1>5, <1>9

(* Every token leaves the decoder recovering.                               *)
LEMMA RecoveringToken ==
    ASSUME TypeOK, TypeOK', SlotShape, SlotShape', Recovering,
           NEW code \in 0 .. Base - 1, Token(code)
    PROVE  Recovering'
<1>0. /\ Place \in 0 .. FrameLen - 1 /\ Slot \in 0 .. FrameLen - 1
      /\ Place' = After(Place) /\ clean \in Nat /\ FrameLen \in Nat \ {0}
  BY PlacesMove DEF TypeOK
<1>1. Place' \in 0 .. FrameLen - 1 /\ Slot' \in 0 .. FrameLen - 1
  <2>1. made' \in Nat /\ count' \in Nat
    BY DEF TypeOK
  <2> QED BY <2>1, ModNext DEF Place, Slot
<1>2. PICK lag \in 0 .. 2 * FrameLen - 2 : lag = Lag'
  BY <1>1, LagBounds DEF Lag, SlotShape
<1>3. ASSUME NEW k \in Int, k = InStep', k + lag <= 0 PROVE Recovering'
  <2>1. k <= 0
    <3>1. lag \in Nat
      BY <1>0
    <3>2. \A l \in Nat : k + l <= 0 => k <= 0
      OBVIOUS
    <3> QED BY <1>3, <3>1, <3>2
  <2>2. count' \in Nat /\ Len(buffer') \in Nat
    BY LenProperties DEF TypeOK
  <2>3. \A i \in 1 .. Len(buffer') : ~(i > Len(buffer') - k)
    BY <2>1, <2>2, JustBack
  <2>4. k <= count'
    BY <2>1, <2>2
  <2> QED BY <1>2, <1>3, <2>3, <2>4 DEF Recovering
<1>4. CASE code = 0
  <2>1. InStep' = 0 - (2 * FrameLen - 2)
    BY <1>4 DEF InStep, Token
  <2>2. PICK k \in Int : k = 0 - (2 * FrameLen - 2)
    OBVIOUS
  <2>3. k + lag <= 0
    BY <2>2
  <2> QED BY <1>3, <2>1, <2>2, <2>3
<1>5. CASE code # 0 /\ Slot # Place
  <2>1. PICK k \in Int : k = InStep
    BY <1>0 DEF InStep
  <2>2. InStep' = k + 1
    BY <1>0, <1>5, <2>1 DEF InStep, Token
  <2>3. PICK l \in Int : l = Lag
    BY <1>0, LagBounds DEF Lag, SlotShape
  <2>4. lag = l - 1
    BY <1>2, <1>5, <2>3, LagStep
  <2>5. k + l <= 0
    BY <1>5, <2>1, <2>3 DEF Recovering
  <2>6. k + 1 \in Int /\ (k + 1) + lag <= 0
    BY <2>4, <2>5
  <2> QED BY <1>3, <2>2, <2>6
<1>6. CASE code # 0 /\ Slot = Place
  <2>1. InStep' = InStep + 1
    BY <1>0, <1>6 DEF InStep, Token
  <2>2. PICK id \in Nat \ {0} : Accept(id) /\ id < Base
    BY <1>0, <1>6, TokenTaken
  <2>3. count' = count + 1
    BY <2>2 DEF Accept
  <2>4. Slot' = Place'
    BY <1>0, <1>6, <2>3, PlacesMove
  <2>5. /\ InStep' <= count'
        /\ \A i \in 1 .. Len(buffer') : i > Len(buffer') - InStep' => buffer'[i].id < Base
    BY <1>0, <1>6, <2>1, <2>2, InStepToken
  <2> QED BY <2>4, <2>5 DEF Recovering
<1> QED BY <1>4, <1>5, <1>6

(* Every step leaves the decoder recovering.                                *)
LEMMA RecoveringStep ==
    TypeOK /\ TypeOK' /\ SlotShape /\ SlotShape' /\ Recovering /\ [Next]_vars => Recovering'
<1> SUFFICES ASSUME TypeOK, TypeOK', SlotShape, SlotShape', Recovering, [Next]_vars
             PROVE  Recovering'
  OBVIOUS
<1>1. CASE \E code \in 0 .. Base - 1 : Token(code)
  BY <1>1, RecoveringToken
<1>2. CASE End \/ UNCHANGED vars
  <2>1. UNCHANGED <<made, clean, buffer, count>>
    BY <1>2 DEF End, vars
  <2> QED BY <2>1 DEF Recovering, Slot, Place, Lag, LagOf, InStep
<1> QED BY <1>1, <1>2 DEF Next, Idle

(* The decoder starts in step with an empty buffer.                         *)
LEMMA InitRecovering == Init => Recovering
<1> SUFFICES ASSUME Init PROVE Recovering
  OBVIOUS
<1>1. Slot = Place
  BY DEF Init, Slot, Place
<1>2. InStep <= 0
  BY DEF Init, InStep
<1>3. InStep <= count /\ Len(buffer) = 0
  BY <1>2, EmptySeq DEF Init
<1> QED BY <1>1, <1>3 DEF Recovering

(* A frame that ends after enough codes without a zero is decoded.          *)
LEMMA FrameHeard ==
    ASSUME TypeOK, TypeOK', SlotShape, SlotShape', Recovering, Recovering',
           NEW code \in 0 .. Base - 1, Token(code),
           Place' = 0, clean' >= (WindowFrames + 2) * FrameLen - 1
    PROVE  out' = count'
<1>0. /\ Place \in 0 .. FrameLen - 1 /\ Slot \in 0 .. FrameLen - 1 /\ clean \in Nat
      /\ Window \in Nat \ {0} /\ FrameLen \in Nat \ {0}
  BY PlacesMove, WindowPositive DEF TypeOK
<1>1. (WindowFrames + 2) * FrameLen = Window + 2 * FrameLen
  BY DEF Window
<1>2. code # 0 /\ clean' = clean + 1
  BY <1>0, <1>1 DEF Token
<1>3. clean >= Window + 2 * FrameLen - 2
  BY <1>0, <1>1, <1>2
<1>4. InStep >= 1 /\ InStep' = InStep + 1 /\ InStep >= Window /\ InStep \in Int
  BY <1>0, <1>2, <1>3 DEF InStep
<1>5. Slot = Place
  BY <1>4, BackInStep
<1>6. PICK id \in Nat \ {0} : Accept(id)
  BY <1>0, <1>2, <1>5, TokenTaken
<1>7. count' = count + 1
  BY <1>6 DEF Accept
<1>8. count' % FrameLen = 0
  <2>1. Slot' = Place'
    BY <1>0, <1>5, <1>7, PlacesMove
  <2> QED BY <2>1 DEF Slot
<1>9. Slot' = Place'
  BY <1>8 DEF Slot
<1>10. /\ InStep' <= count'
       /\ \A i \in 1 .. Len(buffer') : i > Len(buffer') - InStep' => buffer'[i].id < Base
  BY <1>9 DEF Recovering
<1>11. Due(count')
  <2>1. count' \in Nat
    BY DEF TypeOK
  <2>2. count' > Window - 1
    BY <1>0, <1>4, <1>10, <2>1
  <2> QED BY <1>8, <2>2 DEF Due
<1>12. InRange(buffer')
  <2>1. Len(buffer') \in Nat /\ Len(buffer') <= Window /\ buffer' \in Seq(Accepted)
    BY LenProperties DEF TypeOK, Accepted
  <2>2. ASSUME NEW i \in 1 .. Len(buffer') PROVE 0 <= buffer'[i].id /\ buffer'[i].id <= Base
    <3>1. i > Len(buffer') - InStep'
      BY <1>0, <1>4, <2>1
    <3>2. buffer'[i].id < Base
      BY <1>10, <3>1
    <3>3. buffer'[i].id \in Nat
      <4>1. buffer'[i] \in Accepted
        BY <2>1, ElementOfSeq
      <4> QED BY <4>1 DEF Accepted
    <3> QED BY <3>2, <3>3
  <2> QED BY <2>2 DEF InRange
<1> QED BY <1>6, <1>11, <1>12 DEF Accept

(* A zero code is heard for a bounded time: once a window and two frames of *)
(* other codes have come, every further frame is decoded, in a stream of    *)
(* any length.                                                              *)
THEOREM RecoveryTheorem == Spec => []RecoversAfterZero
<1>1. Init => RecoversAfterZero
  BY DEF Init, RecoversAfterZero
<1>2. TypeOK /\ TypeOK' /\ SlotShape /\ SlotShape' /\ Recovering /\ Recovering'
        /\ RecoversAfterZero /\ [Next]_vars => RecoversAfterZero'
  <2> SUFFICES ASSUME TypeOK, TypeOK', SlotShape, SlotShape', Recovering, Recovering',
                      RecoversAfterZero, [Next]_vars
               PROVE  RecoversAfterZero'
    OBVIOUS
  <2> SUFFICES ASSUME Place' = 0, clean' >= (WindowFrames + 2) * FrameLen - 1
               PROVE  out' = count'
    BY DEF RecoversAfterZero
  <2>1. CASE \E code \in 0 .. Base - 1 : Token(code)
    BY <2>1, FrameHeard
  <2>2. CASE End \/ UNCHANGED vars
    <3>1. UNCHANGED <<made, clean, count>> /\ out' \in {out, count}
      BY <2>2 DEF End, vars
    <3>2. out = count
      BY <3>1 DEF RecoversAfterZero, Place
    <3> QED BY <3>1, <3>2
  <2> QED BY <2>1, <2>2 DEF Next, Idle
<1> QED
  BY <1>1, <1>2, InitSlot, SlotShapeStep, InitRecovering, RecoveringStep, TypeOKStep,
     TypeCorrect, PTL DEF Spec
=============================================================================
