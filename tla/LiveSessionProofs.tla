-------------------------- MODULE LiveSessionProofs -------------------------
(***************************************************************************)
(* Proofs about a live session with any number of phrases and chunks and   *)
(* any balance: it bills what it wrote before its final flush and nothing  *)
(* it did not write, it delivers nothing after insufficient_balance, and   *)
(* it counts every chunk for its own phrase when the client waits for      *)
(* utterance_done.                                                         *)
(***************************************************************************)
EXTENDS LiveSession, SequenceTheorems, TLAPS

USE LiveAssumption DEF main, receiver, billing, inference

(* The Boolean part of TypeOK, which the provers treat apart.               *)
Flags == /\ cancelled \in BOOLEAN /\ slot \in BOOLEAN
         /\ broken \in BOOLEAN /\ exhausted \in BOOLEAN /\ patient \in BOOLEAN

(* A message of the inference stream.                                       *)
Answer == [phrase : Nat, kind : {"pcm", "end"}]

(* Receiving an answer leaves a sequence of answers.                        *)
LEMMA OutboxTail ==
    ASSUME TypeOK, outbox # <<>>
    PROVE  Head(outbox) \in Answer /\ Tail(outbox) \in Seq(Answer)
BY HeadTailProperties DEF TypeOK, Answer

(* SynthesizeLive sends chunks and markers.                                 *)
LEMMA OutboxAppend ==
    ASSUME TypeOK, inbox # <<>>, NEW kind \in {"pcm", "end"}
    PROVE  /\ Append(outbox, [phrase |-> Head(inbox), kind |-> kind]) \in Seq(Answer)
           /\ Tail(inbox) \in Seq(Nat)
<1>1. Head(inbox) \in Nat /\ Tail(inbox) \in Seq(Nat)
  BY HeadTailProperties DEF TypeOK
<1>2. [phrase |-> Head(inbox), kind |-> kind] \in Answer
  BY <1>1 DEF Answer
<1>3. outbox \in Seq(Answer)
  BY DEF TypeOK, Answer
<1> QED BY <1>1, <1>2, <1>3, AppendProperties

(* Every step of the session keeps every variable in its type.              *)
LEMMA TypeOKStep == TypeOK /\ [Next]_vars => TypeOK'
<1> SUFFICES ASSUME TypeOK, [Next]_vars PROVE TypeOK'
  OBVIOUS
<1>1. CASE Refuse
  BY <1>1 DEF TypeOK, Refuse
<1>2. CASE OpenError
  BY <1>2 DEF TypeOK, OpenError
<1>3. CASE Open
  BY <1>3 DEF TypeOK, Open
<1>4. CASE ReadPartial
  BY <1>4 DEF TypeOK, ReadPartial
<1>5. CASE SendTextError
  BY <1>5 DEF TypeOK, SendTextError
<1>6. CASE ClientCloses
  BY <1>6 DEF TypeOK, ClientCloses
<1>7. CASE Admit
  BY <1>7 DEF TypeOK, Admit
<1>8. CASE ReadFinal
  BY <1>8 DEF TypeOK, ReadFinal
<1>9. CASE SendText
  <2>1. Append(inbox, sending) \in Seq(Nat)
    BY AppendProperties DEF TypeOK
  <2> QED BY <1>9, <2>1 DEF TypeOK, SendText
<1>10. CASE MaybeRefresh
  BY <1>10 DEF TypeOK, MaybeRefresh
<1>11. CASE FinalFlush
  BY <1>11 DEF TypeOK, FinalFlush, NoUtterance
<1>12. CASE HandlerReturns
  <2>1. Flags'
    BY <1>12, Zenon DEF TypeOK, Flags, HandlerReturns
  <2> QED BY <1>12, <2>1 DEF TypeOK, Flags, HandlerReturns
<1>13. CASE Top
  BY <1>13 DEF TypeOK, Top
<1>14. CASE RecvError
  BY <1>14 DEF TypeOK, RecvError
<1>15. CASE Write
  BY <1>15 DEF TypeOK, Write
<1>16. CASE WriteError
  BY <1>16 DEF TypeOK, WriteError
<1>17. CASE RecvMarker
  BY <1>17, OutboxTail DEF TypeOK, RecvMarker, NoUtterance, Answer
<1>18. CASE RecvChunk
  <2>1. Head(outbox).phrase \in Nat /\ Tail(outbox) \in Seq(Answer)
    BY <1>18, OutboxTail DEF RecvChunk, Answer
  <2>2. utt' \in [active : BOOLEAN, phrase : Nat, heard : SUBSET Nat]
    BY <1>18, <2>1 DEF TypeOK, RecvChunk
  <2> QED BY <1>18, <2>1, <2>2 DEF TypeOK, RecvChunk, Answer
<1>19. CASE Debit
  <2>1. Flags'
    BY <1>19, Zenon DEF TypeOK, Flags, Debit
  <2> QED BY <1>19, <2>1 DEF TypeOK, Flags, Debit
<1>20. CASE AddPCM
  BY <1>20 DEF TypeOK, AddPCM
<1>21. CASE Produce
  BY <1>21, OutboxAppend DEF TypeOK, Produce, Answer
<1>22. CASE EndPhrase
  BY <1>22, OutboxAppend DEF TypeOK, EndPhrase, Answer
<1>23. CASE Break
  <2>1. Flags'
    BY <1>23, Zenon DEF TypeOK, Flags, Break
  <2> QED BY <1>23, <2>1 DEF TypeOK, Flags, Break
<1>24. CASE OthersSpend
  BY <1>24 DEF TypeOK, OthersSpend
<1>25. CASE UNCHANGED vars
  BY <1>25 DEF TypeOK, vars
<1> QED
  BY <1>1, <1>2, <1>3, <1>4, <1>5, <1>6, <1>7, <1>8, <1>9, <1>10, <1>11, <1>12,
     <1>13, <1>14, <1>15, <1>16, <1>17, <1>18, <1>19, <1>20, <1>21, <1>22, <1>23, <1>24,
     <1>25
  DEF Next, MainStep, ReceiverStep, Over

(* Every reachable state of a session is well typed.                        *)
THEOREM TypeCorrect == Spec => []TypeOK
<1>1. Init => TypeOK
  <2> SUFFICES ASSUME Init PROVE TypeOK
    OBVIOUS
  <2>1. Flags
    BY Zenon DEF Init, Flags
  <2> QED BY <2>1 DEF Init, TypeOK, Flags, NoUtterance
<1> QED BY <1>1, TypeOKStep, PTL DEF Spec
-----------------------------------------------------------------------------
(* Who starts and stops the receiver.                                       *)
LEMMA ReceiverOnceStep == TypeOK /\ ReceiverOnce /\ [Next]_vars => ReceiverOnce'
<1> SUFFICES ASSUME TypeOK, ReceiverOnce, [Next]_vars PROVE ReceiverOnce'
  OBVIOUS
<1> USE DEF ReceiverOnce
<1>1. CASE Refuse \/ Admit \/ Open \/ OpenError
  BY <1>1 DEF Refuse, Admit, Open, OpenError
<1>2. CASE ReadFinal \/ ReadPartial \/ ClientCloses \/ SendText \/ SendTextError
  BY <1>2 DEF ReadFinal, ReadPartial, ClientCloses, SendText, SendTextError
<1>3. CASE MaybeRefresh \/ FinalFlush \/ HandlerReturns
  BY <1>3 DEF MaybeRefresh, FinalFlush, HandlerReturns
<1>4. CASE Top \/ RecvError \/ RecvMarker \/ RecvChunk \/ Write \/ WriteError \/ AddPCM
  BY <1>4 DEF Top, RecvError, RecvMarker, RecvChunk, Write, WriteError, AddPCM
<1>5. CASE Debit
  BY <1>5 DEF Debit
<1>6. CASE Produce \/ EndPhrase \/ Break \/ OthersSpend \/ UNCHANGED vars
  BY <1>6 DEF Produce, EndPhrase, Break, OthersSpend, vars
<1> QED BY <1>1, <1>2, <1>3, <1>4, <1>5, <1>6 DEF Next, MainStep, ReceiverStep, Over

(* Every step keeps the books of the session.                               *)
LEMMA BillingStep ==
    TypeOK /\ ReceiverOnce /\ BillingTracksDelivery /\ [Next]_vars => BillingTracksDelivery'
<1> SUFFICES ASSUME TypeOK, ReceiverOnce, BillingTracksDelivery, [Next]_vars
             PROVE  BillingTracksDelivery'
  OBVIOUS
<1>0. window \in Nat /\ published \in Nat /\ delivered \in Nat /\ late \in Nat
  BY DEF TypeOK
<1>1. CASE FinalFlush
  BY <1>0, <1>1 DEF BillingTracksDelivery, FinalFlush, Flushed
<1>2. CASE Write
  BY <1>0, <1>2 DEF BillingTracksDelivery, Write, Flushed
<1>3. CASE AddPCM
  BY <1>0, <1>3 DEF BillingTracksDelivery, AddPCM, Flushed
<1>4. ASSUME UNCHANGED <<window, published, late, delivered>>, rpc = "add" <=> rpc' = "add",
             Flushed' => Flushed \/ window = 0
      PROVE  BillingTracksDelivery'
  BY <1>0, <1>4 DEF BillingTracksDelivery
<1>5. CASE Top \/ RecvError \/ RecvMarker \/ RecvChunk \/ Debit \/ WriteError
  BY <1>4, <1>5 DEF Flushed, Top, RecvError, RecvMarker, RecvChunk, Debit, WriteError
<1>6. CASE Refuse \/ Admit \/ Open \/ OpenError
  BY <1>4, <1>6 DEF Flushed, Refuse, Admit, Open, OpenError, ReceiverOnce
<1>7. CASE ReadFinal \/ ReadPartial \/ ClientCloses \/ SendText \/ SendTextError
  BY <1>4, <1>7 DEF Flushed, ReadFinal, ReadPartial, ClientCloses, SendText, SendTextError
<1>8. CASE MaybeRefresh \/ HandlerReturns
  BY <1>4, <1>8 DEF Flushed, MaybeRefresh, HandlerReturns
<1>9. CASE Produce \/ EndPhrase \/ Break \/ OthersSpend \/ UNCHANGED vars
  BY <1>4, <1>9 DEF Flushed, Produce, EndPhrase, Break, OthersSpend, vars
<1> QED
  BY <1>1, <1>2, <1>3, <1>5, <1>6, <1>7, <1>8, <1>9 DEF Next, MainStep, ReceiverStep, Over

(* The inductive invariant holds at the start.                              *)
LEMMA InitOnce == Init => ReceiverOnce /\ BillingTracksDelivery
BY DEF Init, ReceiverOnce, BillingTracksDelivery, Flushed

(* Every chunk WriteMessage accepted is published or in the window, but for *)
(* the one on its way from WriteMessage to AddPCM; and once the final flush *)
(* has been, the window, which no other flush empties, holds no more than   *)
(* the receiver added after it.                                             *)
THEOREM BillingTheorem == Spec => []BillingTracksDelivery
BY InitOnce, ReceiverOnceStep, BillingStep, TypeCorrect, PTL DEF Spec

(* Whatever the main loop goes on reading, sending and refreshing, no chunk *)
(* is written once the client has been told that its balance is exhausted.  *)
THEOREM ExhaustedTheorem == Spec => NothingAfterExhausted
<1>1. ReceiverOnce /\ [Next]_vars => (exhausted => delivered' = delivered)
  <2> SUFFICES ASSUME ReceiverOnce, [Next]_vars, exhausted PROVE delivered' = delivered
    OBVIOUS
  <2>1. ~Write
    BY DEF ReceiverOnce, Write
  <2>2. CASE \/ Refuse \/ Admit \/ Open \/ OpenError \/ ReadFinal \/ ReadPartial
             \/ ClientCloses \/ SendText \/ SendTextError \/ MaybeRefresh \/ FinalFlush
             \/ HandlerReturns
    BY <2>2 DEF Refuse, Admit, Open, OpenError, ReadFinal, ReadPartial, ClientCloses,
                SendText, SendTextError, MaybeRefresh, FinalFlush, HandlerReturns
  <2>3. CASE Top \/ RecvError \/ RecvMarker \/ RecvChunk \/ Debit \/ WriteError \/ AddPCM
    BY <2>3 DEF Top, RecvError, RecvMarker, RecvChunk, Debit, WriteError, AddPCM
  <2>4. CASE Produce \/ EndPhrase \/ Break \/ OthersSpend \/ UNCHANGED vars
    BY <2>4 DEF Produce, EndPhrase, Break, OthersSpend, vars
  <2> QED BY <2>1, <2>2, <2>3, <2>4 DEF Next, MainStep, ReceiverStep, Over
<1> QED BY <1>1, InitOnce, ReceiverOnceStep, TypeCorrect, PTL DEF Spec, NothingAfterExhausted
-----------------------------------------------------------------------------
(* Whose chunk it is.                                                       *)

(* A patient client has at most one phrase under way, and it is the last    *)
(* one it sent: what waits in inbox and outbox belongs to it, its marker    *)
(* comes last and only when inbox is empty, and nothing is left of it when  *)
(* it has been acknowledged.  Between ReadFinal and SendText the queues are *)
(* empty.                                                                   *)
Queued ==
    /\ Len(inbox) <= 1
    /\ \A i \in 1 .. Len(inbox) : inbox[i] = phrases
    /\ \A i \in 1 .. Len(outbox) :
         /\ outbox[i].phrase = phrases
         /\ outbox[i].kind = "end" => i = Len(outbox) /\ Len(inbox) = 0

UnderWay ==
    /\ acked = phrases \/ acked + 1 = phrases
    /\ acked = phrases => Len(inbox) = 0 /\ Len(outbox) = 0
    /\ mpc = "send" /\ sending # 0 =>
         sending = phrases /\ acked # phrases /\ Len(inbox) = 0 /\ Len(outbox) = 0

Attributed == utt.active => utt.phrase = phrases /\ utt.heard \subseteq {phrases}

OneAtATime == patient => Queued /\ UnderWay /\ Attributed

(* The steps that touch neither the queues nor the utterance.               *)
LEMMA OneAtATimeFrame ==
    ASSUME OneAtATime, mpc' = "send" => mpc = "send",
           UNCHANGED <<patient, phrases, acked, inbox, outbox, utt, sending>>
    PROVE  OneAtATime'
BY DEF OneAtATime, Queued, UnderWay, Attributed

(* A patient client sends its next phrase into empty queues.                *)
LEMMA OneAtATimeRead ==
    ASSUME TypeOK, OneAtATime, ReadFinal \/ ReadPartial
    PROVE  OneAtATime'
<1> SUFFICES ASSUME patient' PROVE Queued' /\ UnderWay' /\ Attributed'
  BY DEF OneAtATime
<1>0. patient /\ Queued /\ UnderWay /\ Attributed
  BY DEF OneAtATime, ReadFinal, ReadPartial
<1>1. phrases \in Nat /\ acked \in Nat
  BY DEF TypeOK
<1>2. CASE ReadFinal
  <2>1. acked = phrases /\ Len(inbox) = 0 /\ Len(outbox) = 0
    BY <1>0, <1>2 DEF ReadFinal, UnderWay
  <2>2. phrases' = phrases + 1 /\ sending' = phrases + 1 /\ UNCHANGED <<acked, inbox, outbox>>
    BY <1>2 DEF ReadFinal
  <2>3. Queued'
    BY <2>1, <2>2 DEF Queued
  <2>4. UnderWay'
    BY <1>1, <2>1, <2>2 DEF UnderWay
  <2>5. Attributed'
    BY <1>2 DEF Attributed, ReadFinal
  <2> QED BY <2>3, <2>4, <2>5
<1>3. CASE ReadPartial
  BY <1>0, <1>3 DEF ReadPartial, Queued, UnderWay, Attributed
<1> QED BY <1>2, <1>3

(* The phrase is the only one in inbox.                                     *)
LEMMA OneAtATimeSend ==
    ASSUME TypeOK, OneAtATime, SendText
    PROVE  OneAtATime'
<1> SUFFICES ASSUME patient' PROVE Queued' /\ UnderWay' /\ Attributed'
  BY DEF OneAtATime
<1>0. patient /\ Queued /\ UnderWay /\ Attributed
  BY DEF OneAtATime, SendText
<1>1. UNCHANGED <<phrases, acked, outbox, utt>> /\ mpc = "send" /\ mpc' = "sent"
  BY DEF SendText
<1>2. CASE sending = 0
  BY <1>0, <1>1, <1>2 DEF SendText, Queued, UnderWay, Attributed
<1>3. CASE sending # 0
  <2>1. sending = phrases /\ acked # phrases /\ Len(inbox) = 0 /\ Len(outbox) = 0
    BY <1>0, <1>1, <1>3 DEF UnderWay
  <2>2. inbox' = Append(inbox, phrases) /\ inbox \in Seq(Nat) /\ phrases \in Nat
    BY <1>3, <2>1 DEF SendText, TypeOK
  <2>3. Len(inbox') = 1 /\ inbox'[1] = phrases
    BY <2>1, <2>2, AppendProperties
  <2>4. Queued'
    BY <1>1, <2>1, <2>3 DEF Queued
  <2>5. UnderWay'
    BY <1>0, <1>1, <2>1 DEF UnderWay
  <2> QED BY <1>0, <1>1, <2>4, <2>5 DEF Attributed
<1> QED BY <1>2, <1>3

(* What SynthesizeLive answers belongs to the phrase it works on, and the   *)
(* marker is its last answer.                                               *)
LEMMA OneAtATimeAnswer ==
    ASSUME TypeOK, OneAtATime, Produce \/ EndPhrase
    PROVE  OneAtATime'
<1> SUFFICES ASSUME patient' PROVE Queued' /\ UnderWay' /\ Attributed'
  BY DEF OneAtATime
<1>0. patient /\ Queued /\ UnderWay /\ Attributed
  BY DEF OneAtATime, Produce, EndPhrase
<1>1. UNCHANGED <<phrases, acked, utt, mpc, sending>> /\ inbox # <<>>
  BY DEF Produce, EndPhrase
<1>2. inbox \in Seq(Nat) /\ outbox \in Seq(Answer)
  BY DEF TypeOK, Answer
<1>3. Len(inbox) = 1 /\ Head(inbox) = phrases /\ Tail(inbox) = <<>>
  <2>1. Len(inbox) \in Nat /\ Len(inbox) # 0
    BY <1>1, <1>2, EmptySeq
  <2>2. Len(inbox) = 1
    <3>1. Len(inbox) <= 1
      BY <1>0 DEF Queued
    <3>2. \A n \in Nat : n # 0 /\ n <= 1 => n = 1
      OBVIOUS
    <3> QED BY <2>1, <3>1, <3>2
  <2>3. \A i \in 1 .. Len(inbox) : inbox[i] = phrases
    BY <1>0 DEF Queued
  <2>4. inbox[1] = phrases
    BY <2>2, <2>3
  <2>5. Head(inbox) = inbox[1]
    BY <1>1, <1>2
  <2>6. Tail(inbox) \in Seq(Nat) /\ Len(Tail(inbox)) = 0
    BY <1>1, <1>2, <2>2, HeadTailProperties
  <2>7. Tail(inbox) = <<>>
    BY <2>6, EmptySeq
  <2> QED BY <2>2, <2>4, <2>5, <2>7
<1>4. acked # phrases /\ ~(mpc = "send" /\ sending # 0)
  BY <1>0, <1>3 DEF UnderWay
<1>5. UnderWay' /\ Attributed'
  BY <1>0, <1>1, <1>4 DEF UnderWay, Attributed
<1>6. PICK kind \in {"pcm", "end"} :
        /\ outbox' = Append(outbox, [phrase |-> phrases, kind |-> kind])
        /\ inbox' = IF kind = "pcm" THEN inbox ELSE <<>>
  BY <1>3 DEF Produce, EndPhrase
<1>7. [phrase |-> phrases, kind |-> kind] \in Answer
  BY DEF Answer, TypeOK
<1>8. /\ Len(outbox') = Len(outbox) + 1 /\ Len(outbox) \in Nat
      /\ outbox'[Len(outbox) + 1] = [phrase |-> phrases, kind |-> kind]
      /\ \A i \in 1 .. Len(outbox) : outbox'[i] = outbox[i]
  BY <1>2, <1>6, <1>7, AppendProperties
<1>9. \A i \in 1 .. Len(outbox) : outbox[i].phrase = phrases /\ outbox[i].kind # "end"
  BY <1>0, <1>3 DEF Queued
<1>10. Len(inbox') = (IF kind = "pcm" THEN 1 ELSE 0) /\ (kind = "pcm" => inbox' = inbox)
  BY <1>3, <1>6
<1>11. ASSUME NEW i \in 1 .. Len(outbox')
       PROVE  /\ outbox'[i].phrase = phrases
              /\ outbox'[i].kind = "end" => i = Len(outbox') /\ Len(inbox') = 0
  <2>1. CASE i = Len(outbox) + 1
    <3>1. outbox'[i].phrase = phrases /\ outbox'[i].kind = kind
      BY <1>8, <2>1
    <3>2. kind = "end" => Len(inbox') = 0
      BY <1>10
    <3> QED BY <1>8, <2>1, <3>1, <3>2
  <2>2. CASE i # Len(outbox) + 1
    <3>1. i \in 1 .. Len(outbox)
      BY <1>8, <1>11, <2>2
    <3> QED BY <1>8, <1>9, <3>1
  <2> QED BY <2>1, <2>2
<1>12. Len(inbox') <= 1 /\ \A i \in 1 .. Len(inbox') : inbox'[i] = phrases
  BY <1>0, <1>10 DEF Queued
<1>13. Queued'
  BY <1>1, <1>11, <1>12 DEF Queued
<1> QED BY <1>5, <1>13

(* A chunk that is heard is of the utterance that is active, and the marker *)
(* closes the utterance when nothing of it is left.                         *)
LEMMA OneAtATimeRecv ==
    ASSUME TypeOK, OneAtATime, RecvMarker \/ RecvChunk
    PROVE  OneAtATime'
<1> SUFFICES ASSUME patient' PROVE Queued' /\ UnderWay' /\ Attributed'
  BY DEF OneAtATime
<1>0. patient /\ Queued /\ UnderWay /\ Attributed
  BY DEF OneAtATime, RecvMarker, RecvChunk
<1>1. /\ UNCHANGED <<phrases, mpc, sending, inbox>>
      /\ outbox # <<>> /\ outbox' = Tail(outbox)
  BY DEF RecvMarker, RecvChunk
<1>2. outbox \in Seq(Answer) /\ phrases \in Nat /\ acked \in Nat
  BY DEF TypeOK, Answer
<1>3. /\ Len(outbox) \in Nat \ {0} /\ Head(outbox) = outbox[1]
      /\ Len(outbox') = Len(outbox) - 1
      /\ \A i \in 1 .. Len(outbox') : outbox'[i] = outbox[i + 1]
  BY <1>1, <1>2, HeadTailProperties, EmptySeq
<1>4. Head(outbox).phrase = phrases
  BY <1>0, <1>3 DEF Queued
<1>5. acked # phrases /\ acked + 1 = phrases /\ ~(mpc = "send" /\ sending # 0)
  BY <1>0, <1>3 DEF UnderWay
<1>6. Queued'
  <2>1. ASSUME NEW i \in 1 .. Len(outbox')
        PROVE  /\ outbox'[i].phrase = phrases
               /\ outbox'[i].kind = "end" => i = Len(outbox') /\ Len(inbox') = 0
    <3>1. i + 1 \in 1 .. Len(outbox) /\ outbox'[i] = outbox[i + 1]
      BY <1>3
    <3>2. /\ outbox[i + 1].phrase = phrases
          /\ outbox[i + 1].kind = "end" => i + 1 = Len(outbox) /\ Len(inbox) = 0
      BY <1>0, <3>1 DEF Queued
    <3>3. i + 1 = Len(outbox) => i = Len(outbox')
      BY <1>3
    <3>4. Len(inbox') = Len(inbox)
      BY <1>1
    <3>5. outbox'[i].phrase = phrases
      BY <3>1, <3>2
    <3>6. outbox'[i].kind = "end" => i = Len(outbox') /\ Len(inbox') = 0
      BY <3>1, <3>2, <3>3, <3>4
    <3> QED BY <3>5, <3>6
  <2> QED BY <1>0, <1>1, <2>1 DEF Queued
<1>7. CASE RecvMarker
  <2>1. Len(outbox) = 1 /\ Len(inbox) = 0
    <3>1. outbox[1].kind = "end" /\ 1 \in 1 .. Len(outbox)
      BY <1>3, <1>7 DEF RecvMarker
    <3> QED BY <1>0, <3>1 DEF Queued
  <2>2. acked' = phrases /\ Len(inbox') = 0 /\ Len(outbox') = 0
    BY <1>1, <1>3, <1>5, <1>7, <2>1 DEF RecvMarker
  <2>3. UnderWay'
    BY <1>1, <1>5, <2>2 DEF UnderWay
  <2>4. Attributed'
    BY <1>7 DEF RecvMarker, Attributed, NoUtterance
  <2> QED BY <1>6, <2>3, <2>4
<1>8. CASE RecvChunk
  <2>1. UNCHANGED acked
    BY <1>8 DEF RecvChunk
  <2>2. UnderWay'
    BY <1>1, <1>5, <2>1 DEF UnderWay
  <2>3. utt' = IF utt.active THEN [utt EXCEPT !.heard = @ \cup {phrases}] ELSE utt
    BY <1>4, <1>8 DEF RecvChunk
  <2>4. utt \in [active : BOOLEAN, phrase : Nat, heard : SUBSET Nat]
    BY DEF TypeOK
  <2>5. Attributed'
    BY <1>0, <1>1, <2>3, <2>4 DEF Attributed
  <2> QED BY <1>6, <2>2, <2>5
<1> QED BY <1>7, <1>8

(* Every step of the session keeps a patient client's phrases apart.        *)
LEMMA OneAtATimeStep == TypeOK /\ OneAtATime /\ [Next]_vars => OneAtATime'
<1> SUFFICES ASSUME TypeOK, OneAtATime, [Next]_vars PROVE OneAtATime'
  OBVIOUS
<1>1. CASE ReadFinal \/ ReadPartial
  BY <1>1, OneAtATimeRead
<1>2. CASE SendText
  BY <1>2, OneAtATimeSend
<1>3. CASE Produce \/ EndPhrase
  BY <1>3, OneAtATimeAnswer
<1>4. CASE RecvMarker \/ RecvChunk
  BY <1>4, OneAtATimeRecv
<1>5. CASE FinalFlush
  BY <1>5 DEF FinalFlush, NoUtterance, OneAtATime, Queued, UnderWay, Attributed
<1>6. CASE Refuse \/ Admit \/ Open \/ OpenError \/ SendTextError \/ MaybeRefresh
           \/ ClientCloses \/ HandlerReturns
  BY <1>6, OneAtATimeFrame DEF Refuse, Admit, Open, OpenError, SendTextError, MaybeRefresh,
                               ClientCloses, HandlerReturns
<1>7. CASE Top \/ RecvError \/ Debit \/ Write \/ WriteError \/ AddPCM
  BY <1>7, OneAtATimeFrame DEF Top, RecvError, Debit, Write, WriteError, AddPCM
<1>8. CASE Break \/ OthersSpend \/ UNCHANGED vars
  BY <1>8, OneAtATimeFrame DEF Break, OthersSpend, vars
<1> QED
  BY <1>1, <1>2, <1>3, <1>4, <1>5, <1>6, <1>7, <1>8 DEF Next, MainStep, ReceiverStep, Over

(* For a client that waits for utterance_done, every chunk is counted for   *)
(* the phrase it was made for, in every interleaving of the two goroutines  *)
(* with SynthesizeLive, on a stream that breaks at any point.               *)
THEOREM AttributionTheorem == Spec => []PatientAttribution
<1>1. Init => OneAtATime
  BY DEF Init, NoUtterance, OneAtATime, Queued, UnderWay, Attributed
<1>2. OneAtATime => PatientAttribution
  BY DEF OneAtATime, Attributed, PatientAttribution
<1> QED BY <1>1, <1>2, OneAtATimeStep, TypeCorrect, PTL DEF Spec
=============================================================================
